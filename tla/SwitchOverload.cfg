\* The default rule under a permanent overload.
SPECIFICATION FairSpec
CONSTANTS
  NumSwitches = 1
  Expander = {}
  Client = {}
  Calls = {}
  Rules <- OnlyDefault
  Snapshots <- OnlyOverload
  PulseTime = 1
  MaxDelay = 2
  TimeMod = 8
  MaxLag = 1
  MayReboot = FALSE
PROPERTY SustainedConditionTrips
