\* The console tests two switches, one after the other.
SPECIFICATION FairSpec
CONSTANTS
  NumSwitches = 2
  Expander = {}
  Client = {c1}
  Calls = {"test_all"}
  Rules <- OnlyDisabled
  Snapshots <- OnlyOverload
  PulseTime = 1
  MaxDelay = 1
  TimeMod = 6
  MaxLag = 1
  MayReboot = FALSE
PROPERTY PulseEnds PulseFlagClears
