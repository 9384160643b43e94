\* One client sets and pulses an expander switch while its rule runs.
SPECIFICATION Spec
CONSTANTS
  NumSwitches = 1
  Expander = {0}
  Client = {c1}
  Calls = {"off", "pulse"}
  Rules <- OnlyQuick
  Snapshots <- TwoSnaps
  PulseTime = 1
  MaxDelay = 1
  TimeMod = 6
  MaxLag = 1
  MayReboot = FALSE
INVARIANT TypeOK TimersExact
