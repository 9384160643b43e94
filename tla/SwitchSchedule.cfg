\* A switch on a schedule; a client rewrites its row and rule and turns auto-trip off while the rule runs.
SPECIFICATION FairSpec
CONSTANTS
  NumSwitches = 1
  Expander = {}
  Client = {c1}
  Calls = {"edit", "auto_off"}
  Rules <- EditSchedule
  Snapshots <- TwoSnaps
  PulseTime = 1
  MaxDelay = 1
  TimeMod = 6
  MaxLag = 1
  MayReboot = FALSE
PROPERTY ScheduleFollows
