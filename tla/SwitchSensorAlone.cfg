\* The sensor task alone: every kind of rule, late passes, wraps of the clock, reboots.
SPECIFICATION Spec
CONSTANTS
  NumSwitches = 1
  Expander = {}
  Client = {}
  Calls = {}
  Rules <- AllRules
  Snapshots <- AllSnaps
  PulseTime = 1
  MaxDelay = 2
  TimeMod = 10
  MaxLag = 1
  MayReboot = TRUE
PROPERTY RuleFlipsAreSustained EvaluationSettles
