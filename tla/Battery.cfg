\* The counters and the battery configuration under two clients and a reset.
SPECIFICATION FairSpec
CONSTANTS
  Client = {network}
  network = network
  Full = 2
  Current <- MCCurrent
  Hysteresis = 0
  Interval = 2
  Builtins = 1
  Profiles = 3
  Budgets <- MCBudgets
INVARIANT TypeOK CyclesAreTravel ChargeLossBounded ConfigurationDurable
PROPERTY FlashFollowsRam
CHECK_DEADLOCK FALSE
