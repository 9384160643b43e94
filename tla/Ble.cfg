\* Wrong PINs, resets, bad arguments, PIN changes, commands of the backend, BLE taken down.
SPECIFICATION FairSpec
CONSTANTS
  QueueSize = 2
  MaxCommands = 2
  Gap = 2
  Window = 3
  Unit = 1
  MaxShift = 2
  MaxWait = 3
  FailLimit = 3
  MaxPin = 2
  OwnerCommand = "discover_sensors"
  Scenarios <- MCScenarios
INVARIANT TypeOK
PROPERTY GuessesSpaced  OwnerGetsIn
CHECK_DEADLOCK FALSE
