\* Outages, restarts, broken sessions and edited rules, each with a few messages.
SPECIFICATION FairSpec
CONSTANTS
  d1 = d1
  r1 = r1
  r2 = r2
  Device = {d1}
  AnyDevice = AnyDevice
  DeviceType <- MCType
  RuleId = {r1, r2}
  RuleRows <- MCRules
  MaxFrame = 3
  Reading <- MCReading
  BufCap = 2
  BatchSize = 2
  StaleAfter = 4
  HeartbeatEvery = 3
  Scenarios <- MCScenarios
INVARIANT TypeOK InsertedOnce AlarmsAccounted
PROPERTY RowsReachStore AlarmMailedOnce PresenceSettles
CHECK_DEADLOCK FALSE
