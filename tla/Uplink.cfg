\* Outages, faults of the broker, new credentials, a card that is taken out, resets.
SPECIFICATION FairSpec
CONSTANTS
  MaxSample = 7
  RingSize = 2
  OverflowMax = 3
  TelemetryMax = 2
  QueueSize = 1
  Scenarios <- MCScenarios
INVARIANT TypeOK LogDecodes ReplayOnce
PROPERTY LogKept TelemetryDrains LossReopensBle
CHECK_DEADLOCK FALSE
