\* Updates, roll-backs, restarts of every kind and crashes at every step.
SPECIFICATION FairSpec
CONSTANTS
  MaxVersion = 3
  Size = 2
  Grace = 1
  CrashLimit = 3
  MaxResets = 3
  MaxSlips = 1
INVARIANT BootsWholeImage DownloadHoldsItsHandles CountsUnmarkedBoots
PROPERTY OnlyRollbackDowngrades DownloadEnds
CHECK_DEADLOCK FALSE
