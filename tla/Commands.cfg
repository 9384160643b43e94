\* Bursts, large answers, losses and resets: four commands, two per poll, a body of four units.
SPECIFICATION FairSpec
CONSTANTS
  N = 4
  Refused <- OneRefused
  MaxPerPoll = 2
  Size <- OneLarge
  BodyCap = 4
  MaxFaults = 2
INVARIANT AtMostOnce ResultIsTrue
PROPERTY OldCommandsStayOld SmallBatchesConclude ImplementsService
