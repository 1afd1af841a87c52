SPECIFICATION FairSpec
CONSTANTS
  LogCap = 2
  Machines <- OneMachine
  Workers <- OneClerk
  Failures = TRUE
  Moments <- AroundTheClock
  Minutes <- SomeMinutes
  Offsets <- AroundTheGlobe
  Draws <- SomeDraws
INVARIANTS
  MainTypeOK
  ExitLeavesNothing
  FilesOutliveThread
  HoursAsSet
  ArrivesInHours
PROPERTIES
  RemovedAfterKids
  MainComesToJoin
  StopNoticed
