SPECIFICATION FairSpec
CONSTANTS
  LogCap = 2
  Machines <- OneMachine
  Workers <- OneClerk
  Failures = FALSE
  Moments <- AroundTheClock
  Minutes <- SomeMinutes
  Offsets <- AroundTheGlobe
  Draws <- SomeDraws
PROPERTIES
  MainEnds
