SPECIFICATION FairSpec
CONSTANTS
  p1 = p1
  p2 = p2
  p3 = p3
  Petents = {p1}
  NoPid = NoPid
  Machines = {0}
  Workers = {"KM"}
  WorkerType <- TypeOfClerk
  Desks = {2}
  Sprawy = {2}
  VipValues = {0}
  PeopleCounts = {1}
  TicketMachineCount = 1
  BuildingMax = 2
  LimitInit <- OneEach
  SaLimitInit <- SaOne
  PidsLimit = 1
  MsgCap = 20
  Closing = TRUE
  Events = TRUE
INVARIANTS
  TypeOK
PROPERTIES
  DayEnds
  SignalledTakesNoMore
  ServiceImplemented
