SPECIFICATION OpenSpec
CONSTANTS
  p1 = p1
  p2 = p2
  p3 = p3
  Petents = {p1, p2, p3}
  NoPid = NoPid
  Machines = {0}
  Workers = {}
  WorkerType <- TypeOfClerk
  Desks = {2}
  Sprawy = {2}
  VipValues = {0}
  PeopleCounts = {1}
  TicketMachineCount = 1
  BuildingMax = 2
  LimitInit <- NoneEach
  SaLimitInit <- SaOne
  PidsLimit = 3
  MsgCap = 20
  Closing = TRUE
  Events = TRUE
SYMMETRY PetentSymmetry
PROPERTIES
  NobodyEntersClosed
