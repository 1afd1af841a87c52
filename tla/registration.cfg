SPECIFICATION OpenSpec
CONSTANTS
  p1 = p1
  p2 = p2
  p3 = p3
  Petents = {p1, p2, p3}
  NoPid = NoPid
  Machines = {0, 1}
  Workers = {}
  WorkerType <- TypeOfClerk
  Desks = {2}
  Sprawy = {2, 5}
  VipValues = {0}
  PeopleCounts = {1, 2}
  TicketMachineCount = 2
  BuildingMax = 3
  LimitInit <- OneEach
  SaLimitInit <- SaOne
  PidsLimit = 3
  MsgCap = 20
  Closing = FALSE
  Events = FALSE
SYMMETRY PetentSymmetry
INVARIANTS
  BuildingCapacity
  NoPlaceLost
  LimitsHonoured
  LockHeldByOne
PROPERTIES
  FirstMachineStays
