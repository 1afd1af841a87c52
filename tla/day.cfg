SPECIFICATION Spec
CONSTANTS
  p1 = p1
  p2 = p2
  p3 = p3
  Petents = {p1, p2}
  NoPid = NoPid
  Machines = {0}
  Workers = {}
  WorkerType <- TypeOfClerk
  Desks = {2}
  Sprawy = {2}
  VipValues = {0, 1, 7}
  PeopleCounts = {1}
  TicketMachineCount = 1
  BuildingMax = 2
  LimitInit <- OneEach
  SaLimitInit <- SaNone
  PidsLimit = 1
  MsgCap = 20
  Closing = TRUE
  Events = TRUE
SYMMETRY PetentSymmetry
INVARIANTS
  QueuesConserved
  ListedUntilTold
PROPERTIES
  EntersOnlyWhileOpen
  LobbyImplemented
