------------------------------- MODULE MCUrzad -------------------------------
(***************************************************************************)
(* Constants of the runs of Urzad.                                         *)
(***************************************************************************)
EXTENDS Urzad, TLC

CONSTANTS p1, p2, p3

PetentSymmetry == Permutations(Petents)

\* Limits for a desk, and for the two counters of SA.
OneEach  == [f \in Desks |-> 1]
TwoEach  == [f \in Desks |-> 2]
NoneEach == [f \in Desks |-> 0]
SaOne    == [s \in 1..2 |-> IF s = 1 THEN 1 ELSE 0]
SaNone   == [s \in 1..2 |-> 0]
SaOneEach == [s \in 1..2 |-> 1]

\* The clerks are named after what they do.
TypeOfClerk ==
  [w \in Workers |-> CASE w = "SA" -> 5 [] w = "SA2" -> 5
                       [] w = "KM" -> 2 [] w = "CASHIER" -> 6]

-------------------------------------------------------------------------------
\* A state the day reaches: the office is open, the machines and the clerks are
\* at the head of their loops, and every petent is registered and stands, not
\* signalled, in front of the building.
OfficeOpen ==
  /\ is_opened = TRUE /\ is_locked = FALSE
  /\ petent_pids \in {s \in [1..PidsLimit -> Petents] :
                        \A i, j \in 1..PidsLimit : i # j => s[i] # s[j]}
  /\ semlock = 1 /\ unlocked = {} /\ ignoredEintr = FALSE
  /\ configured = TRUE /\ opened = OpenedTokens
  /\ building = BuildingMax /\ tickets = TicketMachineCount
  /\ queueSem = [f \in Faculties |-> QueueSlots(f)]
  /\ limit = LimitInit /\ saLimit = SaLimitInit
  /\ msgs = [t \in MsgTypes |-> <<>>]
  /\ pc = [p \in Petents |-> "building"]
  /\ sig2 = [p \in Petents |-> FALSE]
  /\ tck = [p \in Petents |-> NoTicket]
  /\ cust \in [Petents -> Customers]
  /\ mpc = [m \in Machines |-> "check"]
  /\ mopen = [m \in Machines |-> FALSE]
  /\ mtck = [m \in Machines |-> NoTicket]
  /\ mstatus = [m \in Machines |-> 0]
  /\ wpc = [w \in Workers |-> "check"]
  /\ sig1 = [w \in Workers |-> FALSE]
  /\ wtck = [w \in Workers |-> NoTicket]
  /\ wout = [w \in Workers |-> NoTicket]
  /\ wvip = [w \in Workers |-> FALSE]
  /\ dpc = "working" /\ scan = 0 /\ raport = {}
  /\ rpc = "loop" /\ running = TRUE /\ collected = {}
  /\ ipcRemoved = FALSE
  /\ issued = [f \in Faculties |-> {}] /\ queuedAtClose = {}

\* One of the petents is a VIP. Nobody is signalled in this run, which is all the
\* table of pids is for: let it be the one in the first slot.
OneVip == OfficeOpen /\ \A i \in 1..PidsLimit :
                          cust[petent_pids[i]].vip = 1 <=> i = 1

VipSpec      == OneVip /\ [][Next]_vars
OpenSpec     == OfficeOpen /\ [][Next]_vars
OpenFairSpec == OpenSpec /\ Fairness
===============================================================================
