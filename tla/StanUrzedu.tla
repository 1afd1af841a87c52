------------------------------ MODULE StanUrzedu ------------------------------
(***************************************************************************)
(* The state shared by the processes of the office: the shared memory      *)
(* segment stan_urzedu_t, the System V semaphores its sems field names,    *)
(* the single global message queue, and the local state of every process.  *)
(* The modules Petent, Rejestracja, Urzednik and Dyrektor add the steps of *)
(* one program each; Urzad composes them.                                  *)
(***************************************************************************)
EXTENDS Integers, Sequences, FiniteSets, Functions

CONSTANTS
  Petents,             \* the petent processes, identified by their pid
  NoPid,               \* the 0 of an empty slot of petent_pids
  Machines,            \* machine_id of the running ticket machines
  Workers,             \* the urzednik processes
  WorkerType,          \* the FACULTY argument of each of them
  Desks,               \* faculties other than SA that a matter can be for
  Sprawy,              \* faculties a petent may come for (petent.sprawa)
  VipValues,           \* values petent.vip can hold, see Petent!Customers
  PeopleCounts,        \* values of petent.people_count
  TicketMachineCount,  \* TICKET_MACHINE_COUNT
  BuildingMax,         \* DYREKTOR_MAX_LOBBY, kept in building_max
  LimitInit,           \* daily limit of each desk in Desks
  SaLimitInit,         \* daily limits sa1_limit and sa2_limit
  PidsLimit,           \* petent_pids_limit
  MsgCap,              \* messages the kernel queue holds (msg_qbytes / 24)
  Closing,             \* bound of a run: FALSE, the closing time never comes
  Events               \* bound of a run: FALSE, the director sends no signal

\* consts.h
FACULTY_SA    == 5
CASHIER_POINT == 6
Faculties     == Desks \cup {FACULTY_SA}

PAYMENT_NOT_NEEDED == 0
PAYMENT_NEEDED     == 1
PAYMENT_SUCCESS    == 2
Payments == {PAYMENT_NOT_NEEDED, PAYMENT_NEEDED, PAYMENT_SUCCESS}

D_MSG_TICKET                 == 1   \* requests to the ticket machines
D_MSG_REJECTED               == 2   \* refusals, read by the director
D_MSG_WORKER_OFFSET          == 10
D_MSG_WORKER_PRIORITY_OFFSET == 20

WorkerMsgTypes ==
  {f + D_MSG_WORKER_OFFSET : f \in Faculties \cup {CASHIER_POINT}} \cup
  {f + D_MSG_WORKER_PRIORITY_OFFSET : f \in Faculties \cup {CASHIER_POINT}}

\* Every mtype in use; the reply to a petent has its pid as the type.
MsgTypes == {D_MSG_TICKET, D_MSG_REJECTED} \cup WorkerMsgTypes \cup Petents

QueueSlots(f) == IF f = FACULTY_SA THEN 2 ELSE 1
OpenedTokens  == 100

ASSUME SetsAssumption ==
  /\ IsFiniteSet(Petents) /\ Petents # {} /\ Petents \cap Int = {}
  /\ NoPid \notin Petents
  /\ Machines \subseteq Nat
  /\ IsFiniteSet(Machines) /\ IsFiniteSet(Workers)
  /\ Desks \subseteq 1..4
  /\ Sprawy \subseteq Faculties /\ Sprawy # {}
  /\ WorkerType \in [Workers -> Faculties \cup {CASHIER_POINT}]
  /\ VipValues \subseteq Int
  /\ PeopleCounts \subseteq {1, 2}

ASSUME NumbersAssumption ==
  /\ TicketMachineCount \in Nat \ {0}
  /\ BuildingMax \in Nat
  /\ LimitInit \in [Desks -> Nat]
  /\ SaLimitInit \in [1..2 -> Nat]
  /\ PidsLimit \in Nat
  /\ MsgCap \in Nat
  /\ Closing \in BOOLEAN /\ Events \in BOOLEAN

\* alloc_res derives the limits from PETENT_COUNT; some desk takes someone.
ASSUME LimitsAssumption ==
  \/ \E f \in Desks : LimitInit[f] > 0
  \/ \E s \in 1..2 : SaLimitInit[s] > 0

VARIABLES
  \* shared memory
  is_opened, is_locked, petent_pids,
  \* semaphores; unlocked holds the processes whose wait for semlock was
  \* interrupted and that run the section all the same, ignoredEintr tells
  \* whether any call whose result is not looked at has failed that way
  semlock, unlocked, ignoredEintr,
  configured, opened, building, tickets, queueSem, limit, saLimit,
  \* the global message queue, split by message type
  msgs,
  \* petents: program counter, signal flag, ticket, random attributes
  pc, sig2, tck, cust,
  \* ticket machines: program counter, machine_is_opened, ticket, status
  mpc, mopen, mtck, mstatus,
  \* clerks: program counter, signal flag, ticket taken, ticket answered, vip
  wpc, sig1, wtck, wout, wvip,
  \* director: program counter, index of the loop over petent_pids, raport.txt
  dpc, scan, raport,
  \* rejected_ticket_loop: program counter, running, tickets
  rpc, running, collected,
  \* main: the IPC objects are removed
  ipcRemoved,
  \* history, not in the code: the petents a ticket was taken for, by faculty,
  \* and those asleep in line to a clerk when the director closed
  issued, queuedAtClose

shmVars     == <<is_opened, is_locked, petent_pids>>
lockVars    == <<semlock, unlocked, ignoredEintr>>
doorVars    == <<configured, opened, building>>
lineVars    == <<tickets, queueSem>>
limitVars   == <<limit, saLimit>>
semVars     == <<lockVars, doorVars, lineVars, limitVars>>
petentVars  == <<pc, sig2, tck, cust>>
machineVars == <<mpc, mopen, mtck, mstatus>>
workerVars  == <<wpc, sig1, wtck, wout, wvip>>
directorVars == <<dpc, scan, raport, rpc, running, collected>>

history == <<issued, queuedAtClose>>

\* What the steps of one program find and leave as it is.
notPetents  == <<machineVars, workerVars, directorVars, ipcRemoved, history>>
notMachines == <<petentVars, workerVars, directorVars, ipcRemoved>>
notWorkers  == <<petentVars, machineVars, directorVars, ipcRemoved>>

vars == <<shmVars, semVars, msgs, petentVars, machineVars, workerVars,
          directorVars, ipcRemoved, history>>

-------------------------------------------------------------------------------
\* struct msg_ticket without mtype. Of ticketid only the sign matters: -1 is
\* a refusal, 0 no number yet, 1 stands for every number taken_ticket_count
\* has reached.
Tickets ==
  [requester : Petents \cup {NoPid},
   ticketid : {-1, 0, 1},
   facultytype : Faculties \cup {0},
   queueid : {-1, 0, D_MSG_TICKET} \cup WorkerMsgTypes \cup Faculties
               \cup {CASHIER_POINT},
   payment : Payments,
   redirected_from : Int]

NoTicket ==
  [requester |-> NoPid, ticketid |-> 0, facultytype |-> 0, queueid |-> 0,
   payment |-> PAYMENT_NOT_NEEDED, redirected_from |-> 0]

\* The kernel queue is bounded in bytes over all types together.
MsgCount == SumFunction([t \in DOMAIN msgs |-> Len(msgs[t])])
Full     == MsgCount >= MsgCap

\* msgsnd(..., 0): blocks while the queue is full.
Send(t, m) == ~Full /\ msgs' = [msgs EXCEPT ![t] = Append(@, m)]

\* msgrcv of the oldest message of type t.
Pending(t) == msgs[t] # <<>>
Receive(t) == Pending(t) /\ msgs' = [msgs EXCEPT ![t] = Tail(@)]

\* sem_lock(semlock) and sem_unlock(semlock). Nothing stops a process that did
\* not take it from raising it.
Critical == semlock > 0

\* Slip: semlock is not taken.
TakeNothing == Critical /\ UNCHANGED lockVars

TakeLock ==
  Critical /\ semlock' = semlock - 1 /\ UNCHANGED <<unlocked, ignoredEintr>>

GiveLock == semlock' = semlock + 1 /\ UNCHANGED <<unlocked, ignoredEintr>>

\* The two ends of a section of a process that signals reach, and a section of
\* it that takes one step. Interrupted in its wait it enters all the same.
EnterSection(x) == IF x \in unlocked THEN UNCHANGED lockVars ELSE TakeLock
LeaveSection(x) ==
  semlock' = semlock + 1 /\ unlocked' = unlocked \ {x} /\ UNCHANGED ignoredEintr
Section(x) ==
  IF x \in unlocked THEN LeaveSection(x) ELSE Critical /\ UNCHANGED lockVars

AllLimitsExhausted ==
  /\ \A f \in Desks : limit[f] = 0
  /\ \A s \in 1..2 : saLimit[s] = 0

\* Slip: the building is locked but its places stay on offer.
LockInName ==
  /\ is_locked' = (is_locked \/ AllLimitsExhausted)
  /\ UNCHANGED building

\* The check both programs make under semlock after every ticket. Who enters
\* between the two assignments might as well have entered before them.
LockIfExhausted ==
  IF AllLimitsExhausted /\ ~is_locked
    THEN is_locked' = TRUE /\ building' = 0
    ELSE UNCHANGED <<is_locked, building>>
===============================================================================
