-------------------------------- MODULE Urzad --------------------------------
(***************************************************************************)
(* The whole office for one day: main.c, which creates the shared objects  *)
(* and the processes and removes the objects when its children are done,   *)
(* composed with the director, the ticket machines, the clerks and the     *)
(* petents. generate_petents.sh starts the petents at any time.            *)
(***************************************************************************)
EXTENDS Rejestracja, Dyrektor

\* alloc_res gives every semaphore its first value.
Init ==
  /\ is_opened = FALSE /\ is_locked = FALSE
  /\ petent_pids = [i \in 1..PidsLimit |-> NoPid]
  /\ semlock = 1 /\ unlocked = {} /\ ignoredEintr = FALSE
  /\ configured = FALSE /\ opened = 0 /\ building = 0
  /\ tickets = TicketMachineCount
  /\ queueSem = [f \in Faculties |-> QueueSlots(f)]
  /\ limit = LimitInit /\ saLimit = SaLimitInit
  /\ msgs = [t \in MsgTypes |-> <<>>]
  /\ pc = [p \in Petents |-> "init"]
  /\ sig2 = [p \in Petents |-> FALSE]
  /\ tck = [p \in Petents |-> NoTicket]
  /\ cust \in [Petents -> Customers]
  /\ mpc = [m \in Machines |-> "opened"]
  /\ mopen = [m \in Machines |-> FALSE]
  /\ mtck = [m \in Machines |-> NoTicket]
  /\ mstatus = [m \in Machines |-> 0]
  /\ wpc = [w \in Workers |-> "opened"]
  /\ sig1 = [w \in Workers |-> FALSE]
  /\ wtck = [w \in Workers |-> NoTicket]
  /\ wout = [w \in Workers |-> NoTicket]
  /\ wvip = [w \in Workers |-> FALSE]
  /\ dpc = "configure" /\ scan = 0 /\ raport = {}
  /\ rpc = "loop" /\ running = TRUE /\ collected = {}
  /\ ipcRemoved = FALSE
  /\ issued = [f \in Faculties |-> {}] /\ queuedAtClose = {}

ChildrenDone ==
  /\ dpc = "exit"
  /\ \A m \in Machines : mpc[m] = "done"
  /\ \A w \in Workers : wpc[w] = "done"

\* The loop over wait() ends when main has no child left; free_res follows.
RemoveIpc ==
  /\ ChildrenDone /\ ~ipcRemoved
  /\ ipcRemoved' = TRUE
  /\ UNCHANGED <<shmVars, semVars, msgs, petentVars, machineVars, workerVars,
                 directorVars, history>>

AllGone == ipcRemoved /\ \A p \in Petents : pc[p] = "gone"

\* A child that was not through the turnstile opened at closing time waits
\* there for ever, and main for it.
Stranded ==
  /\ dpc = "exit" /\ opened = 0
  /\ \/ \E m \in Machines : mpc[m] = "opened"
     \/ \E w \in Workers : wpc[w] = "opened"

\* The office may come to rest in these states and in no other.
Rest == (AllGone \/ Stranded) /\ UNCHANGED vars

Next ==
  \/ \E p \in Petents : PetentStep(p)
  \/ \E m \in Machines : MachineStep(m)
  \/ \E w \in Workers : WorkerStep(w)
  \/ DirectorStep \/ ThreadStep \/ RemoveIpc
  \/ Rest

\* Every process runs: the kernel schedules each of them, no call sleeps
\* without a semaphore or a message to wait for, and the clock reaches the
\* closing time. Nothing is assumed of who gets a contended semaphore.
Fairness ==
  /\ \A p \in Petents : WF_vars(PetentStep(p))
  /\ \A m \in Machines : WF_vars(MachineStep(m))
  /\ \A w \in Workers : WF_vars(WorkerStep(w))
  /\ WF_vars(DirectorStep) /\ WF_vars(ThreadStep) /\ WF_vars(RemoveIpc)

Spec     == Init /\ [][Next]_vars
FairSpec == Spec /\ Fairness

-------------------------------------------------------------------------------
\* Every variable has its type: the type invariant.
TypeOK ==
  /\ is_opened \in BOOLEAN /\ is_locked \in BOOLEAN
  /\ petent_pids \in [1..PidsLimit -> Petents \cup {NoPid}]
  /\ semlock \in Nat /\ unlocked \subseteq Petents \cup Workers
  /\ ignoredEintr \in BOOLEAN /\ configured \in BOOLEAN
  /\ opened \in Int /\ building \in Nat /\ tickets \in Nat
  /\ queueSem \in [Faculties -> Nat]
  /\ limit \in [Desks -> Nat] /\ saLimit \in [1..2 -> Nat]
  /\ msgs \in [MsgTypes -> Seq(Tickets)]
  /\ pc \in [Petents -> PetentLabels]
  /\ sig2 \in [Petents -> BOOLEAN]
  /\ tck \in [Petents -> Tickets]
  /\ cust \in [Petents -> Customers]
  /\ mpc \in [Machines -> MachineLabels]
  /\ mopen \in [Machines -> BOOLEAN]
  /\ mtck \in [Machines -> Tickets]
  /\ mstatus \in [Machines -> {0, -1}]
  /\ wpc \in [Workers -> WorkerLabels]
  /\ sig1 \in [Workers -> BOOLEAN]
  /\ wtck \in [Workers -> Tickets] /\ wout \in [Workers -> Tickets]
  /\ wvip \in [Workers -> BOOLEAN]
  /\ dpc \in DirectorLabels /\ scan \in 0..(PidsLimit + 1)
  /\ raport \subseteq Tickets
  /\ rpc \in {"loop", "done"} /\ running \in BOOLEAN
  /\ collected \subseteq Tickets
  /\ ipcRemoved \in BOOLEAN
  /\ issued \in [Faculties -> SUBSET Petents]
  /\ queuedAtClose \subseteq Petents

-------------------------------------------------------------------------------
(* What the office promises. *)

Inside(p) == pc[p] \in InBuilding

\* One element for every person in the building, child or adult.
Places == {a \in Petents \X {1, 2} :
             Inside(a[1]) /\ a[2] <= cust[a[1]].people_count}

\* At most N people are in the building: the places the semaphore building
\* still offers and the people inside never add up to more than building_max,
\* whatever unlock_sem_building, the director's resets and signal 2 do.
BuildingCapacity == Cardinality(Places) + building <= BuildingMax

\* While the office is open, not locked, and no petent was told to leave, no
\* place is lost: whoever left has given all of its places back.
NoPlaceLost ==
  (dpc = "working" /\ ~is_locked) =>
    Cardinality(Places) + building = BuildingMax

\* Once the director has shut the building, or a ticket machine or a clerk has
\* locked it because all limits are used up, nobody enters any more: no petent
\* that leaves afterwards reopens it (petent.c, unlock_sem_building), unless a
\* signal has let somebody into the section without the lock.
NoPlacesOnceShut ==
  (~ignoredEintr /\ (dpc \in AfterClosing \/ is_locked)) => building = 0

HoldsTickets(p) ==
  pc[p] \in {"sendTicket", "waitTicket", "leaveTickets", "giveTickets",
             "freeTickets"}

HoldsQueue(p, f) ==
  /\ UsesQueue(p) /\ tck[p].facultytype = f
  /\ pc[p] \in {"send", "waitWorker", "leaveQueue", "giveQueue", "freeQueue"}

\* No exit of petent.c leaks a semaphore of a queue or gives it back twice: as
\* long as the IPC objects exist, what is taken is in some petent's hands.
QueuesConserved ==
  ~ipcRemoved =>
    /\ tickets + Cardinality({p \in Petents : HoldsTickets(p)})
         = TicketMachineCount
    /\ \A f \in Faculties :
         queueSem[f] + Cardinality({p \in Petents : HoldsQueue(p, f)})
           = QueueSlots(f)

SaIssued == (SaLimitInit[1] + SaLimitInit[2]) - (saLimit[1] + saLimit[2])

\* Tickets and redirections are taken off the right daily limit, once for each
\* petent and in no other case, though machines and SA clerks race for them.
LimitsHonoured ==
  /\ \A f \in Desks : Cardinality(issued[f]) = LimitInit[f] - limit[f]
  /\ Cardinality(issued[FACULTY_SA]) = SaIssued

\* The copies of the ticket of p on their way: in the kernel queue, other than
\* the director's part of it, or in the hands of who works on them.
InFlight(p) ==
  Cardinality(UNION {{<<t, i>> : i \in {j \in 1..Len(msgs[t]) :
                                          msgs[t][j].requester = p}} :
                     t \in MsgTypes \ {D_MSG_REJECTED}})
  + Cardinality({m \in Machines :
      mpc[m] \in {"serve", "reply"} /\ mtck[m].requester = p})
  + Cardinality({w \in Workers :
      /\ wpc[w] \in {"serve", "number", "reply", "drainReport", "drainReply"}
      /\ wtck[w].requester = p})

Waiting(p) == pc[p] \in {"waitTicket", "waitWorker"}

\* A petent asleep in msgrcv has exactly one ticket on its way, and the others
\* have none, so that nobody waits for an answer that was lost, and no clerk
\* and machine work on the same petent; a clerk that signal 1 interrupts may
\* lose one, and a petent that signal 2 drove away may leave one behind. No
\* petent ever has two.
OneTicketPerPetent ==
  \A p \in Petents :
    /\ ~sig2[p] /\ ~ipcRemoved /\ ~ignoredEintr =>
         InFlight(p) = IF Waiting(p) THEN 1 ELSE 0
    /\ InFlight(p) <= 1

\* The refusal of p is in the director's part of the queue or in his table, or
\* the machine or the clerk that refused is about to send it.
RefusalKnown(p) ==
  \/ \E i \in 1..Len(msgs[D_MSG_REJECTED]) :
       msgs[D_MSG_REJECTED][i].requester = p
  \/ \E t \in collected : t.requester = p
  \/ \E m \in Machines : mpc[m] = "report" /\ mtck[m].requester = p
  \/ \E w \in Workers : wpc[w] = "report" /\ wtck[w].requester = p

\* A petent that was refused a ticket, a redirection or its turn at closing
\* time is made known to the director as well, unless signal 1 has interrupted
\* a clerk in a send (urzednik.c ignores what msgsnd returns). Whether his thread
\* still runs, and reads it, is another matter.
RefusalsReach ==
  ~ignoredEintr => \A p \in Petents : tck[p].ticketid = -1 => RefusalKnown(p)

\* Where the refusal of p is written, each counted.
TimesReported(p) ==
  Cardinality({i \in 1..Len(msgs[D_MSG_REJECTED]) :
                 msgs[D_MSG_REJECTED][i].requester = p})
  + Cardinality({t \in collected : t.requester = p})
  + Cardinality({m \in Machines : mpc[m] = "report" /\ mtck[m].requester = p})
  + Cardinality({w \in Workers : wpc[w] = "report" /\ wtck[w].requester = p})

\* Nobody is reported twice, though a refusal is told by machines, by clerks and
\* by their last loop, and one that has been refused may write to a clerk again.
ReportedOnce == \A p \in Petents : TimesReported(p) <= 1

\* Nobody is reported that is not refused: its ticket says so, the answer that
\* lies in the queue for it, or that of a clerk which reports before it answers;
\* unless signal 1 has taken the answer from a clerk.
ReportTrue ==
  ~ignoredEintr =>
    \A p \in Petents : RefusalKnown(p) =>
      \/ tck[p].ticketid = -1
      \/ \E i \in 1..Len(msgs[p]) : msgs[p][i].ticketid = -1
      \/ \E w \in Workers : wpc[w] = "drainReply" /\ wtck[w].requester = p

\* No matter is settled while a payment the clerk asked for is missing, and a
\* ticket with a payment due is addressed to the cashier only.
PaymentDue(t) == t.payment = PAYMENT_NEEDED
CashierTypes  == {CASHIER_POINT + D_MSG_WORKER_OFFSET,
                  CASHIER_POINT + D_MSG_WORKER_PRIORITY_OFFSET}
PaidBeforeSettled ==
  /\ \A p \in Petents : PaymentDue(tck[p]) =>
       \/ tck[p].facultytype # 0 /\ tck[p].queueid \in CashierTypes
       \/ tck[p].ticketid = -1
  /\ \A t \in MsgTypes \ (CashierTypes \cup Petents \cup {D_MSG_REJECTED}) :
       \A i \in 1..Len(msgs[t]) : ~PaymentDue(msgs[t][i])

\* A petent that has paid is never sent to pay again.
PaidOnce ==
  [][\A p \in Petents : tck[p].payment = PAYMENT_SUCCESS =>
                          tck'[p].payment = PAYMENT_SUCCESS]_vars

\* What the petent still has to do: a ticket, the clerk and perhaps another
\* one, the cashier, the clerk again. No step of anyone sends it back to a
\* clerk it has been sent on from, nor from a desk to SA.
NeverSentBack ==
  [][\A p \in Petents :
       (tck[p].facultytype \in Desks /\ tck'[p].facultytype # 0) =>
         tck'[p].facultytype = tck[p].facultytype]_vars

\* Who has semlock for more than one step.
LockHolders ==
  {m \in Machines : MachineHoldsLock(m)} \cup
  {p \in Petents : pc[p] \in GiveLabels /\ p \notin unlocked}

\* semlock is free, or one ticket machine sleeps in msgsnd with it, or one
\* petent is giving its places back: until a signal interrupts a wait for it
\* (the result of sem_lock is not looked at), nobody is in there with another.
LockHeldByOne ==
  (~ignoredEintr /\ ~ipcRemoved) => semlock + Cardinality(LockHolders) = 1

\* README.md:23, at least one machine works: the one numbered 0 never closes
\* while the office is open, however few wait and however stale the length of
\* the line it reads.
FirstMachineStays ==
  [][(0 \in Machines /\ mopen[0] /\ is_opened') => mopen'[0]]_vars

\* A petent passes the turnstile of the building only on a day that has begun
\* and is not over, and never once the building is locked: the semaphore alone,
\* which four programs write, says so, as petent.c ignores both flags. It holds
\* until a wait for semlock is interrupted.
EntersOnlyWhileOpen ==
  [][\A p \in Petents :
       (~ignoredEintr /\ ~Inside(p) /\ Inside(p)') =>
         ~is_locked /\ dpc \notin BeforeOpening \cup AfterClosing]_vars

\* A petent that is registered, has not left and was never told to leave is in
\* the director's table, though petents take slots while the director walks
\* over it and clears them without the lock.
ListedUntilTold ==
  \A p \in Petents :
    (pc[p] \notin {"init", "gone"} /\ ~sig2[p]) =>
      \E i \in 1..PidsLimit : petent_pids[i] = p

\* The semaphore building, written by four programs, is a lobby in the sense of
\* module Lobby.
LobbyPhase ==
  IF is_locked \/ dpc \in AfterClosing THEN "shut"
  ELSE IF dpc \in BeforeOpening THEN "before"
  ELSE IF dpc = "working" THEN "open" ELSE "ending"

Lobby == INSTANCE Lobby WITH
  People <- Petents, Max <- BuildingMax,
  inside <- {p \in Petents : Inside(p)},
  size   <- [p \in Petents |-> cust[p].people_count],
  free   <- building, phase <- LobbyPhase, loose <- ignoredEintr

LobbyImplemented == Lobby!LobbySpec

\* Where a ticket, or the answer to it, can be under way: in the kernel queue,
\* with a machine that has not answered, with a clerk; and what a machine and a
\* clerk have in hand, with all they have written on it.
Underway == MsgTypes \ {D_MSG_REJECTED}
Asked    == {"serve", "reply"}
Working  == {"serve", "number", "reply", "drainReport", "drainReply"}

MachinePaper(m) ==
  IF mpc[m] = "reply" THEN MachineAnswer(mtck[m], mstatus[m]) ELSE mtck[m]
Paper(w) == IF wpc[w] \in {"number", "reply"} THEN wout[w] ELSE wtck[w]

OnTheWay ==
  (UNION {{msgs[k][i] : i \in 1..Len(msgs[k])} : k \in Underway})
    \cup {MachinePaper(m) : m \in {n \in Machines : mpc[n] \in Asked}}
    \cup {Paper(w) : w \in {v \in Workers : wpc[v] \in Working}}

\* The last that was written about p: what is under way or, without that, the
\* ticket in the hands of p.
Copies(p) == {u \in OnTheWay : u.requester = p}
Papers(p) == LET c == Copies(p) IN IF c = {} THEN {tck[p]} ELSE c

\* How far the matter is that the ticket t is about, and at which desk.
StageOf(t) ==
  CASE t.queueid = D_MSG_TICKET             -> "asked"
    [] t.queueid # D_MSG_TICKET /\ t.payment = PAYMENT_NOT_NEEDED -> "ticket"
    [] t.queueid # D_MSG_TICKET /\ t.payment = PAYMENT_NEEDED     -> "due"
    [] t.queueid # D_MSG_TICKET /\ t.payment = PAYMENT_SUCCESS    -> "paid"
Matter(t) ==
  IF t.requester = NoPid    THEN [stage |-> "none", desk |-> 0]
  ELSE IF t.ticketid = -1   THEN [stage |-> "refused", desk |-> 0]
  ELSE IF t.facultytype = 0 THEN [stage |-> "settled", desk |-> 0]
  ELSE [stage |-> StageOf(t), desk |-> t.facultytype]

\* The line about p in the book; all the papers of p there are say the same.
Line(p) == CHOOSE m \in {Matter(u) : u \in Papers(p)} : TRUE

\* The copies of a ticket that petents, machines and clerks hand on, answer and
\* lose are one matter in the book of the office, in the sense of module Service.
Service == INSTANCE Service WITH
  People <- Petents, Desks <- Faculties, Front <- FACULTY_SA,
  Limit  <- [f \in Faculties |->
               IF f = FACULTY_SA THEN SaLimitInit[1] + SaLimitInit[2]
                                 ELSE LimitInit[f]],
  book    <- [p \in Petents |-> Line(p)],
  heard   <- [p \in Petents |-> Matter(tck[p])],
  left    <- [f \in Faculties |->
                IF f = FACULTY_SA THEN saLimit[1] + saLimit[2] ELSE limit[f]],
  closing <- dpc \notin BeforeOpening \cup {"working"},
  loose   <- ignoredEintr

\* Each line of the book is written once and heard before the next one, though
\* four programs write tickets into one queue: nobody is refused while there is
\* a place, before closing, and no fee once charged is waived or asked for again.
\* Only a send of a clerk that signal 1 interrupts makes lines go lost.
ServiceImplemented == Service!ServiceSpec

\* The day ends: every process leaves and main removes the IPC objects, unless
\* a machine or a clerk was too late for the turnstile.
DayEnds == <>(AllGone \/ Stranded)

\* README.md:30: a clerk that got signal 1 serves the petent it has and ends. Once
\* it is back at the head of its loop it serves nobody any more, though the office
\* is still open and petents go on writing to it: whatever it takes then it turns
\* away. The flag alone says so until the director has cleared is_opened.
SignalledTakesNoMore ==
  \A w \in Workers :
    [](sig1[w] /\ wpc[w] = "check" => [](wpc[w] # "serve"))

\* While the office stays open a petent in the building is let out again:
\* refused, settled or signalled, it never hangs on a clerk or on a machine.
PetentsServed == \A p \in Petents : Inside(p) ~> (pc[p] = "gone")

-------------------------------------------------------------------------------
(* What the README and the comments say and the code does not do. *)

\* README.md:19: the office works from Tp to Tk. Once it is over, or locked,
\* nobody passes into the building, whatever signals arrive.
NobodyEntersClosed ==
  [][\A p \in Petents :
       (~Inside(p) /\ Inside(p)') => LobbyPhase # "shut"]_vars

\* README.md:28: who stands in line to a clerk at closing time and is not
\* received is in the daily report. While the report is still to be written and
\* all clerks have gone home, whoever sleeps in line is at least on the way to
\* the director. Who was being served is held to be in line when the clerk has
\* sent it on to another line, in which it still sleeps.
QueuedAtCloseReported ==
  (dpc = "report" /\ \A w \in Workers : wpc[w] = "done") =>
    \A p \in queuedAtClose :
      (pc[p] = "waitWorker" /\ Blocked(p)) => RefusalKnown(p)

\* README.md:32: on signal 2 every petent leaves at once. At the least, none of
\* them is left asleep in msgrcv for a ticket that no machine will issue.
EvacuatedLeave ==
  \A p \in Petents :
    (sig2[p] /\ ~ipcRemoved /\ pc[p] = "waitTicket" /\ ~Pending(p)) =>
      \E m \in Machines : mpc[m] # "done"

\* README.md:15: a petent that has paid goes back to the clerk without queueing,
\* when the petent inside has left. While a payer stands in front of the clerk's
\* semaphore, whoever passes it is a payer.
PayerGoesFirst ==
  [][\A p, q \in Petents :
       /\ pc[p] = "queue" /\ tck[p].payment = PAYMENT_SUCCESS
       /\ pc[q] = "queue" /\ tck[q].facultytype = tck[p].facultytype
       /\ pc'[q] = "send"
       => tck[q].payment = PAYMENT_SUCCESS]_vars
===============================================================================
