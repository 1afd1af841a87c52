----------------------------- MODULE UrzadService -----------------------------
(***************************************************************************)
(* The office implements module Service, for every value of the constants: *)
(* there is one book with one line for each matter, whatever becomes of    *)
(* the papers that petents, machines and clerks hand each other.           *)
(***************************************************************************)
EXTENDS UrzadReport

-------------------------------------------------------------------------------
(* What the service rests on. *)

\* Nobody is through the doors before the director has opened them, and no clerk
\* is told to stop, or stops, before the working hours are over.
Draining == {"drainPrio", "drain", "drainReport", "drainReply"}
DoorsInv ==
  /\ dpc \in {"configure", "open", "setOpened"} =>
       /\ opened = 0
       /\ \A p \in Petents : pc[p] # "inOpened"
       /\ \A m \in Machines : mpc[m] = "opened"
       /\ \A w \in Workers : wpc[w] = "opened"
  /\ dpc \in BeforeOpening \cup {"working"} =>
       \A w \in Workers : ~sig1[w] /\ wpc[w] \notin Draining

LEMMA DoorsPetent ==
  ASSUME NEW p \in Petents, PetentStep(p), CapacityInv, DoorsInv
  PROVE  DoorsInv'
<1>1. UNCHANGED <<dpc, mpc, wpc, sig1>>
  BY PetentFrame DEF machineVars, workerVars, directorVars
<1>2. \A q \in Petents \ {p} : pc'[q] = pc[q]
  BY PetentMoves
<1>3. ASSUME opened = 0, pc[p] # "inOpened"
      PROVE  opened' = 0 /\ pc'[p] # "inOpened"
  <2> USE <1>3 DEF At, Goto, CapacityInv, semVars, doorVars
  <2>1. CASE Register(p) \/ PassConfigured(p) \/ Arrive(p) \/ LockOpened(p)
             \/ UnlockOpened(p) \/ EnterBuilding(p) \/ Entered(p)
    BY <2>1 DEF Register, PassConfigured, Arrive, LockOpened, UnlockOpened,
       EnterBuilding, Entered
  <2>2. CASE LockTickets(p) \/ SendTicketRequest(p) \/ ReceiveTicket(p)
             \/ LockQueue(p) \/ SendToWorker(p) \/ ReceiveFromWorker(p)
             \/ WakeFrustrated(p)
    BY <2>2 DEF LockTickets, SendTicketRequest, ReceiveTicket, LockQueue,
       SendToWorker, ReceiveFromWorker, WakeFrustrated, NextVisit
  <2>3. CASE LeaveBuilding(p) \/ GivePlaces(p) \/ FreeTickets(p) \/ FreeQueue(p)
             \/ ExitOnRemovedIpc(p)
    BY <2>3 DEF LeaveBuilding, GivePlaces, FreeTickets, FreeQueue,
       ExitOnRemovedIpc, AfterLeave, GiveLabel, LeaveLabels
  <2> QED BY <2>1, <2>2, <2>3 DEF PetentStep
<1> QED BY <1>1, <1>2, <1>3 DEF DoorsInv

LEMMA DoorsMachine ==
  ASSUME NEW m \in Machines, MachineStep(m), DoorsInv
  PROVE  DoorsInv'
<1>1. UNCHANGED <<dpc, pc, wpc, sig1>>
  BY MachineFrame DEF petentVars, workerVars, directorVars
<1>2. dpc \notin {"configure", "open", "setOpened"}
  BY DEF DoorsInv, MachineStep, MachineLockOpened, MachineUnlockOpened,
     MachineCheck, MachinePoll, MachineServe, MachineReply, MachineReport,
     MachineLockCheck
<1> QED BY <1>1, <1>2 DEF DoorsInv

LEMMA DoorsWorker ==
  ASSUME NEW w \in Workers, WorkerStep(w), ShutInv, DayInv, DoorsInv
  PROVE  DoorsInv'
<1>1. UNCHANGED <<dpc, pc, mpc, sig1>>
  BY WorkerFrame DEF petentVars, machineVars, directorVars
<1>m. wpc \in [Workers -> WorkerLabels]
  BY DEF ShutInv
<1>a. wpc[w] # "opened" \/ opened > 0
  BY DEF WorkerStep, WorkerLockOpened, WorkerUnlockOpened, WorkerCheck, WorkerPoll,
     WorkerServe, WorkerNumber, WorkerReply, WorkerReport, WorkerLockCheck,
     WorkerDrainReport, WorkerDrainReply
<1>2. dpc \notin {"configure", "open", "setOpened"}
  BY <1>a DEF DoorsInv
<1>3. ASSUME dpc \in BeforeOpening \cup {"working"}
      PROVE  \A v \in Workers : wpc'[v] \notin Draining
  <2>1. is_opened /\ \A v \in Workers : ~sig1[v] /\ wpc[v] \notin Draining
    BY <1>2, <1>3 DEF DayInv, DoorsInv, BeforeOpening
  <2> USE <1>m, <2>1 DEF WGoto, Draining
  <2>2. CASE WorkerLockOpened(w) \/ WorkerUnlockOpened(w) \/ WorkerCheck(w)
             \/ WorkerLockCheck(w)
    BY <2>2 DEF WorkerLockOpened, WorkerUnlockOpened, WorkerCheck, WorkerLockCheck
  <2>3. CASE WorkerPoll(w) \/ WorkerServe(w) \/ WorkerNumber(w)
    BY <2>3 DEF WorkerPoll, Take, WorkerServe, WorkerNumber
  <2>4. CASE WorkerReply(w) \/ WorkerReport(w) \/ WorkerDrainReport(w)
             \/ WorkerDrainReply(w)
    BY <2>4 DEF WorkerReply, AfterReply, WorkerReport, WorkerDrainReport,
       WorkerDrainReply
  <2> QED BY <2>2, <2>3, <2>4 DEF WorkerStep
<1> QED BY <1>1, <1>2, <1>3 DEF DoorsInv

LEMMA DoorsDirector ==
  ASSUME DirectorStep, DoorsInv
  PROVE  DoorsInv'
<1>m. UNCHANGED mpc
  BY DirectorFrame DEF machineVars
<1> USE DEF DGoto, BeforeOpening
<1>1. CASE Configure \/ OpenOffice
  BY <1>1, <1>m DEF DoorsInv, Configure, OpenOffice, unsignalled, doorVars, lockVars
<1>2. CASE SetOpened \/ SetBuilding
  BY <1>2 DEF DoorsInv, SetOpened, SetBuilding, unsignalled
<1>3. CASE \/ TimeUp \/ Event1 \/ Event2 \/ SendSignal1 \/ Evacuate
           \/ CloseOpened \/ CloseFlag \/ CloseBuilding \/ WriteReport
           \/ StopThread \/ JoinThread \/ KillRemaining
  <2>1. dpc' \notin BeforeOpening \cup {"working"}
    BY <1>3 DEF TimeUp, Event1, Event2, SendSignal1, Evacuate, ScanPids,
       CloseOpened, CloseFlag, CloseBuilding, WriteReport, StopThread, JoinThread,
       KillRemaining
  <2> QED BY <2>1 DEF DoorsInv
<1> QED BY <1>1, <1>2, <1>3 DEF DirectorStep

LEMMA DoorsStep ==
  LobbyInv /\ DoorsInv /\ [Next]_vars => DoorsInv'
<1> SUFFICES ASSUME LobbyInv, DoorsInv, [Next]_vars PROVE DoorsInv'
  OBVIOUS
<1>1. CASE UNCHANGED <<dpc, opened, pc, mpc, wpc, sig1>>
  BY <1>1 DEF DoorsInv
<1>2. CASE ThreadStep
  BY <1>1, <1>2, ThreadFrame DEF semVars, doorVars, petentVars, machineVars,
     workerVars
<1>3. CASE RemoveIpc \/ UNCHANGED vars
  BY <1>1, <1>3 DEF RemoveIpc, vars, semVars, doorVars, petentVars, machineVars,
     workerVars, directorVars
<1> QED
  BY <1>2, <1>3, DoorsPetent, DoorsMachine, DoorsWorker, DoorsDirector
     DEF LobbyInv, Next, Rest

-------------------------------------------------------------------------------
\* Who has a request in hand, or reads it in the queue, sees the ticket that its
\* petent holds.
Exact ==
  /\ \A k \in RequestTypes : \A u \in Letter(k) : u = tck[u.requester]
  /\ \A m \in Machines : mpc[m] \in Asked => mtck[m] = tck[mtck[m].requester]
  /\ \A w \in Workers : wpc[w] \in Working => wtck[w] = tck[wtck[w].requester]

\* Nothing is asked for at SA and before there is a ticket, and what comes to
\* the cashier is a payment due at a desk.
Regular(t) ==
  t.ticketid # -1 =>
    /\ t.queueid = D_MSG_TICKET \/ t.facultytype = FACULTY_SA =>
         t.payment = PAYMENT_NOT_NEEDED
    /\ t.queueid \in CashierTypes => PaymentDue(t) /\ t.facultytype \in Desks

AllRegular ==
  /\ \A p \in Petents : Regular(tck[p]) /\ \A u \in Letter(p) : Regular(u)
  /\ \A w \in Workers : wpc[w] \in {"number", "reply"} => Regular(wout[w])

MatterInv ==
  PapersInv /\ LobbyInv /\ RefusalInv /\ DoorsInv /\ Exact /\ AllRegular

\* Nobody writes on the ticket of a petent but itself.
LEMMA ExactElsewhere ==
  ASSUME Exact, UNCHANGED tck,
         \A k \in RequestTypes : Letter(k)' \subseteq Letter(k),
         \A m \in Machines : mpc'[m] \in Asked =>
           \/ mpc[m] \in Asked /\ mtck'[m] = mtck[m]
           \/ \E k \in RequestTypes : mtck'[m] \in Letter(k),
         \A w \in Workers : wpc'[w] \in Working =>
           \/ wpc[w] \in Working /\ wtck'[w] = wtck[w]
           \/ \E k \in RequestTypes : wtck'[w] \in Letter(k)
  PROVE  Exact'
<1>1. \A k \in RequestTypes : \A u \in Letter(k)' : u = tck'[u.requester]
  BY DEF Exact
<1>2. \A m \in Machines : mpc'[m] \in Asked => mtck'[m] = tck'[mtck'[m].requester]
  BY DEF Exact
<1>3. \A w \in Workers : wpc'[w] \in Working => wtck'[w] = tck'[wtck'[w].requester]
  BY DEF Exact
<1> QED BY <1>1, <1>2, <1>3 DEF Exact

LEMMA PetentExact ==
  ASSUME NEW p \in Petents, PetentStep(p), FlowInv, Exact
  PROVE  Exact'
<1>t. /\ MsgsOK /\ tck \in [Petents -> Tickets] /\ RouteInv
      /\ p \in MsgTypes /\ p \notin RequestTypes /\ RequestTypes \subseteq MsgTypes
      /\ PetentRouted(pc[p], tck[p], p)
  BY PetentTypesIn, RequestTypesIn
     DEF FlowInv, RouteInv, TypeInv, PetentsOK, PetentsRouted
<1>f. UNCHANGED <<mpc, mtck, wpc, wtck>>
  BY PetentFrame DEF machineVars, workerVars
<1>1. CASE UNCHANGED <<msgs, tck>>
  BY <1>1, <1>f, ExactElsewhere DEF Letter
<1>2. CASE \E k \in RequestTypes : Send(k, tck[p]) /\ UNCHANGED tck
                                   /\ pc[p] \in {"send", "sendTicket"}
  <2>1. PICK k \in RequestTypes : Send(k, tck[p]) /\ UNCHANGED tck
                                  /\ pc[p] \in {"send", "sendTicket"}
    BY <1>2
  <2>2. tck[p].requester = p
    BY <1>t, <2>1 DEF PetentRouted, HasTicket
  <2>3. /\ Letter(k)' = Letter(k) \cup {tck[p]}
        /\ \A j \in RequestTypes \ {k} : Letter(j)' = Letter(j)
    BY <1>t, <2>1, SendLetter
  <2>4. \A j \in RequestTypes : \A u \in Letter(j)' : u = tck'[u.requester]
    BY <2>1, <2>2, <2>3 DEF Exact
  <2> QED BY <1>f, <2>1, <2>4 DEF Exact
\* p has a new ticket, or its answer, and nothing else of it is under way.
<1>3. ASSUME NEW t, tck' = [tck EXCEPT ![p] = t],
             \A k \in RequestTypes : Letter(k)' = Letter(k),
             \A k \in RequestTypes : p \notin Queued(k),
             \A m \in Machines : mpc[m] \in Asked => mtck[m].requester # p,
             \A w \in Workers : wpc[w] \in Working => wtck[w].requester # p
      PROVE  Exact'
  <2>1. \A j \in RequestTypes : \A u \in Letter(j)' : u = tck'[u.requester]
    <3> SUFFICES ASSUME NEW j \in RequestTypes, NEW u \in Letter(j)'
                 PROVE  u = tck'[u.requester]
      OBVIOUS
    <3>1. u \in Letter(j)
      BY <1>3
    <3>2. u.requester \in Queued(j)
      BY <3>1 DEF Letter, Queued
    <3>3. u.requester # p /\ u = tck[u.requester]
      BY <1>3, <3>1, <3>2 DEF Exact
    <3> QED BY <1>3, <1>t, <3>3
  <2>2. \A m \in Machines : mpc'[m] \in Asked => mtck'[m] = tck'[mtck'[m].requester]
    BY <1>3, <1>f, <1>t DEF Exact
  <2>3. \A w \in Workers : wpc'[w] \in Working => wtck'[w] = tck'[wtck'[w].requester]
    BY <1>3, <1>f, <1>t DEF Exact
  <2> QED BY <2>1, <2>2, <2>3 DEF Exact
<1>4. CASE /\ UNCHANGED msgs
           /\ pc[p] = "entered" /\ pc'[p] = "tickets"
           /\ tck' = [tck EXCEPT ![p] = NewTicket(p)]
  <2>1. \A z \in Spots : p \notin Carried(z)
    BY <1>4, Alone DEF Early
  <2>2. \A k \in RequestTypes : p \notin Queued(k)
    BY <2>1, SpotsOf, RequestsUnderway
  <2>3. /\ \A m \in Machines : mpc[m] \in Asked => mtck[m].requester # p
        /\ \A w \in Workers : wpc[w] \in Working => Paper(w).requester # p
    BY <1>t, <2>1, NoCopy
  <2>4. \A w \in Workers : wpc[w] \in Working => wtck[w].requester # p
    BY <1>t, <2>3, Carriers
  <2> QED BY <1>3, <1>4, <2>2, <2>3, <2>4 DEF Letter
<1>5. CASE /\ Receive(p) /\ tck' = [tck EXCEPT ![p] = Head(msgs[p])]
  <2>1. \A j \in RequestTypes : Letter(j)' = Letter(j)
    BY <1>5, <1>t, ReceiveLetter
  <2>2. /\ Head(msgs[p]).requester \in Queued(p)
        /\ Queued(p) \subseteq {p} /\ p \in Underway
    BY <1>5, <1>t, ReceiveQueued, OwnQueue
  <2>3. <<"queue", p>> \in Spots /\ p \in Carried(<<"queue", p>>)
    BY <2>2, SpotsOf
  <2>4. /\ \A k \in RequestTypes : p \notin Queued(k)
        /\ \A m \in Machines : mpc[m] \in Asked => mtck[m].requester # p
        /\ \A w \in Workers : wpc[w] \in Working => wtck[w].requester # p
    BY <1>t, <2>3, Alone, RequestsUnderway
  <2> QED BY <1>3, <1>5, <2>1, <2>4
<1> QED BY <1>t, <1>1, <1>2, <1>4, <1>5, PetentMail DEF RequestTypes

LEMMA MachineExact ==
  ASSUME NEW m \in Machines, MachineStep(m), RouteInv, Exact
  PROVE  Exact'
<1>t. /\ MsgsOK /\ mtck \in [Machines -> Tickets]
      /\ mpc[m] \in {"serve", "reply", "report"} => Sound(mtck[m]) /\ Live(mtck[m])
  BY DEF RouteInv, TypeInv, MachinesOK
<1>k. /\ D_MSG_TICKET \in RequestTypes /\ D_MSG_TICKET \in MsgTypes
      /\ RequestTypes \subseteq MsgTypes
      /\ D_MSG_REJECTED \in MsgTypes /\ D_MSG_REJECTED \notin RequestTypes
      /\ \A q \in Petents : q \in MsgTypes /\ q \notin RequestTypes
  BY RequestTypesIn, PetentTypesIn, RejectedNoRequest DEF RequestTypes, MsgTypes
<1>f. /\ UNCHANGED <<tck, wpc, wtck>>
      /\ \A n \in Machines \ {m} : mpc'[n] = mpc[n] /\ mtck'[n] = mtck[n]
      /\ \/ MachineIdles(m) \/ MachineTakes(m) \/ MachineDecides(m)
         \/ MachineAnswers(m) \/ MachineTells(m)
  BY MachineMail
<1>1. /\ \A k \in RequestTypes : Letter(k)' \subseteq Letter(k)
      /\ mpc'[m] \in Asked =>
           \/ mpc[m] \in Asked /\ mtck'[m] = mtck[m]
           \/ \E k \in RequestTypes : mtck'[m] \in Letter(k)
  <2>1. CASE MachineIdles(m) \/ MachineDecides(m)
    BY <2>1 DEF MachineIdles, MachineDecides, Letter, Asked
  <2>2. CASE MachineTakes(m)
    BY <1>t, <1>k, <2>2, ReceiveLetter DEF MachineTakes
  <2>3. CASE MachineAnswers(m)
    <3>1. /\ mtck[m].requester \in Petents /\ mpc'[m] \notin Asked
          /\ MachineAnswer(mtck[m], mstatus[m]) \in Tickets
      BY <1>t, <2>3, MachineAnswerOK DEF MachineAnswers, Sound, Asked
    <3> QED BY <1>t, <1>k, <2>3, <3>1, SendLetter DEF MachineAnswers
  <2>4. CASE MachineTells(m)
    <3> DEFINE u == [mtck[m] EXCEPT !.queueid = 1]
    <3>1. u \in Tickets /\ Send(D_MSG_REJECTED, u) /\ mpc'[m] \notin Asked
      BY <1>t, <2>4 DEF MachineTells, Tickets, Asked, D_MSG_TICKET
    <3> QED BY <1>t, <1>k, <3>1, SendLetter
  <2> QED BY <1>f, <2>1, <2>2, <2>3, <2>4
<1> QED BY <1>f, <1>1, ExactElsewhere

LEMMA WorkerExact ==
  ASSUME NEW w \in Workers, WorkerStep(w), RouteInv, ReportsOwn, Exact
  PROVE  Exact'
<1>t. /\ MsgsOK /\ wtck \in [Workers -> Tickets]
      /\ wpc[w] \in Holding => Sound(wtck[w])
      /\ wpc[w] = "reply" => Sound(wout[w])
  BY DEF RouteInv, TypeInv, WorkersOK
<1>k. /\ RequestTypes \subseteq MsgTypes
      /\ D_MSG_REJECTED \in MsgTypes /\ D_MSG_REJECTED \notin RequestTypes
      /\ \A q \in Petents : q \in MsgTypes /\ q \notin RequestTypes
  BY RequestTypesIn, PetentTypesIn, RejectedNoRequest DEF MsgTypes
<1>f. /\ UNCHANGED <<tck, mpc, mtck>>
      /\ \A v \in Workers \ {w} : wpc'[v] = wpc[v] /\ wtck'[v] = wtck[v]
      /\ \/ WorkerIdles(w) \/ WorkerTakes(w) \/ WorkerDeals(w)
         \/ WorkerNumbers(w) \/ WorkerAnswers(w) \/ WorkerTells(w)
         \/ WorkerTurnsAway(w)
  BY WorkerMail
<1>1. /\ \A k \in RequestTypes : Letter(k)' \subseteq Letter(k)
      /\ wpc'[w] \in Working =>
           \/ wpc[w] \in Working /\ wtck'[w] = wtck[w]
           \/ \E k \in RequestTypes : wtck'[w] \in Letter(k)
  <2>1. CASE WorkerIdles(w) \/ WorkerDeals(w) \/ WorkerNumbers(w)
    BY <2>1 DEF WorkerIdles, WorkerDeals, WorkerNumbers, Letter, Working, Holding
  <2>2. CASE WorkerTakes(w)
    <3>1. PICK k \in {PriorityType(w), NormalType(w)} :
            Receive(k) /\ wtck'[w] = Head(msgs[k])
      BY <2>2 DEF WorkerTakes
    <3>2. k \in RequestTypes /\ k \in MsgTypes
      BY <1>k, <3>1, WorkerQueue DEF RequestTypes
    <3> QED BY <1>t, <1>k, <3>1, <3>2, ReceiveLetter
  <2>3. CASE WorkerAnswers(w)
    <3>1. /\ wout[w].requester \in Petents /\ wout[w] \in Tickets
          /\ wpc'[w] \notin Working
      BY <1>t, <2>3 DEF WorkerAnswers, AfterReply, Sound, Working
    <3> QED BY <1>t, <1>k, <2>3, <3>1, SendLetter DEF WorkerAnswers
  <2>4. CASE WorkerTells(w)
    <3>1. PICK t \in Tickets : Send(D_MSG_REJECTED, t)
      BY <2>4 DEF WorkerTells
    <3> QED BY <1>t, <1>k, <2>4, <3>1, SendLetter DEF WorkerTells, Working
  <2>5. CASE WorkerTurnsAway(w)
    <3> DEFINE u == [wtck[w] EXCEPT !.ticketid = -1, !.queueid = -1]
    <3>1. /\ wtck[w].requester \in Petents /\ u \in Tickets
          /\ wpc'[w] \notin Working
      BY <1>t, <2>5 DEF WorkerTurnsAway, Sound, Holding, Tickets, Working
    <3> QED BY <1>t, <1>k, <2>5, <3>1, SendLetter DEF WorkerTurnsAway
  <2> QED BY <1>f, <2>1, <2>2, <2>3, <2>4, <2>5
<1> QED BY <1>f, <1>1, ExactElsewhere

LEMMA DirectorExact ==
  ASSUME DirectorStep, RouteInv, Exact
  PROVE  Exact'
<1>1. /\ UNCHANGED <<msgs, tck, mpc, mtck, wtck>>
      /\ \A w \in Workers : \/ wpc'[w] = wpc[w]
                            \/ wpc'[w] = AfterFailure(w) /\ ignoredEintr'
  BY DirectorMail
<1>2. \A w \in Workers : wpc'[w] \in Working => wpc[w] \in Working
  BY <1>1 DEF AfterFailure, AfterReply, DrainLoop, Working
<1> QED BY <1>1, <1>2, ExactElsewhere DEF Letter

LEMMA RegularRange ==
  /\ D_MSG_TICKET \notin CashierTypes /\ FACULTY_SA \notin Desks
  /\ 0 \notin CashierTypes /\ -1 \notin CashierTypes
  /\ \A f \in Faculties : \A k \in TypesTo(f) :
       k \notin CashierTypes /\ k # D_MSG_TICKET
<1>1. /\ D_MSG_TICKET \notin CashierTypes
      /\ 0 \notin CashierTypes /\ -1 \notin CashierTypes
  BY DEF D_MSG_TICKET, CashierTypes, CASHIER_POINT, D_MSG_WORKER_OFFSET,
     D_MSG_WORKER_PRIORITY_OFFSET
<1>2. FACULTY_SA \notin Desks
  BY SetsAssumption DEF FACULTY_SA
<1> QED BY <1>1, <1>2, TypesApart

LEMMA RegularAnswer ==
  ASSUME NEW t \in Tickets, NEW status, Regular(t), Live(t), t.ticketid # -1,
         t.queueid = D_MSG_TICKET
  PROVE  /\ Regular(MachineAnswer(t, status))
         /\ MachineAnswer(t, status).queueid # D_MSG_TICKET
<1> DEFINE u == MachineAnswer(t, status)
<1>1. u.payment = t.payment /\ u.queueid \in TypesTo(t.facultytype)
  BY DEF MachineAnswer, Tickets, TypesTo
<1>2. t.payment = PAYMENT_NOT_NEEDED /\ t.facultytype \in Faculties
  BY DEF Regular, Live
<1>3. u.queueid \notin CashierTypes /\ u.queueid # D_MSG_TICKET
  BY <1>1, <1>2, RegularRange
<1>4. Regular(u)
  <2> HIDE DEF u
  <2> QED BY <1>1, <1>2, <1>3 DEF Regular
<1> QED BY <1>3, <1>4

LEMMA ServeRegular ==
  ASSUME NEW w \in Workers, wtck \in [Workers -> Tickets],
         wout \in [Workers -> Tickets], Live(wtck[w]), Regular(wtck[w]),
         WorkerRouted("serve", wtck[w], NoTicket, w),
         Redirect(w) \/ RequirePayment(w) \/ TakePayment(w) \/ Settle(w)
  PROVE  Regular(wout'[w])
<1>t. /\ wtck[w] \in Tickets /\ Live(wtck[w]) /\ wtck[w].ticketid # -1
      /\ Routed(wtck[w]) /\ wtck[w].queueid \in TypesTo(WorkerType[w])
  BY DEF WorkerRouted, Holding
<1>1. CASE Redirect(w)
  <2>1. wtck[w].facultytype = FACULTY_SA
    BY <1>1, <1>t, NothingDue DEF Redirect, Faculties
  <2>2. wtck[w].payment = PAYMENT_NOT_NEEDED
    BY <1>t, <2>1 DEF Regular
  <2> DEFINE t(f) == [wtck[w] EXCEPT !.facultytype = f,
                                     !.redirected_from = FACULTY_SA]
  <2>a. PICK f \in Desks :
          \/ wout'[w] = [t(f) EXCEPT !.queueid = Forward(w, f)]
          \/ wout'[w] = [t(f) EXCEPT !.ticketid = -1, !.queueid = 0]
    BY <1>1, <1>t DEF Redirect
  <2>b. /\ [t(f) EXCEPT !.queueid = Forward(w, f)].queueid = Forward(w, f)
        /\ [t(f) EXCEPT !.queueid = Forward(w, f)].payment = wtck[w].payment
        /\ [t(f) EXCEPT !.ticketid = -1, !.queueid = 0].ticketid = -1
    BY <1>t DEF Tickets
  <2> HIDE DEF t
  <2>3. \/ wout'[w].ticketid = -1
        \/ /\ wout'[w].queueid = Forward(w, f)
           /\ wout'[w].payment = wtck[w].payment
    BY <2>a, <2>b
  <2>4. Forward(w, f) \notin CashierTypes
    BY ForwardTo, RegularRange DEF Faculties
  <2> QED BY <2>2, <2>3, <2>4 DEF Regular
<1>2. CASE RequirePayment(w)
  <2>1. wtck[w].facultytype = WorkerType[w] /\ WorkerType[w] \in Desks
    BY <1>2, <1>t, NothingDue DEF RequirePayment, Faculties
  <2>2. /\ wout'[w].facultytype = wtck[w].facultytype
        /\ wout'[w].payment = PAYMENT_NEEDED
        /\ wout'[w].queueid = Forward(w, CASHIER_POINT)
    BY <1>2, <1>t DEF RequirePayment, Tickets
  <2>3. wout'[w].queueid # D_MSG_TICKET
    BY <2>2, ForwardTo, TypesApart, RegularRange
  <2> QED BY <2>1, <2>2, <2>3, RegularRange DEF Regular, PaymentDue
<1>3. CASE TakePayment(w)
  <2> DEFINE from == wtck[w].redirected_from
  <2>1. /\ wtck[w].queueid \in CashierTypes /\ from = wtck[w].facultytype
        /\ from \in Desks
    BY <1>3, <1>t, TypesApart DEF TakePayment, Routed, Regular
  <2>2. /\ wout'[w].facultytype = from
        /\ wout'[w].queueid = from + D_MSG_WORKER_PRIORITY_OFFSET
    BY <1>3, <1>t DEF TakePayment, Tickets
  <2>3. wout'[w].queueid \in TypesTo(from) /\ from \in Faculties
    BY <2>1, <2>2 DEF TypesTo, Faculties
  <2> HIDE DEF from
  <2> QED BY <2>1, <2>2, <2>3, RegularRange DEF Regular
<1>4. CASE Settle(w)
  <2>1. wout'[w].facultytype = 0 /\ wout'[w].queueid = 0
    BY <1>4, <1>t DEF Settle, Tickets
  <2>2. 0 # FACULTY_SA /\ 0 # D_MSG_TICKET
    BY DEF FACULTY_SA, D_MSG_TICKET
  <2> QED BY <2>1, <2>2, RegularRange DEF Regular
<1> QED BY <1>1, <1>2, <1>3, <1>4

LEMMA PetentRegular ==
  ASSUME NEW p \in Petents, PetentStep(p), RouteInv, AllRegular
  PROVE  AllRegular'
<1>t. /\ MsgsOK /\ tck \in [Petents -> Tickets]
      /\ RequestTypes \subseteq MsgTypes
      /\ \A q \in Petents : q \in MsgTypes /\ q \notin RequestTypes
  BY PetentTypesIn, RequestTypesIn DEF RouteInv, TypeInv, PetentsOK
<1>f. UNCHANGED <<wpc, wout>>
  BY PetentFrame DEF workerVars
<1>1. CASE UNCHANGED <<msgs, tck>>
  BY <1>1, <1>f DEF AllRegular, Letter
<1>2. CASE /\ UNCHANGED msgs
           /\ tck' = [tck EXCEPT ![p] = NewTicket(p)]
  <2>1. Regular(NewTicket(p))
    BY RegularRange DEF Regular, NewTicket
  <2> QED BY <1>2, <1>f, <1>t, <2>1 DEF AllRegular, Letter
<1>3. CASE \E k \in RequestTypes : Send(k, tck[p]) /\ UNCHANGED tck
  <2>1. \A q \in Petents : Letter(q)' = Letter(q)
    BY <1>3, <1>t, SendLetter
  <2> QED BY <1>3, <1>f, <2>1 DEF AllRegular
<1>4. CASE Receive(p) /\ tck' = [tck EXCEPT ![p] = Head(msgs[p])]
  <2>1. /\ \A q \in Petents : Letter(q)' \subseteq Letter(q)
        /\ Head(msgs[p]) \in Letter(p)
    BY <1>4, <1>t, ReceiveLetter
  <2> QED BY <1>4, <1>f, <1>t, <2>1 DEF AllRegular
<1> QED BY <1>1, <1>2, <1>3, <1>4, PetentMail DEF RequestTypes

LEMMA MachineRegular ==
  ASSUME NEW m \in Machines, MachineStep(m), RouteInv, Exact, AllRegular
  PROVE  AllRegular'
<1>t. /\ MsgsOK /\ mtck \in [Machines -> Tickets]
      /\ mpc[m] \in {"serve", "reply", "report"} =>
           /\ Sound(mtck[m]) /\ Live(mtck[m])
           /\ mtck[m].ticketid # -1 /\ mtck[m].queueid = D_MSG_TICKET
  BY DEF RouteInv, TypeInv, MachinesOK, MachinesRouted, MachineRouted
<1>k. /\ D_MSG_TICKET \in MsgTypes /\ D_MSG_REJECTED \in MsgTypes
      /\ \A q \in Petents : q \in MsgTypes /\ q # D_MSG_TICKET /\ q # D_MSG_REJECTED
  BY PetentTypesIn, SetsAssumption
     DEF RequestTypes, MsgTypes, D_MSG_REJECTED, D_MSG_TICKET
<1>f. /\ UNCHANGED <<tck, wpc, wout>>
      /\ \/ MachineIdles(m) \/ MachineTakes(m) \/ MachineDecides(m)
         \/ MachineAnswers(m) \/ MachineTells(m)
  BY MachineMail
<1>1. ASSUME \A q \in Petents : \A u \in Letter(q)' : u \in Letter(q) \/ Regular(u)
      PROVE  AllRegular'
  BY <1>1, <1>f DEF AllRegular
<1>2. CASE MachineIdles(m) \/ MachineDecides(m)
  BY <1>1, <1>2 DEF MachineIdles, MachineDecides, Letter
<1>3. CASE MachineTakes(m)
  BY <1>1, <1>3, <1>t, <1>k, ReceiveLetter DEF MachineTakes
<1>4. CASE MachineAnswers(m)
  <2>1. PICK p \in Petents, u \in Tickets :
          /\ p = mtck[m].requester /\ u = MachineAnswer(mtck[m], mstatus[m])
          /\ Send(p, u)
    BY <1>4, <1>t, MachineAnswerOK DEF MachineAnswers, Sound
  <2>2. Regular(mtck[m])
    BY <1>4, <2>1 DEF MachineAnswers, Exact, AllRegular, Asked
  <2>3. Regular(u)
    BY <1>4, <1>t, <2>1, <2>2, RegularAnswer DEF MachineAnswers
  <2> QED BY <1>1, <1>t, <1>k, <2>1, <2>3, SendLetter
<1>5. CASE MachineTells(m)
  <2> DEFINE u == [mtck[m] EXCEPT !.queueid = 1]
  <2>1. u \in Tickets /\ Send(D_MSG_REJECTED, u)
    BY <1>t, <1>5 DEF MachineTells, Tickets, D_MSG_TICKET
  <2> QED BY <1>1, <1>t, <1>k, <2>1, SendLetter
<1> QED BY <1>f, <1>2, <1>3, <1>4, <1>5

LEMMA WorkerRegular ==
  ASSUME NEW w \in Workers, WorkerStep(w), RouteInv, ReportsOwn, Exact, AllRegular
  PROVE  AllRegular'
<1>t. /\ MsgsOK /\ wtck \in [Workers -> Tickets] /\ wout \in [Workers -> Tickets]
      /\ wpc[w] \in Holding => Sound(wtck[w]) /\ Live(wtck[w])
      /\ wpc[w] = "reply" => Sound(wout[w])
      /\ WorkerRouted(wpc[w], wtck[w], wout[w], w)
  BY DEF RouteInv, TypeInv, WorkersOK, WorkersRouted
<1>k. /\ D_MSG_REJECTED \in MsgTypes
      /\ \A q \in Petents : q \in MsgTypes /\ q # D_MSG_REJECTED
                            /\ q \notin WorkerMsgTypes
      /\ WorkerMsgTypes \subseteq MsgTypes
  BY PetentTypesIn, SetsAssumption DEF RequestTypes, MsgTypes, D_MSG_REJECTED
<1>f. /\ UNCHANGED tck
      /\ \A v \in Workers \ {w} : wpc'[v] = wpc[v] /\ wout'[v] = wout[v]
      /\ \/ WorkerIdles(w) \/ WorkerTakes(w) \/ WorkerDeals(w)
         \/ WorkerNumbers(w) \/ WorkerAnswers(w) \/ WorkerTells(w)
         \/ WorkerTurnsAway(w)
  BY WorkerMail
<1>1. ASSUME \A q \in Petents : \A u \in Letter(q)' : u \in Letter(q) \/ Regular(u),
             wpc'[w] \in {"number", "reply"} => Regular(wout'[w])
      PROVE  AllRegular'
  BY <1>1, <1>f DEF AllRegular
<1>2. CASE WorkerIdles(w)
  BY <1>1, <1>2 DEF WorkerIdles, Letter, Holding
<1>3. CASE WorkerTakes(w)
  <2>1. PICK k \in {PriorityType(w), NormalType(w)} : Receive(k)
    BY <1>3 DEF WorkerTakes
  <2>2. k \in MsgTypes /\ k \notin Petents
    BY <1>k, <2>1, WorkerQueue
  <2> QED BY <1>1, <1>3, <1>t, <1>k, <2>1, <2>2, ReceiveLetter DEF WorkerTakes
<1>4. CASE WorkerDeals(w)
  <2>1. Regular(wtck[w])
    BY <1>4, <1>t DEF WorkerDeals, Exact, AllRegular, Working, Holding, Sound
  <2>2. WorkerRouted("serve", wtck[w], NoTicket, w)
    BY <1>4, <1>t DEF WorkerDeals, WorkerRouted
  <2>3. Regular(wout'[w])
    BY <1>4, <1>t, <2>1, <2>2, ServeRegular DEF WorkerDeals, Holding
  <2> QED BY <1>1, <1>4, <2>3 DEF WorkerDeals, Letter
<1>5. CASE WorkerNumbers(w)
  <2>1. Regular(wout[w]) /\ wout[w].ticketid # -1
    BY <1>5, <1>t DEF WorkerNumbers, AllRegular, WorkerRouted
  <2>2. Regular(wout'[w])
    BY <1>5, <1>t, <2>1 DEF WorkerNumbers, Regular, PaymentDue, Tickets
  <2> QED BY <1>1, <1>5, <2>2 DEF WorkerNumbers, Letter
<1>6. CASE WorkerAnswers(w)
  <2>1. /\ wout[w].requester \in Petents /\ wout[w] \in Tickets
        /\ Regular(wout[w]) /\ wpc'[w] \notin {"number", "reply"}
    BY <1>6, <1>t DEF WorkerAnswers, AfterReply, Sound, AllRegular
  <2> QED BY <1>1, <1>6, <1>t, <1>k, <2>1, SendLetter DEF WorkerAnswers
<1>7. CASE WorkerTells(w)
  <2>1. PICK t \in Tickets : Send(D_MSG_REJECTED, t)
    BY <1>7 DEF WorkerTells
  <2> QED BY <1>1, <1>7, <1>t, <1>k, <2>1, SendLetter DEF WorkerTells
<1>8. CASE WorkerTurnsAway(w)
  <2>1. PICK p \in Petents, u \in Tickets :
          p = wtck[w].requester /\ u.ticketid = -1 /\ Send(p, u)
    <3> DEFINE u == [wtck[w] EXCEPT !.ticketid = -1, !.queueid = -1]
    <3>1. wtck[w].requester \in Petents /\ u \in Tickets /\ u.ticketid = -1
      BY <1>8, <1>t DEF WorkerTurnsAway, Sound, Holding, Tickets
    <3> QED BY <1>8, <3>1 DEF WorkerTurnsAway
  <2> QED BY <1>1, <1>8, <1>t, <1>k, <2>1, SendLetter DEF WorkerTurnsAway, Regular
<1> QED BY <1>f, <1>2, <1>3, <1>4, <1>5, <1>6, <1>7, <1>8

LEMMA DirectorRegular ==
  ASSUME DirectorStep, RouteInv, AllRegular
  PROVE  AllRegular'
<1>1. /\ UNCHANGED <<msgs, tck, wout>>
      /\ \A w \in Workers : wpc'[w] = wpc[w] \/ wpc'[w] = AfterFailure(w)
  BY DirectorMail
<1>2. \A w \in Workers : wpc'[w] \in {"number", "reply"} => wpc'[w] = wpc[w]
  BY <1>1 DEF AfterFailure, AfterReply, DrainLoop
<1> QED BY <1>1, <1>2 DEF AllRegular, Letter

LEMMA MatterInit == Init => MatterInv
<1> SUFFICES ASSUME Init PROVE MatterInv
  OBVIOUS
<1>1. PapersInv /\ LobbyInv /\ RefusalInv
  BY PapersInit, LobbyInvInit, RefusalInit
<1>2. DoorsInv
  BY DEF Init, DoorsInv, Draining, BeforeOpening
<1>3. \A k \in RequestTypes \cup Petents : Letter(k) = {}
  BY RequestTypesIn, PetentTypesIn DEF Init, Letter
<1>4. Exact
  BY <1>3 DEF Init, Exact, Asked, Working
<1>5. Regular(NoTicket)
  BY RegularRange DEF Regular, NoTicket, D_MSG_TICKET, FACULTY_SA
<1>6. AllRegular
  BY <1>3, <1>5 DEF Init, AllRegular
<1> QED BY <1>1, <1>2, <1>4, <1>6 DEF MatterInv

LEMMA MatterStep == MatterInv /\ [Next]_vars => MatterInv'
<1> SUFFICES ASSUME MatterInv, [Next]_vars PROVE MatterInv'
  OBVIOUS
<1>1. /\ PapersInv /\ LobbyInv /\ RefusalInv /\ Exact /\ AllRegular
      /\ FlowInv /\ RouteInv /\ ReportsOwn /\ MsgsOK
  BY DEF MatterInv, PapersInv, FlowInv, RefusalInv, RouteInv, TypeInv
<1>2. PapersInv' /\ LobbyInv' /\ RefusalInv' /\ DoorsInv'
  BY PapersStep, LobbyInvStep, RefusalStep, DoorsStep DEF MatterInv
<1> SUFFICES Exact' /\ AllRegular'
  BY <1>2 DEF MatterInv
<1>3. CASE \E p \in Petents : PetentStep(p)
  BY <1>1, <1>3, PetentExact, PetentRegular
<1>4. CASE \E m \in Machines : MachineStep(m)
  BY <1>1, <1>4, MachineExact, MachineRegular
<1>5. CASE \E w \in Workers : WorkerStep(w)
  BY <1>1, <1>5, WorkerExact, WorkerRegular
<1>6. CASE DirectorStep
  BY <1>1, <1>6, DirectorExact, DirectorRegular
<1>7. CASE ThreadStep \/ RemoveIpc \/ UNCHANGED vars
  <2>1. UNCHANGED <<petentVars, machineVars, workerVars>>
    BY <1>7, ThreadFrame DEF RemoveIpc, vars
  <2>2. \A k \in Underway : msgs'[k] = msgs[k]
    BY <1>1, <1>7 DEF ThreadStep, ThreadReceive, ThreadStop, Receive, MsgsOK,
       Underway, RemoveIpc, vars
  <2>3. RequestTypes \cup Petents \subseteq Underway
    BY RequestsUnderway, <1>1, OwnQueue
  <2>4. \A k \in RequestTypes \cup Petents : Letter(k)' = Letter(k)
    BY <2>2, <2>3 DEF Letter
  <2>5. Exact'
    BY <1>1, <2>1, <2>4, ExactElsewhere DEF petentVars, machineVars, workerVars
  <2>6. AllRegular'
    BY <1>1, <2>1, <2>4 DEF AllRegular, petentVars, workerVars
  <2> QED BY <2>5, <2>6
<1> QED BY <1>3, <1>4, <1>5, <1>6, <1>7 DEF Next, Rest

-------------------------------------------------------------------------------
(* The book. *)

BookOf  == [p \in Petents |-> Line(p)]
HeardOf == [p \in Petents |-> Matter(tck[p])]
LeftOf  == [f \in Faculties |->
              IF f = FACULTY_SA THEN saLimit[1] + saLimit[2] ELSE limit[f]]
IsClosing == dpc \notin BeforeOpening \cup {"working"}

\* The paper in the hands of a machine, and of a clerk.
MachineHas(m) == IF mpc[m] \in Asked THEN {MachinePaper(m)} ELSE {}
ClerkHas(w)   == IF wpc[w] \in Working THEN {Paper(w)} ELSE {}

LEMMA WayIs ==
  ASSUME NEW u
  PROVE  u \in OnTheWay <=> \/ \E k \in Underway : u \in Letter(k)
                            \/ \E m \in Machines : u \in MachineHas(m)
                            \/ \E w \in Workers : u \in ClerkHas(w)
BY DEF OnTheWay, MachineHas, ClerkHas, Letter

LEMMA WayIsNext ==
  ASSUME NEW u
  PROVE  u \in OnTheWay' <=> \/ \E k \in Underway : u \in Letter(k)'
                             \/ \E m \in Machines : u \in MachineHas(m)'
                             \/ \E w \in Workers : u \in ClerkHas(w)'
BY DEF OnTheWay, MachineHas, ClerkHas, Letter

\* A paper has its petent at the spot where it is.
LEMMA WaySpot ==
  ASSUME RouteInv
  PROVE  /\ \A k \in Underway : \A u \in Letter(k) :
              <<"queue", k>> \in Spots /\ u.requester \in Carried(<<"queue", k>>)
         /\ \A m \in Machines : \A u \in MachineHas(m) :
              /\ mpc[m] \in Asked /\ u.requester = mtck[m].requester
              /\ <<"machine", m>> \in Spots
              /\ u.requester \in Carried(<<"machine", m>>)
         /\ \A w \in Workers : \A u \in ClerkHas(w) :
              /\ wpc[w] \in Working /\ u.requester = wtck[w].requester
              /\ <<"clerk", w>> \in Spots
              /\ u.requester \in Carried(<<"clerk", w>>)
<1>1. ASSUME NEW m \in Machines, NEW u \in MachineHas(m)
      PROVE  mpc[m] \in Asked /\ u.requester = mtck[m].requester
  <2>1. mpc[m] \in Asked /\ u = MachinePaper(m) /\ mtck[m] \in Tickets
    BY <1>1 DEF MachineHas, RouteInv, TypeInv, MachinesOK
  <2> QED BY <2>1 DEF MachinePaper, MachineAnswer, Tickets
<1>2. ASSUME NEW w \in Workers, NEW u \in ClerkHas(w)
      PROVE  wpc[w] \in Working /\ u = Paper(w)
  BY <1>2 DEF ClerkHas
<1> QED BY <1>1, <1>2, Carriers

\* There is one paper for each petent.
LEMMA OneCopy ==
  ASSUME FlowInv, NEW u \in OnTheWay, NEW v \in OnTheWay,
         u.requester = v.requester
  PROVE  u = v
<1> DEFINE Lies(t, x) ==
    \/ \E k \in Underway : x = <<"queue", k>> /\ t \in Letter(k)
    \/ \E m \in Machines : x = <<"machine", m>> /\ t \in MachineHas(m)
    \/ \E w \in Workers : x = <<"clerk", w>> /\ t \in ClerkHas(w)
<1>0. RouteInv /\ AllSingle /\ Apart
  BY DEF FlowInv
<1>1. ASSUME NEW t \in OnTheWay
      PROVE  \E x \in Spots : t.requester \in Carried(x) /\ Lies(t, x)
  <2>1. CASE \E k \in Underway : t \in Letter(k)
    BY <1>0, <2>1, WaySpot
  <2>2. CASE \E m \in Machines : t \in MachineHas(m)
    BY <1>0, <2>2, WaySpot
  <2>3. CASE \E w \in Workers : t \in ClerkHas(w)
    BY <1>0, <2>3, WaySpot
  <2> QED BY <2>1, <2>2, <2>3, WayIs
<1>2. PICK x \in Spots : u.requester \in Carried(x) /\ Lies(u, x)
  BY <1>1
<1>3. PICK y \in Spots : u.requester \in Carried(y) /\ Lies(v, y)
  BY <1>1
<1>4. x = y
  <2> HIDE DEF Lies
  <2> QED BY <1>0, <1>2, <1>3 DEF Apart
<1>5. CASE \E k \in Underway : x = <<"queue", k>> /\ u \in Letter(k)
  <2>1. PICK k \in Underway : u \in Letter(k) /\ v \in Letter(k)
    BY <1>3, <1>4, <1>5
  <2> QED BY <1>0, <2>1 DEF AllSingle, Single, Letter
<1>6. CASE \E m \in Machines : x = <<"machine", m>> /\ u \in MachineHas(m)
  BY <1>3, <1>4, <1>6 DEF MachineHas
<1>7. CASE \E w \in Workers : x = <<"clerk", w>> /\ u \in ClerkHas(w)
  BY <1>3, <1>4, <1>7 DEF ClerkHas
<1> QED BY <1>2, <1>5, <1>6, <1>7

\* It is the paper that the line about p is on.
Current(p) == IF Copies(p) = {} THEN tck[p] ELSE CHOOSE u \in Copies(p) : TRUE

LEMMA CurrentIs ==
  ASSUME FlowInv
  PROVE  /\ \A u \in OnTheWay : Current(u.requester) = u
         /\ \A p : (\A u \in OnTheWay : u.requester # p) => Current(p) = tck[p]
<1>1. ASSUME NEW u \in OnTheWay
      PROVE  Current(u.requester) = u
  <2>1. Copies(u.requester) = {u}
    BY <1>1, OneCopy DEF Copies
  <2> QED BY <2>1 DEF Current
<1>2. ASSUME NEW p, \A u \in OnTheWay : u.requester # p
      PROVE  Current(p) = tck[p]
  <2>1. Copies(p) = {}
    BY <1>2 DEF Copies
  <2> QED BY <2>1 DEF Current
<1> QED BY <1>1, <1>2

LEMMA CurrentNext ==
  FlowInv' =>
    /\ \A u \in OnTheWay' : Current(u.requester)' = u
    /\ \A p : (\A u \in OnTheWay' : u.requester # p) =>
                Current(p)' = tck'[p]
<1>1. FlowInv =>
        /\ \A u \in OnTheWay : Current(u.requester) = u
        /\ \A p : (\A u \in OnTheWay : u.requester # p) => Current(p) = tck[p]
  BY CurrentIs
<1>2. (FlowInv =>
        /\ \A u \in OnTheWay : Current(u.requester) = u
        /\ \A p : (\A u \in OnTheWay : u.requester # p) => Current(p) = tck[p])'
  BY <1>1, PTL
<1> QED BY <1>2

LEMMA LineIs ==
  FlowInv => \A p \in Petents : Line(p) = Matter(Current(p))
<1> SUFFICES ASSUME FlowInv, NEW p \in Petents
             PROVE  Line(p) = Matter(Current(p))
  OBVIOUS
<1>1. Papers(p) = {Current(p)}
  <2>1. CASE Copies(p) = {}
    BY <2>1 DEF Papers, Current
  <2>2. ASSUME NEW u \in Copies(p) PROVE Papers(p) = {Current(p)}
    <3>1. Current(p) = u
      BY <2>2, CurrentIs DEF Copies
    <3>2. Copies(p) = {u}
      BY <2>2, OneCopy DEF Copies
    <3> QED BY <3>1, <3>2 DEF Papers
  <2> QED BY <2>1, <2>2
<1>2. {Matter(u) : u \in Papers(p)} = {Matter(Current(p))}
  BY <1>1
<1> QED BY <1>2 DEF Line

LEMMA LineNext ==
  FlowInv' => \A p \in Petents : Line(p)' = Matter(Current(p)')
<1>1. (FlowInv => \A p \in Petents : Line(p) = Matter(Current(p)))'
  BY LineIs, PTL
<1> QED BY <1>1

LEMMA SameWay ==
  ASSUME NEW p, tck'[p] = tck[p],
         \A u : u.requester = p => (u \in OnTheWay' <=> u \in OnTheWay)
  PROVE  Current(p)' = Current(p) /\ Line(p)' = Line(p)
<1>1. Copies(p)' = Copies(p)
  BY DEF Copies
<1>2. Papers(p)' = Papers(p)
  BY <1>1 DEF Papers
<1> QED BY <1>1, <1>2 DEF Current, Line

LEMMA SamePlaces ==
  ASSUME NEW u,
         \A k \in Underway : u \in Letter(k)' <=> u \in Letter(k),
         \A m \in Machines : u \in MachineHas(m)' <=> u \in MachineHas(m),
         \A w \in Workers : u \in ClerkHas(w)' <=> u \in ClerkHas(w)
  PROVE  u \in OnTheWay' <=> u \in OnTheWay
BY WayIs, WayIsNext

LEMMA SameHands ==
  /\ \A m \in Machines :
       mpc'[m] = mpc[m] /\ mtck'[m] = mtck[m] /\ mstatus'[m] = mstatus[m] =>
         MachineHas(m)' = MachineHas(m)
  /\ \A w \in Workers :
       wpc'[w] = wpc[w] /\ wtck'[w] = wtck[w] /\ wout'[w] = wout[w] =>
         ClerkHas(w)' = ClerkHas(w)
BY DEF MachineHas, MachinePaper, ClerkHas, Paper

\* The oldest letter goes, and nothing else.
LEMMA ReceiveRest ==
  ASSUME NEW k \in MsgTypes, Receive(k), MsgsOK, NEW t, t # Head(msgs[k])
  PROVE  \A j \in MsgTypes : t \in Letter(j)' <=> t \in Letter(j)
<1>1. \A j \in MsgTypes \ {k} : Letter(j)' = Letter(j)
  BY ReceiveLetter
<1>2. msgs[k] \in Seq(Letters(k)) /\ msgs[k] # <<>> /\ msgs'[k] = Tail(msgs[k])
  BY DEF Receive, Pending, MsgsOK
<1>3. \A i \in 1..Len(msgs[k]) :
        i = 1 \/ (i - 1 \in 1..Len(msgs'[k]) /\ msgs'[k][i - 1] = msgs[k][i])
  BY <1>2
<1>4. \A i \in 1..Len(msgs'[k]) :
        i + 1 \in 1..Len(msgs[k]) /\ msgs[k][i + 1] = msgs'[k][i]
  BY <1>2
<1>5. Head(msgs[k]) = msgs[k][1]
  BY <1>2
<1>6. t \in Letter(k)' => t \in Letter(k)
  BY <1>4 DEF Letter
<1>7. ASSUME t \in Letter(k) PROVE t \in Letter(k)'
  <2>1. PICK i \in 1..Len(msgs[k]) : t = msgs[k][i]
    BY <1>7 DEF Letter
  <2>2. i # 1
    BY <2>1, <1>5
  <2> QED BY <2>1, <2>2, <1>3 DEF Letter
<1> QED BY <1>1, <1>6, <1>7

-------------------------------------------------------------------------------
\* Nothing new is written, or a new line about p.
LEMMA SameBook ==
  ASSUME UNCHANGED tck, \A u : u \in OnTheWay' <=> u \in OnTheWay
  PROVE  UNCHANGED <<BookOf, HeardOf>>
<1>1. \A p : Line(p)' = Line(p)
  BY SameWay
<1> QED BY <1>1 DEF BookOf, HeardOf

LEMMA NewLine ==
  ASSUME FlowInv, FlowInv', UNCHANGED tck, NEW p \in Petents,
         NEW u \in OnTheWay, u.requester = p,
         NEW v \in OnTheWay', v.requester = p,
         \A t : t.requester # p => (t \in OnTheWay' <=> t \in OnTheWay)
  PROVE  /\ HeardOf' = HeardOf /\ BookOf[p] = Matter(u)
         /\ BookOf' = [BookOf EXCEPT ![p] = Matter(v)]
<1>1. Current(p) = u /\ Current(p)' = v
  BY CurrentIs, CurrentNext
<1>2. \A q \in Petents \ {p} : Current(q)' = Current(q)
  BY SameWay
<1>3. HeardOf' = HeardOf
  BY DEF HeardOf
<1> QED BY <1>1, <1>2, <1>3, LineIs, LineNext DEF BookOf

\* What a machine and a clerk do to the way: m and w have now other papers.
LEMMA SameButMachine ==
  ASSUME NEW m \in Machines, MachineStep(m), RouteInv, NEW u,
         \A k \in Underway : u \in Letter(k)' <=> u \in Letter(k),
         u \in MachineHas(m)' <=> u \in MachineHas(m)
  PROVE  u \in OnTheWay' <=> u \in OnTheWay
<1>1. /\ UNCHANGED <<wpc, wtck, wout>>
      /\ \A n \in Machines \ {m} :
           mpc'[n] = mpc[n] /\ mtck'[n] = mtck[n] /\ mstatus'[n] = mstatus[n]
  BY MachineMail
<1> QED BY <1>1, SameHands, SamePlaces

LEMMA SameButClerk ==
  ASSUME NEW w \in Workers, WorkerStep(w), RouteInv, ReportsOwn, NEW u,
         \A k \in Underway : u \in Letter(k)' <=> u \in Letter(k),
         u \in ClerkHas(w)' <=> u \in ClerkHas(w)
  PROVE  u \in OnTheWay' <=> u \in OnTheWay
<1>1. /\ UNCHANGED <<mpc, mtck, mstatus>>
      /\ \A v \in Workers \ {w} :
           wpc'[v] = wpc[v] /\ wtck'[v] = wtck[v] /\ wout'[v] = wout[v]
  BY WorkerMail
<1> QED BY <1>1, SameHands, SamePlaces

LEMMA WayCarried ==
  ASSUME RouteInv, NEW u \in OnTheWay
  PROVE  \E x \in Spots : u.requester \in Carried(x)
<1>1. CASE \E k \in Underway : u \in Letter(k)
  BY <1>1, WaySpot
<1>2. CASE \E m \in Machines : u \in MachineHas(m)
  BY <1>2, WaySpot
<1>3. CASE \E w \in Workers : u \in ClerkHas(w)
  BY <1>3, WaySpot
<1> QED BY <1>1, <1>2, <1>3, WayIs

books == <<BookOf, HeardOf, LeftOf, IsClosing, ignoredEintr>>

LEMMA SameBooks ==
  ASSUME UNCHANGED <<limit, saLimit, dpc, ignoredEintr>>
  PROVE  /\ UNCHANGED <<LeftOf, IsClosing, ignoredEintr>>
         /\ UNCHANGED <<BookOf, HeardOf>> => UNCHANGED books
BY DEF books, LeftOf, IsClosing

\* The stages a ticket may be at.
LEMMA MatterIs ==
  ASSUME NEW t, t.requester \in Petents
  PROVE  /\ t.ticketid = -1 => Matter(t) = Service!Idle("refused")
         /\ t.ticketid # -1 /\ t.facultytype = 0 =>
              Matter(t) = Service!Idle("settled")
         /\ t.ticketid # -1 /\ t.facultytype # 0 =>
              /\ t.queueid = D_MSG_TICKET =>
                   Matter(t) = Service!For("asked", t.facultytype)
              /\ t.queueid # D_MSG_TICKET /\ t.payment = PAYMENT_NOT_NEEDED =>
                   Matter(t) = Service!For("ticket", t.facultytype)
              /\ t.queueid # D_MSG_TICKET /\ t.payment = PAYMENT_NEEDED =>
                   Matter(t) = Service!For("due", t.facultytype)
              /\ t.queueid # D_MSG_TICKET /\ t.payment = PAYMENT_SUCCESS =>
                   Matter(t) = Service!For("paid", t.facultytype)
<1>1. t.requester # NoPid
  BY SetsAssumption
<1>2. t.queueid # D_MSG_TICKET /\ t.payment = PAYMENT_NOT_NEEDED =>
        StageOf(t) = "ticket"
  BY DEF StageOf, PAYMENT_NOT_NEEDED, PAYMENT_NEEDED, PAYMENT_SUCCESS
<1>3. t.queueid # D_MSG_TICKET /\ t.payment = PAYMENT_NEEDED => StageOf(t) = "due"
  BY DEF StageOf, PAYMENT_NOT_NEEDED, PAYMENT_NEEDED, PAYMENT_SUCCESS
<1>4. t.queueid # D_MSG_TICKET /\ t.payment = PAYMENT_SUCCESS => StageOf(t) = "paid"
  BY DEF StageOf, PAYMENT_NOT_NEEDED, PAYMENT_NEEDED, PAYMENT_SUCCESS
<1>5. t.queueid = D_MSG_TICKET => StageOf(t) = "asked"
  BY DEF StageOf
<1> QED BY <1>1, <1>2, <1>3, <1>4, <1>5 DEF Matter, Service!Idle, Service!For

LEMMA MatterNone == Matter(NoTicket) = Service!Idle("none")
BY DEF Matter, NoTicket, Service!Idle, Service!For

\* A petent applies, hears from the office, or changes nothing in the book.
LEMMA PetentService ==
  ASSUME NEW p \in Petents, PetentStep(p), MatterInv, MatterInv'
  PROVE  Service!Apply(p) \/ Service!Hear(p) \/ UNCHANGED books
<1>t. /\ FlowInv /\ FlowInv' /\ RouteInv /\ MsgsOK /\ AllSingle
      /\ tck \in [Petents -> Tickets] /\ PetentRouted(pc[p], tck[p], p)
      /\ p \in MsgTypes /\ p \in Underway
      /\ RequestTypes \subseteq Underway /\ Underway \subseteq MsgTypes
  BY PetentTypesIn, RequestsUnderway, OwnQueue
     DEF MatterInv, PapersInv, FlowInv, RouteInv, TypeInv, PetentsOK,
         PetentsRouted, Underway
<1>f. /\ UNCHANGED <<mpc, mtck, mstatus, wpc, wtck, wout>>
      /\ UNCHANGED <<limit, saLimit, dpc, ignoredEintr>>
  BY PetentFrame DEF machineVars, workerVars, directorVars
<1>h. /\ \A m \in Machines : MachineHas(m)' = MachineHas(m)
      /\ \A w \in Workers : ClerkHas(w)' = ClerkHas(w)
  BY <1>f, SameHands
<1>n. pc[p] \in Early \cup AskForOne \cup {"queue", "send"} =>
        \A u \in OnTheWay : u.requester # p
  BY <1>t, WayCarried, Alone
<1>1. CASE UNCHANGED <<msgs, tck>>
  <2>1. \A u : u \in OnTheWay' <=> u \in OnTheWay
    BY <1>1, <1>h, SamePlaces DEF Letter
  <2> QED BY <1>1, <1>f, <2>1, SameBook, SameBooks
<1>2. CASE /\ UNCHANGED msgs
           /\ pc[p] = "entered" /\ pc'[p] = "tickets"
           /\ tck' = [tck EXCEPT ![p] = NewTicket(p)]
  <2>1. \A u : u \in OnTheWay' <=> u \in OnTheWay
    BY <1>2, <1>h, SamePlaces DEF Letter
  <2>2. \A u \in OnTheWay : u.requester # p
    BY <1>2, <1>n DEF Early
  <2>3. Current(p) = tck[p] /\ Current(p)' = NewTicket(p)
    BY <1>t, <1>2, <2>1, <2>2, CurrentIs, CurrentNext
  <2>4. \A q \in Petents \ {p} : Current(q)' = Current(q)
    BY <1>t, <1>2, <2>1, SameWay
  <2>5. tck[p] = NoTicket
    BY <1>2 DEF MatterInv, PapersInv, PapersOK, FitPetents, Early
  <2>6. PICK f \in Faculties : Matter(NewTicket(p)) = Service!For("asked", f)
    <3> DEFINE t == NewTicket(p)
    <3>1. /\ t.requester = p /\ t.ticketid = 0 /\ t.queueid = D_MSG_TICKET
          /\ t.facultytype = cust[p].sprawa
      BY DEF NewTicket
    <3>2. cust[p].sprawa \in Faculties
      BY SetsAssumption
         DEF MatterInv, LobbyInv, CapacityInv, Customers
    <3>3. cust[p].sprawa # 0
      BY <3>2, FacultyRange
    <3>4. Matter(t) = Service!For("asked", cust[p].sprawa)
      <4> HIDE DEF t
      <4> QED BY <3>1, <3>3, MatterIs
    <3> QED BY <3>2, <3>4
  <2>7. /\ BookOf[p] = Service!Idle("none") /\ HeardOf[p] = BookOf[p]
        /\ BookOf' = [BookOf EXCEPT ![p] = Service!For("asked", f)]
        /\ HeardOf' = [HeardOf EXCEPT ![p] = Service!For("asked", f)]
    BY <1>t, <1>2, <2>3, <2>4, <2>5, <2>6, MatterNone, LineIs, LineNext
       DEF BookOf, HeardOf
  <2> QED BY <1>f, <2>7, SameBooks
     DEF Service!Apply, BookOf, HeardOf, LeftOf, IsClosing
<1>3. CASE \E k \in RequestTypes : Send(k, tck[p]) /\ UNCHANGED tck
                                   /\ pc[p] \in {"send", "sendTicket"}
  <2>1. PICK k \in RequestTypes : Send(k, tck[p]) /\ UNCHANGED tck
                                  /\ pc[p] \in {"send", "sendTicket"}
    BY <1>3
  <2>2. tck[p].requester = p
    BY <1>t, <2>1 DEF PetentRouted, HasTicket
  <2>3. /\ Letter(k)' = Letter(k) \cup {tck[p]}
        /\ \A j \in Underway \ {k} : Letter(j)' = Letter(j)
    BY <1>t, <2>1, SendLetter
  <2>4. \A u : u.requester # p => (u \in OnTheWay' <=> u \in OnTheWay)
    BY <1>h, <2>2, <2>3, SamePlaces
  <2>5. tck[p] \in OnTheWay'
    BY <1>t, <2>3, WayIsNext
  <2>6. \A u \in OnTheWay : u.requester # p
    BY <2>1, <1>n DEF AskForOne
  <2>7. \A q \in Petents : Current(q)' = Current(q)
    BY <1>t, <2>1, <2>2, <2>4, <2>5, <2>6, SameWay, CurrentIs, CurrentNext
  <2>8. UNCHANGED <<BookOf, HeardOf>>
    BY <1>t, <2>1, <2>7, LineIs, LineNext DEF BookOf, HeardOf
  <2> QED BY <1>f, <2>8, SameBooks
<1>4. CASE Receive(p) /\ tck' = [tck EXCEPT ![p] = Head(msgs[p])]
  <2> DEFINE u == Head(msgs[p])
  <2>a. u \in Letter(p)
    BY <1>t, <1>4, ReceiveLetter
  <2>b. u.requester \in Queued(p)
    BY <2>a DEF Letter, Queued
  <2>1. u \in Letter(p) /\ u.requester = p
    BY <1>t, <2>a, <2>b, OwnQueue
  <2>2. \A t : t.requester # p => (t \in OnTheWay' <=> t \in OnTheWay)
    BY <1>t, <1>4, <1>h, <2>1, ReceiveRest, SamePlaces
  <2>3. u \in OnTheWay
    BY <1>t, <2>1, WayIs
  <2>4. /\ <<"queue", p>> \in Spots /\ p \in Carried(<<"queue", p>>)
        /\ \A k \in Underway \ {p} : p \notin Queued(k)
        /\ \A m \in Machines : mpc[m] \in Asked => mtck[m].requester # p
        /\ \A w \in Workers : wpc[w] \in Working => wtck[w].requester # p
    BY <1>t, <2>1, WaySpot, Alone
  <2>5. \A k \in Underway : p \notin Queued(k)'
    BY <1>t, <1>4, <2>1, <2>4, ReceiveQueued DEF AllSingle
  <2>6. \A t \in OnTheWay' : t.requester # p
    <3> SUFFICES ASSUME NEW t \in OnTheWay', t.requester = p PROVE FALSE
      OBVIOUS
    <3>1. \A k \in Underway : t \notin Letter(k)'
      BY <2>5 DEF Letter, Queued
    <3>2. \A m \in Machines : t \notin MachineHas(m)
      BY <1>t, <2>4, WaySpot
    <3>3. \A w \in Workers : t \notin ClerkHas(w)
      BY <1>t, <2>4, WaySpot
    <3> QED BY <1>h, <3>1, <3>2, <3>3, WayIsNext
  <2>7. Current(p) = u /\ Current(p)' = u
    BY <1>t, <1>4, <2>1, <2>3, <2>6, CurrentIs, CurrentNext
  <2>8. \A q \in Petents \ {p} : Current(q)' = Current(q)
    BY <1>t, <1>4, <2>2, SameWay
  <2>9. /\ BookOf' = BookOf /\ HeardOf' = [HeardOf EXCEPT ![p] = BookOf[p]]
    BY <1>t, <1>4, <2>7, <2>8, LineIs, LineNext DEF BookOf, HeardOf
  <2> QED BY <1>f, <2>9, SameBooks
     DEF Service!Hear, BookOf, HeardOf, LeftOf, IsClosing
<1> QED BY <1>t, <1>1, <1>2, <1>3, <1>4, PetentMail DEF RequestTypes

\* What is taken off a limit is a place of its desk.
LEMMA TakeLeft ==
  ASSUME NEW f \in Faculties, NEW status \in {0, -1}, TakeFromLimit(f, status),
         SharedOK
  PROVE  \/ /\ status = 0 /\ LeftOf[f] > 0
            /\ LeftOf' = [LeftOf EXCEPT ![f] = @ - 1]
         \/ status = -1 /\ LeftOf[f] = 0 /\ UNCHANGED LeftOf
<1>t. /\ limit \in [Desks -> Nat] /\ saLimit \in [1..2 -> Nat]
      /\ FACULTY_SA \notin Desks
  BY RegularRange DEF SharedOK
<1>1. CASE f # FACULTY_SA
  <2>1. /\ f \in Desks /\ UNCHANGED saLimit
        /\ status = (IF limit[f] > 0 THEN 0 ELSE -1)
        /\ limit' = [limit EXCEPT ![f] = @ + (IF status = 0 THEN -1 ELSE 0)]
    BY <1>1 DEF TakeFromLimit, Faculties
  <2>2. CASE limit[f] > 0
    <3>1. status = 0 /\ limit' = [limit EXCEPT ![f] = @ - 1]
      BY <1>t, <2>1, <2>2
    <3>2. LeftOf[f] = limit[f]
      BY <1>1 DEF LeftOf
    <3>3. LeftOf' = [LeftOf EXCEPT ![f] = limit[f] - 1]
      BY <1>1, <1>t, <2>1, <3>1 DEF LeftOf, Faculties
    <3> QED BY <2>2, <3>1, <3>2, <3>3
  <2>3. CASE ~(limit[f] > 0)
    <3>1. status = -1 /\ limit' = limit /\ limit[f] = 0
      BY <1>t, <2>1, <2>3
    <3> QED BY <1>1, <2>1, <3>1 DEF LeftOf
  <2> QED BY <2>2, <2>3
<1>2. CASE f = FACULTY_SA
  <2>1. PICK s \in 1..2 :
          LET c == IF saLimit[s] > 0 THEN s ELSE 3 - s IN
          /\ status = (IF saLimit[c] > 0 THEN 0 ELSE -1)
          /\ saLimit' = [saLimit EXCEPT ![c] =
                           @ + (IF status = 0 THEN -1 ELSE 0)]
          /\ UNCHANGED limit
    BY <1>2 DEF TakeFromLimit
  <2> DEFINE c == IF saLimit[s] > 0 THEN s ELSE 3 - s
  <2>2. /\ c \in {1, 2} /\ UNCHANGED limit
        /\ saLimit[c] > 0 \/ (saLimit[1] = 0 /\ saLimit[2] = 0)
    BY <1>t, <2>1
  <2>3. CASE saLimit[c] > 0
    <3>1. status = 0 /\ saLimit' = [saLimit EXCEPT ![c] = @ - 1]
      BY <1>t, <2>1, <2>2, <2>3
    <3>2. /\ saLimit[1] + saLimit[2] > 0
          /\ saLimit'[1] + saLimit'[2] = (saLimit[1] + saLimit[2]) - 1
      <4> HIDE DEF c
      <4> QED BY <1>t, <2>2, <2>3, <3>1
    <3> HIDE DEF c
    <3> QED BY <1>2, <2>2, <3>1, <3>2 DEF LeftOf
  <2>4. CASE ~(saLimit[c] > 0)
    <3>1. status = -1 /\ saLimit' = saLimit /\ saLimit[1] + saLimit[2] = 0
      BY <1>t, <2>1, <2>2, <2>4
    <3> QED BY <1>2, <2>2, <3>1 DEF LeftOf
  <2> QED BY <2>3, <2>4
<1> QED BY <1>1, <1>2

\* A place for p at f, or none, as the actions of Service write it.
LEMMA Placing ==
  ASSUME NEW p \in Petents, NEW stage, NEW f \in Faculties,
         BookOf[p].stage = stage, HeardOf[p] = BookOf[p], HeardOf' = HeardOf,
         UNCHANGED <<dpc, ignoredEintr>>,
         \/ /\ BookOf' = [BookOf EXCEPT ![p] = Service!For("ticket", f)]
            /\ LeftOf[f] > 0 /\ LeftOf' = [LeftOf EXCEPT ![f] = @ - 1]
         \/ /\ BookOf' = [BookOf EXCEPT ![p] = Service!Idle("refused")]
            /\ LeftOf[f] = 0 /\ UNCHANGED LeftOf
  PROVE  Service!Place(p, stage, f)
<1>1. BookOf[p].stage \in {stage}
  OBVIOUS
<1>2. CASE /\ BookOf' = [BookOf EXCEPT ![p] = Service!For("ticket", f)]
           /\ LeftOf[f] > 0 /\ LeftOf' = [LeftOf EXCEPT ![f] = @ - 1]
  <2>1. Service!Enter(p, {stage}, Service!For("ticket", f))
    BY <1>1, <1>2 DEF Service!Enter, BookOf, HeardOf, IsClosing
  <2> QED BY <1>2, <2>1 DEF Service!Place, LeftOf
<1>3. CASE /\ BookOf' = [BookOf EXCEPT ![p] = Service!Idle("refused")]
           /\ LeftOf[f] = 0 /\ UNCHANGED LeftOf
  <2>1. Service!Enter(p, {stage}, Service!Idle("refused"))
    BY <1>1, <1>3 DEF Service!Enter, BookOf, HeardOf, IsClosing
  <2> QED BY <1>3, <2>1 DEF Service!Place, LeftOf
<1> QED BY <1>2, <1>3

\* A machine answers a request that it decides on; the paper it then hands back
\* says what the book says.
LEMMA MachineService ==
  ASSUME NEW m \in Machines, MachineStep(m), MatterInv, MatterInv'
  PROVE  (\E p \in Petents : Service!Write(p)) \/ UNCHANGED books
<1>t. /\ FlowInv /\ FlowInv' /\ RouteInv /\ MsgsOK /\ SharedOK
      /\ mtck \in [Machines -> Tickets]
      /\ mpc[m] \in {"serve", "reply", "report"} =>
           /\ Sound(mtck[m]) /\ Live(mtck[m])
           /\ mtck[m].ticketid # -1 /\ mtck[m].queueid = D_MSG_TICKET
  BY DEF MatterInv, PapersInv, FlowInv, RouteInv, TypeInv, MachinesOK,
     MachinesRouted, MachineRouted
<1>k. /\ D_MSG_TICKET \in Underway /\ D_MSG_TICKET \in MsgTypes
      /\ D_MSG_REJECTED \in MsgTypes /\ D_MSG_REJECTED \notin Underway
      /\ Underway \subseteq MsgTypes
      /\ \A q \in Petents : q \in Underway
  BY <1>t, OwnQueue, TicketTypeIn DEF Underway
<1>f. /\ UNCHANGED <<tck, dpc, ignoredEintr>>
      /\ \/ MachineIdles(m) \/ MachineTakes(m) \/ MachineDecides(m)
         \/ MachineAnswers(m) \/ MachineTells(m)
  BY <1>t, MachineMail
\* Nothing is written, and no limit is touched.
<1>1. ASSUME \A u : u \in OnTheWay' <=> u \in OnTheWay, UNCHANGED <<limit, saLimit>>
      PROVE  UNCHANGED books
  BY <1>1, <1>f, SameBook, SameBooks
\* A paper goes from hand to hand.
<1>2. ASSUME NEW u \in OnTheWay, u \in OnTheWay', UNCHANGED <<limit, saLimit>>,
             \A t : t # u => (t \in OnTheWay' <=> t \in OnTheWay)
      PROVE  UNCHANGED books
  <2>1. \A t : t \in OnTheWay' <=> t \in OnTheWay
    BY <1>2
  <2> QED BY <1>1, <1>2, <2>1
<1>3. CASE MachineIdles(m)
  <2>1. MachineHas(m) = {} /\ MachineHas(m)' = {}
    BY <1>3 DEF MachineIdles, MachineHas, Asked
  <2>2. \A u : u \in OnTheWay' <=> u \in OnTheWay
    BY <1>3, <1>t, <2>1, SameButMachine DEF MachineIdles, Letter
  <2> QED BY <1>1, <1>3, <2>2 DEF MachineIdles
<1>4. CASE MachineTakes(m)
  <2> DEFINE u == Head(msgs[D_MSG_TICKET])
  <2>1. u \in Letter(D_MSG_TICKET)
    BY <1>4, <1>t, <1>k, ReceiveLetter DEF MachineTakes
  <2>2. MachineHas(m) = {} /\ MachineHas(m)' = {u}
    BY <1>4 DEF MachineTakes, MachineHas, MachinePaper, Asked
  <2>3. u \in OnTheWay /\ u \in OnTheWay'
    BY <1>k, <2>1, <2>2, WayIs, WayIsNext
  <2>4. \A t : t # u => (t \in OnTheWay' <=> t \in OnTheWay)
    BY <1>4, <1>t, <1>k, <2>2, ReceiveRest, SameButMachine DEF MachineTakes
  <2> QED BY <1>2, <1>4, <2>3, <2>4 DEF MachineTakes
<1>5. CASE MachineDecides(m)
  <2>1. PICK t \in Tickets, p \in Petents, f \in Faculties, s \in {0, -1} :
          /\ t = mtck[m] /\ p = t.requester /\ f = t.facultytype
          /\ s = mstatus'[m] /\ t = tck[p] /\ Regular(t) /\ Live(t)
          /\ t.ticketid # -1 /\ t.queueid = D_MSG_TICKET
    BY <1>5, <1>t
       DEF MachineDecides, Sound, Live, MatterInv, Exact, AllRegular, Asked
  <2>a. PICK v : v = MachineAnswer(t, s)
    OBVIOUS
  <2>2. MachineHas(m) = {t} /\ MachineHas(m)' = {v}
    BY <1>5, <2>1, <2>a DEF MachineDecides, MachineHas, MachinePaper, Asked
  <2>3. /\ v.requester = p /\ v.facultytype = f /\ v.payment = t.payment
        /\ v.ticketid = (IF s = 0 THEN 1 ELSE -1)
    BY <2>1, <2>a DEF MachineAnswer, Tickets
  <2>4. t \in OnTheWay /\ v \in OnTheWay'
    BY <2>2, WayIs, WayIsNext
  <2>5. \A u : u.requester # p => (u \in OnTheWay' <=> u \in OnTheWay)
    BY <1>5, <1>t, <2>1, <2>2, <2>3, SameButMachine DEF MachineDecides, Letter
  <2>6. /\ HeardOf' = HeardOf /\ BookOf[p] = Matter(t)
        /\ BookOf' = [BookOf EXCEPT ![p] = Matter(v)]
    BY <1>t, <1>f, <2>1, <2>3, <2>4, <2>5, NewLine
  <2>7. f # 0
    BY <2>1, FacultyRange
  <2>8. Matter(t) = Service!For("asked", f)
    BY <2>1, <2>7, MatterIs
  <2>9. v.queueid # D_MSG_TICKET /\ t.payment = PAYMENT_NOT_NEEDED
    BY <2>1, <2>a, RegularAnswer DEF Regular
  <2>10. IF s = 0 THEN Matter(v) = Service!For("ticket", f)
                  ELSE Matter(v) = Service!Idle("refused")
    BY <2>1, <2>3, <2>7, <2>9, MatterIs
  <2>11. \/ /\ s = 0 /\ LeftOf[f] > 0
            /\ LeftOf' = [LeftOf EXCEPT ![f] = @ - 1]
         \/ s = -1 /\ LeftOf[f] = 0 /\ UNCHANGED LeftOf
    BY <1>5, <1>t, <2>1, TakeLeft DEF MachineDecides
  <2>12. HeardOf[p] = BookOf[p]
    BY <2>1, <2>6 DEF HeardOf
  <2>13. BookOf[p].stage = "asked" /\ BookOf[p].desk = f
    BY <2>6, <2>8 DEF Service!For
  <2>14. \/ /\ BookOf' = [BookOf EXCEPT ![p] = Service!For("ticket", f)]
            /\ LeftOf[f] > 0 /\ LeftOf' = [LeftOf EXCEPT ![f] = @ - 1]
         \/ /\ BookOf' = [BookOf EXCEPT ![p] = Service!Idle("refused")]
            /\ LeftOf[f] = 0 /\ UNCHANGED LeftOf
    <3>1. CASE s = 0
      <4>1. Matter(v) = Service!For("ticket", f)
        BY <2>10, <3>1
      <4>2. LeftOf[f] > 0 /\ LeftOf' = [LeftOf EXCEPT ![f] = @ - 1]
        BY <2>11, <3>1
      <4> QED BY <2>6, <4>1, <4>2
    <3>2. CASE s = -1
      <4>1. Matter(v) = Service!Idle("refused")
        BY <2>10, <3>2
      <4>2. LeftOf[f] = 0 /\ UNCHANGED LeftOf
        BY <2>11, <3>2
      <4> QED BY <2>6, <4>1, <4>2
    <3> QED BY <3>1, <3>2
  <2>15. Service!Place(p, "asked", f)
    BY <1>f, <2>6, <2>12, <2>13, <2>14, Placing
  <2>16. Service!Answer(p)
    BY <2>13, <2>15 DEF Service!Answer, Service!Place, Service!Enter, BookOf
  <2> QED BY <2>12, <2>16 DEF Service!Write, BookOf, HeardOf
<1>6. CASE MachineAnswers(m)
  <2>1. PICK p \in Petents, u \in Tickets :
          p = mtck[m].requester /\ u = MachineAnswer(mtck[m], mstatus[m])
    BY <1>6, <1>t, MachineAnswerOK DEF MachineAnswers, Sound
  <2>2. /\ Letter(p)' = Letter(p) \cup {u}
        /\ \A j \in MsgTypes \ {p} : Letter(j)' = Letter(j)
    BY <1>6, <1>t, <1>k, <2>1, SendLetter DEF MachineAnswers
  <2>3. MachineHas(m) = {u} /\ MachineHas(m)' = {}
    BY <1>6, <2>1 DEF MachineAnswers, MachineHas, MachinePaper, Asked
  <2>4. u \in OnTheWay /\ u \in OnTheWay'
    BY <1>k, <2>2, <2>3, WayIs, WayIsNext
  <2>5. \A t : t # u => (t \in OnTheWay' <=> t \in OnTheWay)
    BY <1>t, <1>k, <2>2, <2>3, SameButMachine
  <2> QED BY <1>2, <1>6, <2>4, <2>5 DEF MachineAnswers
<1>7. CASE MachineTells(m)
  <2> DEFINE t == [mtck[m] EXCEPT !.queueid = 1]
  <2>1. t \in Tickets
    BY <1>t DEF Tickets, D_MSG_TICKET
  <2>2. \A k \in Underway : Letter(k)' = Letter(k)
    BY <1>7, <1>t, <1>k, <2>1, SendLetter DEF MachineTells
  <2>3. MachineHas(m) = {} /\ MachineHas(m)' = {}
    BY <1>7 DEF MachineTells, MachineHas, Asked
  <2>4. \A u : u \in OnTheWay' <=> u \in OnTheWay
    BY <1>t, <2>2, <2>3, SameButMachine
  <2> QED BY <1>1, <1>7, <2>4 DEF MachineTells
<1> QED BY <1>f, <1>3, <1>4, <1>5, <1>6, <1>7

\* What a clerk makes of a ticket, and of the matter it is about.
ServedFrom(t, u) ==
  \/ /\ Matter(t) = Service!For("ticket", FACULTY_SA)
     /\ \E f \in Desks :
          \/ /\ Matter(u) = Service!For("ticket", f)
             /\ limit[f] > 0 /\ limit' = [limit EXCEPT ![f] = @ - 1]
          \/ /\ Matter(u) = Service!Idle("refused")
             /\ limit[f] = 0 /\ UNCHANGED limit
  \/ \E f \in Desks : /\ Matter(t) = Service!For("ticket", f)
                      /\ Matter(u) = Service!For("due", f) /\ UNCHANGED limit
  \/ \E f \in Desks : /\ Matter(t) = Service!For("due", f)
                      /\ Matter(u) = Service!For("paid", f) /\ UNCHANGED limit
  \/ /\ Matter(t).stage \in {"ticket", "paid"}
     /\ Matter(u) = Service!Idle("settled") /\ UNCHANGED limit

LEMMA ServeMatters ==
  ASSUME NEW w \in Workers, wtck \in [Workers -> Tickets],
         wout \in [Workers -> Tickets], NEW t \in Tickets, t = wtck[w],
         NEW u, u = wout'[w], NEW p \in Petents, p = t.requester,
         Live(t), Regular(t), WorkerRouted("serve", t, NoTicket, w),
         Redirect(w) \/ RequirePayment(w) \/ TakePayment(w) \/ Settle(w)
  PROVE  u.requester = p /\ ServedFrom(t, u)
<1>t. /\ t.ticketid # -1 /\ Routed(t) /\ t.queueid \in TypesTo(WorkerType[w])
      /\ t.facultytype \in Faculties /\ t.facultytype # 0
      /\ t.payment \in Payments
  BY FacultyRange DEF WorkerRouted, Holding, Live, Tickets
<1>q. t.queueid # D_MSG_TICKET
  BY <1>t, TypesApart, RegularRange, TypeRange
<1>1. CASE Redirect(w)
  <2>1. WorkerType[w] = FACULTY_SA
    BY <1>1 DEF Redirect
  <2>2. t.facultytype = FACULTY_SA
    BY <1>t, <2>1, NothingDue DEF Faculties
  <2>3. t.payment = PAYMENT_NOT_NEEDED
    BY <1>t, <2>2 DEF Regular
  <2>4. Matter(t) = Service!For("ticket", FACULTY_SA)
    BY <1>t, <1>q, <2>2, <2>3, MatterIs
  <2>5. PICK f \in Desks :
          LET r == [t EXCEPT !.facultytype = f, !.redirected_from = FACULTY_SA] IN
          \/ /\ limit[f] > 0 /\ limit' = [limit EXCEPT ![f] = @ - 1]
             /\ u = [r EXCEPT !.queueid = Forward(w, f)]
          \/ /\ limit[f] = 0 /\ UNCHANGED limit
             /\ u = [r EXCEPT !.ticketid = -1, !.queueid = 0]
    BY <1>1 DEF Redirect
  <2>6. \/ /\ limit[f] > 0 /\ limit' = [limit EXCEPT ![f] = @ - 1]
           /\ u.requester = p /\ u.ticketid = t.ticketid /\ u.facultytype = f
           /\ u.queueid = Forward(w, f) /\ u.payment = t.payment
        \/ /\ limit[f] = 0 /\ UNCHANGED limit
           /\ u.requester = p /\ u.ticketid = -1
    BY <2>5 DEF Tickets
  <2>7. Forward(w, f) # D_MSG_TICKET /\ f # 0
    BY ForwardTo, RegularRange, FacultyRange DEF Faculties
  <2>8. CASE /\ limit[f] > 0 /\ limit' = [limit EXCEPT ![f] = @ - 1]
             /\ u.requester = p /\ u.ticketid = t.ticketid /\ u.facultytype = f
             /\ u.queueid = Forward(w, f) /\ u.payment = t.payment
    <3>1. Matter(u) = Service!For("ticket", f)
      BY <1>t, <2>3, <2>7, <2>8, MatterIs
    <3> QED BY <2>4, <2>8, <3>1 DEF ServedFrom
  <2>9. CASE /\ limit[f] = 0 /\ UNCHANGED limit
             /\ u.requester = p /\ u.ticketid = -1
    <3>1. Matter(u) = Service!Idle("refused")
      BY <2>9, MatterIs
    <3> QED BY <2>4, <2>9, <3>1 DEF ServedFrom
  <2> QED BY <2>6, <2>8, <2>9
<1>2. CASE RequirePayment(w)
  <2>1. PICK f \in Desks : f = WorkerType[w]
    BY <1>2 DEF RequirePayment
  <2>2. t.facultytype = f /\ t.payment = PAYMENT_NOT_NEEDED /\ UNCHANGED limit
    BY <1>2, <1>t, <2>1, NothingDue DEF RequirePayment, Faculties
  <2>3. Matter(t) = Service!For("ticket", f)
    BY <1>t, <1>q, <2>2, MatterIs
  <2>4. /\ u.requester = p /\ u.ticketid = t.ticketid /\ u.facultytype = f
        /\ u.queueid = Forward(w, CASHIER_POINT) /\ u.payment = PAYMENT_NEEDED
    BY <1>2, <2>2 DEF RequirePayment, Tickets
  <2>5. u.queueid # D_MSG_TICKET
    BY <2>4, ForwardTo, TypesApart, RegularRange
  <2>6. Matter(u) = Service!For("due", f)
    BY <1>t, <2>2, <2>4, <2>5, MatterIs
  <2> QED BY <2>2, <2>3, <2>4, <2>6 DEF ServedFrom
<1>3. CASE TakePayment(w)
  <2>1. t.queueid \in CashierTypes
    BY <1>3, <1>t, TypesApart DEF TakePayment
  <2>2. PICK f \in Desks : f = t.facultytype /\ f = t.redirected_from
    BY <1>t, <2>1 DEF Routed, Regular
  <2>3. Matter(t) = Service!For("due", f)
    BY <1>t, <1>q, <2>1, <2>2, MatterIs DEF Regular, PaymentDue
  <2>4. /\ u.requester = p /\ u.ticketid = t.ticketid /\ u.facultytype = f
        /\ u.queueid = f + D_MSG_WORKER_PRIORITY_OFFSET
        /\ u.payment = PAYMENT_SUCCESS /\ UNCHANGED limit
    BY <1>3, <2>2 DEF TakePayment, Tickets
  <2>5. u.queueid \in TypesTo(f) /\ f \in Faculties
    BY <2>4 DEF TypesTo, Faculties
  <2>6. Matter(u) = Service!For("paid", f)
    BY <1>t, <2>2, <2>4, <2>5, RegularRange, MatterIs
  <2> QED BY <2>3, <2>4, <2>6 DEF ServedFrom
<1>4. CASE Settle(w)
  <2>1. WorkerType[w] \in Faculties /\ UNCHANGED limit
    BY <1>4, TypeRange DEF Settle
  <2>2. t.payment \in {PAYMENT_NOT_NEEDED, PAYMENT_SUCCESS}
    BY <1>t, <2>1, NothingDue DEF PaymentDue, Payments
  <2>3. Matter(t).stage \in {"ticket", "paid"}
    BY <1>t, <1>q, <2>2, MatterIs DEF Service!For
  <2>4. u.requester = p /\ u.ticketid = t.ticketid /\ u.facultytype = 0
    BY <1>4 DEF Settle, Tickets
  <2>5. Matter(u) = Service!Idle("settled")
    BY <1>t, <2>4, MatterIs
  <2> QED BY <2>1, <2>3, <2>4, <2>5 DEF ServedFrom
<1> QED BY <1>1, <1>2, <1>3, <1>4

LEMMA RedirectLeft ==
  ASSUME SharedOK, UNCHANGED saLimit
  PROVE  /\ \A f \in Desks : LeftOf[f] = limit[f]
         /\ \A f \in Desks : limit' = [limit EXCEPT ![f] = @ - 1] =>
              LeftOf' = [LeftOf EXCEPT ![f] = @ - 1]
         /\ UNCHANGED limit => UNCHANGED LeftOf
<1>1. limit \in [Desks -> Nat] /\ FACULTY_SA \notin Desks
  BY RegularRange DEF SharedOK
<1>2. \A f \in Desks : LeftOf[f] = limit[f]
  BY <1>1 DEF LeftOf, Faculties
<1>3. ASSUME NEW f \in Desks, limit' = [limit EXCEPT ![f] = @ - 1]
      PROVE  LeftOf' = [LeftOf EXCEPT ![f] = limit[f] - 1]
  BY <1>1, <1>3 DEF LeftOf, Faculties
<1> QED BY <1>2, <1>3 DEF LeftOf

\* A clerk does what its ticket is about, turns away whose it is at the end of
\* the day, or changes nothing in the book.
LEMMA WorkerService ==
  ASSUME NEW w \in Workers, WorkerStep(w), MatterInv, MatterInv'
  PROVE  (\E p \in Petents : Service!Write(p)) \/ UNCHANGED books
<1>t. /\ FlowInv /\ FlowInv' /\ RouteInv /\ ReportsOwn /\ MsgsOK /\ SharedOK
      /\ wtck \in [Workers -> Tickets] /\ wout \in [Workers -> Tickets]
      /\ WorkerRouted(wpc[w], wtck[w], wout[w], w)
      /\ wpc[w] \in Holding => Sound(wtck[w]) /\ Live(wtck[w])
      /\ wpc[w] \in {"number", "reply", "report"} => Sound(wout[w])
  BY DEF MatterInv, PapersInv, FlowInv, RefusalInv, RouteInv, TypeInv, WorkersOK,
     WorkersRouted
<1>k. /\ D_MSG_REJECTED \in MsgTypes /\ D_MSG_REJECTED \notin Underway
      /\ Underway \subseteq MsgTypes /\ WorkerMsgTypes \subseteq Underway
      /\ \A q \in Petents : q \in Underway
  BY <1>t, OwnQueue, TicketTypeIn DEF Underway
<1>f. /\ UNCHANGED <<tck, dpc, ignoredEintr>>
      /\ \/ WorkerIdles(w) \/ WorkerTakes(w) \/ WorkerDeals(w)
         \/ WorkerNumbers(w) \/ WorkerAnswers(w) \/ WorkerTells(w)
         \/ WorkerTurnsAway(w)
  BY <1>t, WorkerMail
<1>1. ASSUME \A u : u \in OnTheWay' <=> u \in OnTheWay, UNCHANGED <<limit, saLimit>>
      PROVE  UNCHANGED books
  BY <1>1, <1>f, SameBook, SameBooks
<1>2. ASSUME NEW u \in OnTheWay, u \in OnTheWay', UNCHANGED <<limit, saLimit>>,
             \A t : t # u => (t \in OnTheWay' <=> t \in OnTheWay)
      PROVE  UNCHANGED books
  <2>1. \A t : t \in OnTheWay' <=> t \in OnTheWay
    BY <1>2
  <2> QED BY <1>1, <1>2, <2>1
<1>3. CASE WorkerIdles(w)
  <2>1. ClerkHas(w) = {} /\ ClerkHas(w)' = {}
    BY <1>3 DEF WorkerIdles, ClerkHas, Working, Holding
  <2>2. \A u : u \in OnTheWay' <=> u \in OnTheWay
    BY <1>3, <1>t, <2>1, SameButClerk DEF WorkerIdles, Letter
  <2> QED BY <1>1, <1>3, <2>2 DEF WorkerIdles
<1>4. CASE WorkerTakes(w)
  <2>1. PICK k \in {PriorityType(w), NormalType(w)} :
          Receive(k) /\ wtck'[w] = Head(msgs[k])
    BY <1>4 DEF WorkerTakes
  <2>2. k \in Underway /\ k \in MsgTypes
    BY <1>k, <2>1, WorkerQueue
  <2>3. PICK u : u = Head(msgs[k])
    OBVIOUS
  <2>4. u \in Letter(k)
    BY <1>t, <2>1, <2>2, <2>3, ReceiveLetter
  <2>5. ClerkHas(w) = {} /\ ClerkHas(w)' = {u}
    BY <1>4, <2>1, <2>3 DEF WorkerTakes, ClerkHas, Paper, Working, Holding
  <2>6. u \in OnTheWay /\ u \in OnTheWay'
    BY <2>2, <2>4, <2>5, WayIs, WayIsNext
  <2>7. \A t : t # u => (t \in OnTheWay' <=> t \in OnTheWay)
    BY <1>t, <1>k, <2>1, <2>2, <2>3, <2>5, ReceiveRest, SameButClerk
  <2> QED BY <1>2, <1>4, <2>6, <2>7 DEF WorkerTakes
\* A new line about p, whose ticket t becomes u.
<1>5. ASSUME NEW p \in Petents, NEW t \in Tickets, t = wtck[w], p = t.requester,
             ClerkHas(w) = {t}, NEW u \in OnTheWay', u.requester = p,
             \A v : v.requester # p => (v \in OnTheWay' <=> v \in OnTheWay)
      PROVE  /\ HeardOf' = HeardOf /\ BookOf[p] = Matter(t)
             /\ HeardOf[p] = BookOf[p]
             /\ BookOf' = [BookOf EXCEPT ![p] = Matter(u)]
  <2>1. t \in OnTheWay /\ wpc[w] \in Working
    BY <1>5, WayIs DEF ClerkHas
  <2>2. t = tck[p]
    BY <1>5, <2>1 DEF MatterInv, Exact
  <2>3. /\ HeardOf' = HeardOf /\ BookOf[p] = Matter(t)
        /\ BookOf' = [BookOf EXCEPT ![p] = Matter(u)]
    BY <1>t, <1>f, <1>5, <2>1, NewLine
  <2> QED BY <2>2, <2>3 DEF HeardOf
<1>6. CASE WorkerDeals(w)
  <2>1. PICK p \in Petents, t \in Tickets, u \in Tickets :
          /\ t = wtck[w] /\ p = t.requester /\ u = wout'[w]
          /\ Live(t) /\ t = tck[p]
    <3>1. wout' \in [Workers -> Tickets]
      BY DEF MatterInv, PapersInv, FlowInv, RouteInv, TypeInv, WorkersOK
    <3> QED BY <1>6, <1>t, <3>1
         DEF WorkerDeals, Sound, MatterInv, Exact, Working, Holding
  <2>2. Regular(t)
    BY <2>1 DEF MatterInv, AllRegular
  <2>3. WorkerRouted("serve", t, NoTicket, w)
    BY <1>6, <1>t, <2>1 DEF WorkerDeals, WorkerRouted
  <2>4. u.requester = p /\ ServedFrom(t, u)
    BY <1>6, <1>t, <2>1, <2>2, <2>3, ServeMatters DEF WorkerDeals
  <2>5. ClerkHas(w) = {t} /\ ClerkHas(w)' = {u} /\ UNCHANGED <<msgs, saLimit>>
    BY <1>6, <2>1 DEF WorkerDeals, ClerkHas, Paper, Working
  <2>6. /\ u \in OnTheWay'
        /\ \A v : v.requester # p => (v \in OnTheWay' <=> v \in OnTheWay)
    BY <1>t, <2>1, <2>4, <2>5, WayIsNext, SameButClerk DEF Letter
  <2>7. /\ HeardOf' = HeardOf /\ BookOf[p] = Matter(t) /\ HeardOf[p] = BookOf[p]
        /\ BookOf' = [BookOf EXCEPT ![p] = Matter(u)]
    BY <1>5, <2>1, <2>4, <2>5, <2>6
  <2>8. CASE /\ Matter(t) = Service!For("ticket", FACULTY_SA)
             /\ \E f \in Desks :
                  \/ /\ Matter(u) = Service!For("ticket", f)
                     /\ limit[f] > 0 /\ limit' = [limit EXCEPT ![f] = @ - 1]
                  \/ /\ Matter(u) = Service!Idle("refused")
                     /\ limit[f] = 0 /\ UNCHANGED limit
    <3>1. PICK f \in Desks :
            \/ /\ Matter(u) = Service!For("ticket", f)
               /\ limit[f] > 0 /\ limit' = [limit EXCEPT ![f] = @ - 1]
            \/ /\ Matter(u) = Service!Idle("refused")
               /\ limit[f] = 0 /\ UNCHANGED limit
      BY <2>8
    <3>2. f \in Faculties \ {FACULTY_SA} /\ FACULTY_SA \in Faculties
      BY RegularRange DEF Faculties
    <3>3. BookOf[p].stage = "ticket" /\ BookOf[p].desk = FACULTY_SA
      BY <2>7, <2>8 DEF Service!For
    <3>4. \/ /\ BookOf' = [BookOf EXCEPT ![p] = Service!For("ticket", f)]
             /\ LeftOf[f] > 0 /\ LeftOf' = [LeftOf EXCEPT ![f] = @ - 1]
          \/ /\ BookOf' = [BookOf EXCEPT ![p] = Service!Idle("refused")]
             /\ LeftOf[f] = 0 /\ UNCHANGED LeftOf
      <4>1. CASE /\ Matter(u) = Service!For("ticket", f)
                 /\ limit[f] > 0 /\ limit' = [limit EXCEPT ![f] = @ - 1]
        <5>1. LeftOf[f] > 0 /\ LeftOf' = [LeftOf EXCEPT ![f] = @ - 1]
          BY <1>t, <2>5, <4>1, RedirectLeft
        <5> QED BY <2>7, <4>1, <5>1
      <4>2. CASE /\ Matter(u) = Service!Idle("refused")
                 /\ limit[f] = 0 /\ UNCHANGED limit
        <5>1. LeftOf[f] = 0 /\ UNCHANGED LeftOf
          BY <1>t, <2>5, <4>2, RedirectLeft
        <5> QED BY <2>7, <4>2, <5>1
      <4> QED BY <3>1, <4>1, <4>2
    <3>5. Service!Place(p, "ticket", f)
      BY <1>f, <2>7, <3>2, <3>3, <3>4, Placing
    <3>6. Service!Redirect(p)
      BY <3>2, <3>3, <3>5 DEF Service!Redirect, BookOf
    <3> QED BY <2>7, <3>6 DEF Service!Write, BookOf, HeardOf
  <2>9. CASE \E f \in Desks : /\ Matter(t) = Service!For("ticket", f)
                              /\ Matter(u) = Service!For("due", f)
                              /\ UNCHANGED limit
    <3>1. PICK f \in Desks : /\ Matter(t) = Service!For("ticket", f)
                             /\ Matter(u) = Service!For("due", f)
                             /\ UNCHANGED limit
      BY <2>9
    <3>2. f # FACULTY_SA /\ UNCHANGED LeftOf
      BY <1>t, <2>5, <3>1, RegularRange, RedirectLeft
    <3>3. BookOf[p].stage = "ticket" /\ BookOf[p].desk = f
      BY <2>7, <3>1 DEF Service!For
    <3>4. Service!Charge(p)
      BY <1>f, <2>7, <3>1, <3>2, <3>3
         DEF Service!Charge, Service!Enter, BookOf, HeardOf, LeftOf, IsClosing
    <3> QED BY <2>7, <3>4 DEF Service!Write, BookOf, HeardOf
  <2>10. CASE \E f \in Desks : /\ Matter(t) = Service!For("due", f)
                               /\ Matter(u) = Service!For("paid", f)
                               /\ UNCHANGED limit
    <3>1. PICK f \in Desks : /\ Matter(t) = Service!For("due", f)
                             /\ Matter(u) = Service!For("paid", f)
                             /\ UNCHANGED limit
      BY <2>10
    <3>2. UNCHANGED LeftOf
      BY <1>t, <2>5, <3>1, RedirectLeft
    <3>3. BookOf[p].stage = "due" /\ BookOf[p].desk = f
      BY <2>7, <3>1 DEF Service!For
    <3>4. Service!Pay(p)
      BY <1>f, <2>7, <3>1, <3>2, <3>3
         DEF Service!Pay, Service!Enter, BookOf, HeardOf, LeftOf, IsClosing
    <3> QED BY <2>7, <3>4 DEF Service!Write, BookOf, HeardOf
  <2>11. CASE /\ Matter(t).stage \in {"ticket", "paid"}
              /\ Matter(u) = Service!Idle("settled") /\ UNCHANGED limit
    <3>1. UNCHANGED LeftOf
      BY <1>t, <2>5, <2>11, RedirectLeft
    <3>2. Service!Settle(p)
      BY <1>f, <2>7, <2>11, <3>1
         DEF Service!Settle, Service!Enter, BookOf, HeardOf, LeftOf, IsClosing
    <3> QED BY <2>7, <3>2 DEF Service!Write, BookOf, HeardOf
  <2> QED BY <2>4, <2>8, <2>9, <2>10, <2>11 DEF ServedFrom
<1>7. CASE WorkerNumbers(w)
  <2>1. PICK p \in Petents, u \in Tickets :
          /\ u = wout[w] /\ p = u.requester /\ u.ticketid # -1
          /\ wout'[w] = [u EXCEPT !.ticketid = 1]
    BY <1>7, <1>t DEF WorkerNumbers, WorkerRouted, Sound
  <2>2. PICK v : v = [u EXCEPT !.ticketid = 1]
    OBVIOUS
  <2>3. /\ v.requester = p /\ v.ticketid # -1 /\ v.facultytype = u.facultytype
        /\ v.queueid = u.queueid /\ v.payment = u.payment
    BY <2>1, <2>2 DEF Tickets
  <2>4. Matter(v) = Matter(u)
    BY <2>1, <2>3 DEF Matter, StageOf
  <2>5. ClerkHas(w) = {u} /\ ClerkHas(w)' = {v} /\ UNCHANGED msgs
    BY <1>7, <2>1, <2>2 DEF WorkerNumbers, ClerkHas, Paper, Working
  <2>6. /\ u \in OnTheWay /\ v \in OnTheWay'
        /\ \A t : t.requester # p => (t \in OnTheWay' <=> t \in OnTheWay)
    BY <1>t, <2>1, <2>3, <2>5, WayIs, WayIsNext, SameButClerk DEF Letter
  <2>7. /\ HeardOf' = HeardOf /\ BookOf[p] = Matter(u)
        /\ BookOf' = [BookOf EXCEPT ![p] = Matter(v)]
    BY <1>t, <1>f, <2>1, <2>3, <2>6, NewLine
  <2>8. BookOf' = BookOf
    BY <2>4, <2>7 DEF BookOf
  <2> QED BY <1>7, <1>f, <2>7, <2>8, SameBooks DEF WorkerNumbers
<1>8. CASE WorkerAnswers(w)
  <2>1. PICK p \in Petents, u \in Tickets : p = wout[w].requester /\ u = wout[w]
    BY <1>8, <1>t DEF WorkerAnswers, Sound
  <2>2. /\ Letter(p)' = Letter(p) \cup {u}
        /\ \A j \in MsgTypes \ {p} : Letter(j)' = Letter(j)
    BY <1>8, <1>t, <1>k, <2>1, SendLetter DEF WorkerAnswers
  <2>3. ClerkHas(w) = {u} /\ ClerkHas(w)' = {}
    BY <1>8, <2>1 DEF WorkerAnswers, ClerkHas, Paper, Working, AfterReply
  <2>4. u \in OnTheWay /\ u \in OnTheWay'
    BY <1>k, <2>2, <2>3, WayIs, WayIsNext
  <2>5. \A t : t # u => (t \in OnTheWay' <=> t \in OnTheWay)
    BY <1>t, <1>k, <2>2, <2>3, SameButClerk
  <2> QED BY <1>2, <1>8, <2>4, <2>5 DEF WorkerAnswers
<1>9. CASE WorkerTells(w)
  <2>1. PICK t \in Tickets : Send(D_MSG_REJECTED, t)
    BY <1>9 DEF WorkerTells
  <2>2. \A k \in Underway : Letter(k)' = Letter(k)
    BY <1>t, <1>k, <2>1, SendLetter
  <2>3. ClerkHas(w)' = ClerkHas(w)
    BY <1>9 DEF WorkerTells, ClerkHas, Paper, Working
  <2>4. \A u : u \in OnTheWay' <=> u \in OnTheWay
    BY <1>t, <2>2, <2>3, SameButClerk
  <2> QED BY <1>1, <1>9, <2>4 DEF WorkerTells
<1>10. CASE WorkerTurnsAway(w)
  <2>1. PICK p \in Petents, t \in Tickets :
          /\ t = wtck[w] /\ p = t.requester /\ Live(t) /\ t.ticketid # -1
          /\ t.queueid \in TypesTo(WorkerType[w])
    BY <1>10, <1>t DEF WorkerTurnsAway, WorkerRouted, Sound, Holding
  <2>2. PICK u \in Tickets : u = [t EXCEPT !.ticketid = -1, !.queueid = -1]
    BY <2>1 DEF Tickets
  <2>3. u.requester = p /\ Matter(u) = Service!Idle("refused")
    <3>1. u.requester = p /\ u.ticketid = -1
      BY <2>1, <2>2 DEF Tickets
    <3> QED BY <3>1, MatterIs
  <2>4. /\ Letter(p)' = Letter(p) \cup {u}
        /\ \A j \in MsgTypes \ {p} : Letter(j)' = Letter(j)
    BY <1>10, <1>t, <1>k, <2>1, <2>2, SendLetter DEF WorkerTurnsAway
  <2>5. ClerkHas(w) = {t} /\ ClerkHas(w)' = {}
    BY <1>10, <2>1 DEF WorkerTurnsAway, ClerkHas, Paper, Working
  <2>6. /\ u \in OnTheWay'
        /\ \A v : v.requester # p => (v \in OnTheWay' <=> v \in OnTheWay)
    BY <1>t, <1>k, <2>1, <2>3, <2>4, <2>5, WayIsNext, SameButClerk
  <2>7. /\ HeardOf' = HeardOf /\ BookOf[p] = Matter(t) /\ HeardOf[p] = BookOf[p]
        /\ BookOf' = [BookOf EXCEPT ![p] = Service!Idle("refused")]
    BY <1>5, <2>1, <2>3, <2>5, <2>6
  <2>8. BookOf[p].stage \in {"ticket", "due", "paid"}
    <3>1. t.queueid # D_MSG_TICKET /\ t.facultytype # 0 /\ t.payment \in Payments
      BY <2>1, TypesApart, RegularRange, TypeRange, FacultyRange DEF Live, Tickets
    <3> QED BY <2>1, <2>7, <3>1, MatterIs DEF Payments, Service!For
  <2>9. IsClosing
    BY <1>10 DEF WorkerTurnsAway, MatterInv, DoorsInv, Draining, IsClosing
  <2>10. UNCHANGED LeftOf
    BY <1>10 DEF WorkerTurnsAway, LeftOf
  <2>11. Service!TurnAway(p)
    BY <1>f, <2>7, <2>8, <2>9, <2>10
       DEF Service!TurnAway, Service!Enter, BookOf, HeardOf, LeftOf, IsClosing
  <2> QED BY <2>7, <2>11 DEF Service!Write, BookOf, HeardOf
<1> QED BY <1>f, <1>3, <1>4, <1>6, <1>7, <1>8, <1>9, <1>10

\* A failed call takes the paper of a clerk, or leaves it where it was.
LEMMA ClerkLoses ==
  ASSUME NEW w \in Workers, wpc'[w] = AfterFailure(w), UNCHANGED <<wtck, wout>>
  PROVE  ClerkHas(w)' \subseteq ClerkHas(w)
<1>1. CASE wpc[w] \in {"drainReport", "opened"}
  BY <1>1 DEF AfterFailure, ClerkHas, Paper, Working
<1>2. CASE wpc[w] \in {"reply", "report", "drainReply"}
  <2>1. wpc'[w] \notin Working
    BY <1>2 DEF AfterFailure, AfterReply, DrainLoop, Working
  <2> QED BY <2>1 DEF ClerkHas
<1>3. CASE wpc[w] \notin {"drainReport", "opened", "reply", "report", "drainReply"}
  <2>1. wpc'[w] = wpc[w]
    BY <1>3 DEF AfterFailure
  <2> QED BY <2>1 DEF ClerkHas, Paper
<1> QED BY <1>1, <1>2, <1>3

\* The director closes the office, or its signal 1 makes clerks lose answers
\* they were about to send; nothing else it does concerns the book.
LEMMA DirectorService ==
  ASSUME DirectorStep, MatterInv, MatterInv'
  PROVE  \/ Service!Close \/ \E P \in SUBSET Petents : Service!Lose(P)
         \/ UNCHANGED books
<1>t. /\ FlowInv /\ FlowInv' /\ RouteInv /\ LobbyInv /\ DayInv
      /\ ignoredEintr' \in BOOLEAN
  BY DEF MatterInv, PapersInv, FlowInv, LobbyInv, DayInv
<1>f. /\ UNCHANGED <<msgs, tck, limit, saLimit, mpc, mtck, mstatus, wtck, wout>>
      /\ ignoredEintr => ignoredEintr'
      /\ \A w \in Workers : \/ wpc'[w] = wpc[w]
                            \/ wpc'[w] = AfterFailure(w) /\ ignoredEintr'
  BY <1>t, DirectorMail
<1>1. /\ IsClosing => IsClosing'
      /\ ignoredEintr' => IsClosing /\ IsClosing'
  BY <1>t, DirectorLobby DEF IsClosing, DayInv, BeforeOpening
<1>2. /\ \A k \in Underway : Letter(k)' = Letter(k)
      /\ \A m \in Machines : MachineHas(m)' = MachineHas(m)
  BY <1>f, SameHands DEF Letter
<1>3. UNCHANGED <<HeardOf, LeftOf>>
  BY <1>f DEF HeardOf, LeftOf
<1>4. CASE ~ignoredEintr'
  <2>1. \A w \in Workers : ClerkHas(w)' = ClerkHas(w)
    BY <1>f, <1>4, SameHands
  <2>2. \A u : u \in OnTheWay' <=> u \in OnTheWay
    BY <1>2, <2>1, SamePlaces
  <2>3. BookOf' = BookOf
    BY <1>f, <2>2, SameBook
  <2>4. ignoredEintr' = ignoredEintr
    BY <1>t, <1>f, <1>4 DEF DayInv
  <2>5. CASE IsClosing' = IsClosing
    BY <1>3, <2>3, <2>4, <2>5 DEF books
  <2>6. CASE IsClosing' = TRUE
    BY <1>3, <2>3, <2>4, <2>6
       DEF Service!Close, BookOf, HeardOf, LeftOf, IsClosing
  <2> QED BY <1>1, <2>5, <2>6 DEF IsClosing
<1>5. CASE ignoredEintr'
  <2>1. \A w \in Workers : ClerkHas(w)' \subseteq ClerkHas(w)
    BY <1>f, ClerkLoses, SameHands
  <2>2. \A u : u \in OnTheWay' => u \in OnTheWay
    BY <1>2, <2>1, WayIs, WayIsNext
  <2>3. \A q \in Petents : Current(q)' = Current(q) \/ Current(q)' = tck[q]
    <3> SUFFICES ASSUME NEW q \in Petents, Current(q)' # tck[q]
                 PROVE  Current(q)' = Current(q)
      OBVIOUS
    <3>1. PICK u : u \in OnTheWay' /\ u.requester = q
      BY <1>t, <1>f, CurrentNext
    <3>2. Current(q)' = u /\ Current(q) = u
      BY <1>t, <2>2, <3>1, CurrentIs, CurrentNext
    <3> QED BY <3>2
  <2>4. \A q \in Petents : BookOf'[q] \in {BookOf[q], HeardOf[q]}
    BY <1>t, <1>f, <2>3, LineIs, LineNext DEF BookOf, HeardOf
  <2>5. PICK P \in SUBSET Petents : P = {q \in Petents : BookOf'[q] # BookOf[q]}
    OBVIOUS
  <2>6. BookOf' = [q \in Petents |-> IF q \in P THEN HeardOf[q] ELSE BookOf[q]]
    BY <2>4, <2>5 DEF BookOf
  <2>7. IsClosing /\ IsClosing' = IsClosing
    BY <1>1, <1>5 DEF IsClosing
  <2>8. ignoredEintr' = TRUE
    BY <1>t, <1>5
  <2>9. Service!Lose(P)
    BY <1>3, <2>6, <2>7, <2>8 DEF Service!Lose, BookOf, HeardOf, LeftOf, IsClosing
  <2> QED BY <2>9
<1> QED BY <1>4, <1>5

\* Nobody else touches a paper or a limit.
LEMMA OthersService ==
  ASSUME ThreadStep \/ RemoveIpc \/ UNCHANGED vars, MatterInv
  PROVE  UNCHANGED books
<1>1. /\ UNCHANGED <<petentVars, machineVars, workerVars, limit, saLimit, dpc>>
      /\ UNCHANGED ignoredEintr
  BY ThreadFrame DEF RemoveIpc, vars, semVars, limitVars, lockVars, directorVars
<1>2. \A k \in Underway : msgs'[k] = msgs[k]
  BY DEF ThreadStep, ThreadReceive, ThreadStop, Receive, MsgsOK, MatterInv,
     PapersInv, FlowInv, RouteInv, TypeInv, Underway, RemoveIpc, vars
<1>3. \A k \in Underway : Letter(k)' = Letter(k)
  BY <1>2 DEF Letter
<1>4. /\ \A m \in Machines : MachineHas(m)' = MachineHas(m)
      /\ \A w \in Workers : ClerkHas(w)' = ClerkHas(w)
  BY <1>1, SameHands DEF machineVars, workerVars
<1>5. \A u : u \in OnTheWay' <=> u \in OnTheWay
  BY <1>3, <1>4, SamePlaces
<1> QED BY <1>1, <1>5, SameBook, SameBooks DEF petentVars

LEMMA ServiceStart == Init => Service!ServiceInit
<1> SUFFICES ASSUME Init PROVE Service!ServiceInit
  OBVIOUS
<1>1. \A k \in Underway : Letter(k) = {}
  BY DEF Init, Letter, Underway
<1>2. \A u : u \notin OnTheWay
  BY <1>1, WayIs DEF Init, MachineHas, ClerkHas, Asked, Working
<1>3. \A p \in Petents : Current(p) = NoTicket /\ tck[p] = NoTicket
  BY <1>2, CurrentIs, MatterInit DEF Init, MatterInv, PapersInv
<1>4. /\ BookOf = [p \in Petents |-> Service!Idle("none")]
      /\ HeardOf = BookOf
  BY <1>3, MatterInit, MatterNone, LineIs
     DEF MatterInv, PapersInv, BookOf, HeardOf
<1>5. IsClosing = FALSE /\ ignoredEintr = FALSE
  BY DEF Init, IsClosing, BeforeOpening
<1>6. limit = LimitInit /\ saLimit = SaLimitInit
  BY DEF Init
<1>7. LeftOf = [f \in Faculties |->
                  IF f = FACULTY_SA THEN SaLimitInit[1] + SaLimitInit[2]
                                    ELSE LimitInit[f]]
  BY <1>6 DEF LeftOf
<1> QED
  BY <1>4, <1>5, <1>7 DEF Service!ServiceInit, BookOf, HeardOf, LeftOf, IsClosing

LEMMA ServiceStep ==
  MatterInv /\ MatterInv' /\ [Next]_vars => [Service!ServiceNext]_books
<1> SUFFICES ASSUME MatterInv, MatterInv', [Next]_vars
             PROVE  Service!ServiceNext \/ UNCHANGED books
  OBVIOUS
<1>1. ASSUME NEW p \in Petents, PetentStep(p)
      PROVE  Service!ServiceNext \/ UNCHANGED books
  BY <1>1, PetentService DEF Service!ServiceNext
<1>2. ASSUME NEW m \in Machines, MachineStep(m)
      PROVE  Service!ServiceNext \/ UNCHANGED books
  BY <1>2, MachineService DEF Service!ServiceNext
<1>3. ASSUME NEW w \in Workers, WorkerStep(w)
      PROVE  Service!ServiceNext \/ UNCHANGED books
  BY <1>3, WorkerService DEF Service!ServiceNext
<1>4. CASE DirectorStep
  BY <1>4, DirectorService DEF Service!ServiceNext
<1>5. CASE ThreadStep \/ RemoveIpc \/ UNCHANGED vars
  BY <1>5, OthersService
<1> QED BY <1>1, <1>2, <1>3, <1>4, <1>5 DEF Next, Rest

\* The office keeps one book, whatever becomes of the papers that petents,
\* machines and clerks hand each other: each line is written once and read
\* before the next one, each place of a limit goes to one matter, nobody is
\* refused but for a limit that is used up or at the end of the day, and no
\* matter for which a fee is due is settled before the cashier has it.
THEOREM ServiceRefinement == Spec => ServiceImplemented
<1>1. [Service!ServiceNext]_books => [Service!ServiceNext]_(Service!serviceVars)
  BY DEF books, BookOf, HeardOf, LeftOf, IsClosing, Service!serviceVars
<1> QED
  BY MatterInit, MatterStep, ServiceStart, ServiceStep, <1>1, PTL
     DEF Spec, ServiceImplemented, Service!ServiceSpec
===============================================================================
