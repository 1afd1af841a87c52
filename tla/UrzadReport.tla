----------------------------- MODULE UrzadReport ------------------------------
(***************************************************************************)
(* The daily report, for every value of the constants: it names nobody who *)
(* was not refused, and each petent once. First what a step of each        *)
(* program does to the papers that go round.                               *)
(***************************************************************************)
EXTENDS UrzadPapers, UrzadSemaphores

\* What a machine's step does to the letters, its paper and the limits: it
\* idles, takes a request, decides on it, answers it or reports it.
MachineIdles(m) ==
  /\ UNCHANGED <<msgs, limit, saLimit>>
  /\ mpc[m] \notin {"serve", "reply", "report"}
  /\ mpc'[m] \notin {"serve", "reply", "report"}
MachineTakes(m) ==
  /\ Receive(D_MSG_TICKET) /\ UNCHANGED <<limit, saLimit>>
  /\ mpc[m] = "poll" /\ mpc'[m] = "serve"
  /\ mtck'[m] = Head(msgs[D_MSG_TICKET])
MachineDecides(m) ==
  /\ mpc[m] = "serve" /\ mpc'[m] = "reply"
  /\ UNCHANGED msgs /\ mtck'[m] = mtck[m] /\ mstatus'[m] \in {0, -1}
  /\ TakeFromLimit(mtck[m].facultytype, mstatus'[m])
MachineAnswers(m) ==
  /\ mpc[m] = "reply" /\ UNCHANGED <<limit, saLimit>>
  /\ Send(mtck[m].requester, MachineAnswer(mtck[m], mstatus[m]))
  /\ \/ mstatus[m] = 0 /\ mpc'[m] = "lockCheck"
     \/ mstatus[m] = -1 /\ mpc'[m] = "report" /\ mtck'[m] = mtck[m]
MachineTells(m) ==
  /\ mpc[m] = "report" /\ mpc'[m] = "lockCheck" /\ UNCHANGED <<limit, saLimit>>
  /\ Send(D_MSG_REJECTED, [mtck[m] EXCEPT !.queueid = 1])

LEMMA MachineMail ==
  ASSUME NEW m \in Machines, MachineStep(m), RouteInv
  PROVE  /\ UNCHANGED <<tck, pc, wpc, wtck, wout, sig1, dpc, collected, ignoredEintr>>
         /\ \A n \in Machines \ {m} :
              mpc'[n] = mpc[n] /\ mtck'[n] = mtck[n] /\ mstatus'[n] = mstatus[n]
         /\ \/ MachineIdles(m) \/ MachineTakes(m) \/ MachineDecides(m)
            \/ MachineAnswers(m) \/ MachineTells(m)
<1>m. /\ mpc \in [Machines -> MachineLabels] /\ mtck \in [Machines -> Tickets]
      /\ mstatus \in [Machines -> {0, -1}]
  BY DEF RouteInv, TypeInv, LockInv, MachinesOK
<1>f. UNCHANGED <<tck, pc, wpc, wtck, wout, sig1, dpc, collected, ignoredEintr>>
  BY MachineFrame DEF petentVars, workerVars, directorVars
<1> USE DEF MGoto, semVars, limitVars
<1>1. CASE \/ MachineLockOpened(m) \/ MachineUnlockOpened(m)
           \/ MachineCheck(m) \/ MachineLockCheck(m)
  BY <1>1, <1>f, <1>m DEF MachineLockOpened, MachineUnlockOpened, MachineCheck,
     MachineLockCheck, MachineIdles
<1>2. CASE MachinePoll(m)
  BY <1>2, <1>f, <1>m DEF MachinePoll, MachineIdles, MachineTakes
<1>3. CASE MachineServe(m)
  <2>1. PICK status \in {0, -1} :
          /\ TakeFromLimit(mtck[m].facultytype, status)
          /\ mstatus' = [mstatus EXCEPT ![m] = status]
    BY <1>3 DEF MachineServe
  <2>2. mpc[m] = "serve" /\ mpc' = [mpc EXCEPT ![m] = "reply"]
        /\ UNCHANGED <<msgs, mtck>>
    BY <1>3 DEF MachineServe
  <2>3. MachineDecides(m)
    BY <1>m, <2>1, <2>2 DEF MachineDecides
  <2> QED BY <1>f, <1>m, <2>1, <2>2, <2>3
<1>4. CASE MachineReply(m)
  BY <1>4, <1>f, <1>m DEF MachineReply, MachineAnswers
<1>5. CASE MachineReport(m)
  BY <1>5, <1>f, <1>m DEF MachineReport, MachineTells
<1> QED BY <1>1, <1>2, <1>3, <1>4, <1>5 DEF MachineStep

\* The same of a clerk: it idles, takes a ticket, deals with it, numbers it,
\* answers it, reports it; or reports it first and turns its petent away then.
WorkerIdles(w) ==
  /\ UNCHANGED <<msgs, limit, saLimit>>
  /\ wpc[w] \notin Holding /\ wpc'[w] \notin Holding
WorkerTakes(w) ==
  /\ UNCHANGED <<limit, saLimit>>
  /\ \E k \in {PriorityType(w), NormalType(w)} :
       Receive(k) /\ wtck'[w] = Head(msgs[k])
  /\ wpc[w] \notin Holding
  /\ \/ wpc'[w] = "serve"
     \/ wpc'[w] = "drainReport" /\ wpc[w] \in {"drainPrio", "drain"}
WorkerDeals(w) ==
  /\ wpc[w] = "serve" /\ UNCHANGED <<msgs, saLimit>> /\ wtck'[w] = wtck[w]
  /\ Redirect(w) \/ RequirePayment(w) \/ TakePayment(w) \/ Settle(w)
  /\ \/ wpc'[w] = "number" /\ wout'[w].ticketid # -1
     \/ wpc'[w] = "reply" /\ wout'[w].ticketid = -1
WorkerNumbers(w) ==
  /\ wpc[w] = "number" /\ wpc'[w] = "reply"
  /\ UNCHANGED <<msgs, limit, saLimit>> /\ wtck'[w] = wtck[w]
  /\ wout'[w] = [wout[w] EXCEPT !.ticketid = 1]
WorkerAnswers(w) ==
  /\ wpc[w] = "reply" /\ UNCHANGED <<limit, saLimit>> /\ wtck'[w] = wtck[w]
  /\ wout'[w] = wout[w] /\ Send(wout[w].requester, wout[w])
  /\ wpc'[w] = AfterReply(w)
WorkerTells(w) ==
  /\ UNCHANGED <<limit, saLimit>> /\ wtck'[w] = wtck[w] /\ wout'[w] = wout[w]
  /\ \E t \in Tickets : Send(D_MSG_REJECTED, t) /\ t.requester = wtck[w].requester
  /\ \/ wpc[w] = "report" /\ wpc'[w] = "lockCheck"
     \/ wpc[w] = "drainReport" /\ wpc'[w] = "drainReply"
WorkerTurnsAway(w) ==
  /\ wpc[w] = "drainReply" /\ wpc'[w] \in {"drainPrio", "drain"}
  /\ UNCHANGED <<limit, saLimit>>
  /\ Send(wtck[w].requester, [wtck[w] EXCEPT !.ticketid = -1, !.queueid = -1])

LEMMA WorkerMail ==
  ASSUME NEW w \in Workers, WorkerStep(w), RouteInv, ReportsOwn
  PROVE  /\ UNCHANGED <<tck, pc, mpc, mtck, mstatus, sig1, dpc, collected,
                        ignoredEintr>>
         /\ \A v \in Workers \ {w} :
              wpc'[v] = wpc[v] /\ wtck'[v] = wtck[v] /\ wout'[v] = wout[v]
         /\ \/ WorkerIdles(w) \/ WorkerTakes(w) \/ WorkerDeals(w)
            \/ WorkerNumbers(w) \/ WorkerAnswers(w) \/ WorkerTells(w)
            \/ WorkerTurnsAway(w)
<1>m. /\ wpc \in [Workers -> WorkerLabels] /\ wtck \in [Workers -> Tickets]
      /\ wout \in [Workers -> Tickets]
  BY DEF RouteInv, TypeInv, ShutInv, WorkersOK
<1>f. UNCHANGED <<tck, pc, mpc, mtck, mstatus, sig1, dpc, collected, ignoredEintr>>
  BY WorkerFrame DEF petentVars, machineVars, directorVars
<1> USE DEF WGoto, semVars, limitVars, Holding
<1>1. CASE WorkerLockOpened(w) \/ WorkerUnlockOpened(w) \/ WorkerCheck(w)
  BY <1>1, <1>f, <1>m DEF WorkerLockOpened, WorkerUnlockOpened, WorkerCheck,
     WorkerIdles
<1>2. CASE WorkerLockCheck(w)
  BY <1>2, <1>f, <1>m DEF WorkerLockCheck, EmptyHand, WorkerIdles
<1>3. CASE WorkerPoll(w)
  BY <1>3, <1>f, <1>m DEF WorkerPoll, Take, WorkerIdles, WorkerTakes
<1>4. CASE WorkerServe(w)
  <2>1. /\ wpc[w] = "serve" /\ UNCHANGED <<msgs, saLimit, wtck>>
        /\ Redirect(w) \/ RequirePayment(w) \/ TakePayment(w) \/ Settle(w)
        /\ wpc' = [wpc EXCEPT ![w] = IF wout'[w].ticketid = -1 THEN "reply"
                                                               ELSE "number"]
    BY <1>4 DEF WorkerServe
  <2>2. \A v \in Workers \ {w} : wout'[v] = wout[v]
    BY <1>m, <2>1 DEF Redirect, RequirePayment, TakePayment, Settle
  <2>3. WorkerDeals(w)
    BY <1>m, <2>1 DEF WorkerDeals
  <2> QED BY <1>f, <1>m, <2>1, <2>2, <2>3
<1>5. CASE WorkerNumber(w)
  BY <1>5, <1>f, <1>m DEF WorkerNumber, WorkerNumbers
<1>6. CASE WorkerReply(w)
  BY <1>6, <1>f, <1>m DEF WorkerReply, WorkerAnswers
<1>7. CASE WorkerReport(w)
  <2>1. Refusal(w) \in Tickets /\ Refusal(w).requester = wtck[w].requester
    <3>1. WorkerType[w] \in Faculties \cup {CASHIER_POINT}
      BY TypeRange
    <3>2. wout[w].requester = wtck[w].requester
      BY <1>7 DEF WorkerReport, ReportsOwn
    <3>3. wtck[w] \in Tickets /\ wout[w] \in Tickets
      BY <1>m
    <3> QED BY <3>1, <3>2, <3>3 DEF Refusal, Tickets
  <2> QED BY <1>7, <1>f, <1>m, <2>1 DEF WorkerReport, WorkerTells
<1>8. CASE WorkerDrainReport(w)
  <2> DEFINE t == [wtck[w] EXCEPT !.queueid = WorkerType[w]]
  <2>1. t \in Tickets /\ t.requester = wtck[w].requester
    <3>1. WorkerType[w] \in Faculties \cup {CASHIER_POINT}
      BY TypeRange
    <3>2. wtck[w] \in Tickets
      BY <1>m
    <3> QED BY <3>1, <3>2 DEF Tickets
  <2> QED BY <1>8, <1>f, <1>m, <2>1 DEF WorkerDrainReport, WorkerTells
<1>9. CASE WorkerDrainReply(w)
  BY <1>9, <1>f, <1>m DEF WorkerDrainReply, EmptyHand, DrainLoop, WorkerTurnsAway
<1> QED
  BY <1>1, <1>2, <1>3, <1>4, <1>5, <1>6, <1>7, <1>8, <1>9 DEF WorkerStep

\* The director's signals take nobody's paper but that of a clerk they hit.
LEMMA DirectorMail ==
  ASSUME DirectorStep, RouteInv
  PROVE  /\ UNCHANGED <<msgs, tck, limit, saLimit, mpc, mtck, mstatus, wtck, wout>>
         /\ collected' = collected /\ (ignoredEintr => ignoredEintr')
         /\ \A w \in Workers :
              \/ wpc'[w] = wpc[w]
              \/ wpc'[w] = AfterFailure(w) /\ ignoredEintr'
         /\ \A q \in Petents : pc'[q] = pc[q] \/ pc'[q] \in Parting \cup {"leave"}
<1>m. /\ pc \in [Petents -> PetentLabels]
      /\ petent_pids \in [1..PidsLimit -> Petents \cup {NoPid}]
  BY DEF RouteInv, TypeInv, CapacityInv, SharedOK
<1>f. /\ UNCHANGED <<msgs, tck, limit, saLimit, mpc, mtck, mstatus, wtck, wout>>
      /\ collected' = collected
  BY DirectorFrame DEF machineVars
<1> DEFINE Calm   == ignoredEintr => ignoredEintr'
           Clerks == \A w \in Workers : \/ wpc'[w] = wpc[w]
                                        \/ wpc'[w] = AfterFailure(w) /\ ignoredEintr'
           People == \A q \in Petents : \/ pc'[q] = pc[q]
                                        \/ pc'[q] \in Parting \cup {"leave"}
<1>1. ASSUME NEW next, ScanPids(next) PROVE Calm /\ People
  <2>1. ASSUME NEW p \in Petents, Signal2(p) PROVE Calm /\ People
    <3>1. CASE UNCHANGED pc
      BY <2>1, <3>1 DEF Signal2, lockVars
    <3>2. CASE Blocked(p) /\ Goto(p, OnInterrupt(pc[p])) /\ UNCHANGED lockVars
      <4>1. OnInterrupt(pc[p]) \in Parting \cup {"leave"}
        BY <3>2 DEF Blocked, OnInterrupt, Parting
      <4> QED BY <3>2, <4>1, <1>m DEF Goto, lockVars
    <3> QED BY <2>1, <3>1, <3>2 DEF Signal2
  <2> QED BY <1>1, <1>m, <2>1 DEF ScanPids, lockVars
<1>2. ASSUME NEW S, Signal1(S) PROVE Calm /\ Clerks
  BY <1>2 DEF Signal1
<1>3. CASE SendSignal1
  BY <1>3, <1>2, <1>f DEF SendSignal1
<1>4. CASE Evacuate \/ KillRemaining
  BY <1>4, <1>1, <1>f DEF Evacuate, KillRemaining
<1>5. CASE UNCHANGED unsignalled
  BY <1>5, <1>f DEF unsignalled, lockVars
<1>6. SendSignal1 \/ Evacuate \/ KillRemaining \/ UNCHANGED unsignalled
  BY DEF DirectorStep, Configure, OpenOffice, SetOpened, SetBuilding, TimeUp,
     Event1, Event2, CloseOpened, CloseFlag, CloseBuilding, WriteReport,
     StopThread, JoinThread
<1> QED BY <1>3, <1>4, <1>5, <1>6

-------------------------------------------------------------------------------
(* The report. *)

\* Nothing is under way for p any more but its refusal, and p asks for nothing.
Over(p) ==
  /\ \A k \in RequestTypes : p \notin Queued(k)
  /\ \A m \in Machines : mpc[m] \in Asked => mtck[m].requester # p
  /\ \A w \in Workers : wpc[w] \in Working \ {"drainReply"} =>
                          wtck[w].requester # p
  /\ \A u \in Letter(p) : u.ticketid = -1
  /\ pc[p] \notin Early \cup AskForOne
  /\ pc[p] \in {"queue", "send"} => tck[p].queueid = -1

\* It has been told, or is going to read it, or a clerk is about to write it.
Back(p) ==
  \/ tck[p].ticketid = -1
  \/ RefusedIn(p)
  \/ \E w \in Workers : wpc[w] = "drainReply" /\ wtck[w].requester = p

Done(p) == Over(p) /\ (~ignoredEintr => Back(p))

LEMMA PetentDone ==
  ASSUME NEW p \in Petents, PetentStep(p), RouteInv, RouteInv',
         NEW q \in Petents, Done(q)
  PROVE  Done(q)'
<1>t. /\ MsgsOK /\ tck \in [Petents -> Tickets] /\ pc \in [Petents -> PetentLabels]
      /\ p \in MsgTypes /\ q \in MsgTypes
  BY PetentTypesIn DEF RouteInv, TypeInv, CapacityInv, PetentsOK
<1>f. UNCHANGED <<ignoredEintr, mpc, mtck, wpc, wtck>>
  BY PetentFrame DEF machineVars, workerVars
<1>p. \A r \in Petents \ {p} : pc'[r] = pc[r]
  BY PetentMoves DEF RouteInv, TypeInv
<1>k. \A k \in RequestTypes : k \in MsgTypes /\ k # p /\ k # q
  BY RequestTypesIn, PetentTypesIn
<1>r. PetentRouted(pc[p], tck[p], p) /\ PetentRouted(pc[q], tck[q], q)'
  BY DEF RouteInv, PetentsRouted
<1>1. CASE /\ UNCHANGED <<msgs, tck>>
           /\ pc'[p] \in Early => pc[p] \in Early
           /\ pc'[p] \in AskForOne => pc[p] \in AskForOne
           /\ pc'[p] \in AtQueue => pc[p] \in AtQueue
  <2>1. pc'[q] \in {"queue", "send"} => tck[q].queueid = -1
    BY <1>1, <1>p, <1>r DEF Done, Over, AtQueue, PetentRouted
  <2>2. Queued(D_MSG_TICKET)' = Queued(D_MSG_TICKET) /\ Letter(q)' = Letter(q)
        /\ \A k : Queued(k)' = Queued(k)
    BY <1>1 DEF Queued, Letter
  <2> QED BY <1>1, <1>f, <1>p, <2>1, <2>2 DEF Done, Over, Back, RefusedIn
<1>2. CASE /\ UNCHANGED msgs
           /\ pc[p] = "entered" /\ pc'[p] = "tickets"
           /\ tck' = [tck EXCEPT ![p] = NewTicket(p)]
  <2>1. q # p /\ tck'[q] = tck[q] /\ pc'[q] = pc[q]
    BY <1>2, <1>p, <1>t DEF Done, Over, Early
  <2>2. \A k : Queued(k)' = Queued(k) /\ Letter(k)' = Letter(k)
    BY <1>2 DEF Queued, Letter
  <2> QED BY <1>f, <2>1, <2>2 DEF Done, Over, Back, RefusedIn
<1>3. CASE /\ \E k \in RequestTypes : k = tck[p].queueid /\ Send(k, tck[p])
           /\ UNCHANGED tck /\ pc[p] \in {"sendTicket", "send"}
           /\ pc'[p] \in {"waitTicket", "waitWorker"}
  <2>1. PICK k \in RequestTypes : k = tck[p].queueid /\ Send(k, tck[p])
    BY <1>3
  <2>2. q # p
    <3>1. -1 \notin RequestTypes
      BY TypesApart, SetsAssumption, FacultyRange
         DEF RequestTypes, WorkerMsgTypes, D_MSG_TICKET, D_MSG_WORKER_OFFSET,
             D_MSG_WORKER_PRIORITY_OFFSET, CASHIER_POINT
    <3> QED BY <1>3, <2>1, <3>1 DEF Done, Over, AskForOne
  <2>3. /\ Queued(k)' = Queued(k) \cup {tck[p].requester}
        /\ \A j \in RequestTypes \ {k} : Queued(j)' = Queued(j)
    BY <1>k, <1>t, <2>1, SendQueued
  <2>4. Letter(q)' = Letter(q)
    BY <1>k, <1>t, <2>1, SendLetter
  <2>5. tck[p].requester = p /\ pc'[q] = pc[q]
    BY <1>3, <1>p, <1>r, <2>2 DEF PetentRouted, HasTicket
  <2>6. \A j \in RequestTypes : q \notin Queued(j)'
    BY <2>2, <2>3, <2>5 DEF Done, Over
  <2> QED BY <1>3, <1>f, <2>4, <2>5, <2>6 DEF Done, Over, Back, RefusedIn
<1>4. CASE /\ Receive(p) /\ Waiting(p)
           /\ tck' = [tck EXCEPT ![p] = Head(msgs[p])]
           /\ pc'[p] \notin Early \cup AskForOne
  <2>1. /\ Head(msgs[p]) \in Letter(p) /\ Letter(p)' \subseteq Letter(p)
        /\ \A j \in MsgTypes \ {p} : Letter(j)' = Letter(j)
    BY <1>4, <1>t, ReceiveLetter
  <2>2. \A j \in RequestTypes : Queued(j)' = Queued(j)
    BY <1>4, <1>k, <1>t, ReceiveQueued
  <2>3. CASE q = p
    <3>1. tck'[q].ticketid = -1
      BY <1>4, <1>t, <2>1, <2>3 DEF Done, Over
    <3>2. pc'[q] \in {"queue", "send"} => tck'[q].queueid = -1
      BY <1>r, <3>1 DEF PetentRouted
    <3> QED BY <1>4, <1>f, <2>1, <2>2, <2>3, <3>1, <3>2 DEF Done, Over, Back
  <2>4. CASE q # p
    BY <1>4, <1>f, <1>p, <1>t, <2>1, <2>2, <2>4 DEF Done, Over, Back, RefusedIn
  <2> QED BY <2>3, <2>4
<1>5. D_MSG_TICKET \in RequestTypes /\ \A k \in WorkerMsgTypes : k \in RequestTypes
  BY DEF RequestTypes
<1>6. pc[p] = "sendTicket" => tck[p].queueid = D_MSG_TICKET
  BY DEF RouteInv, TypeInv, PetentsOK, AskForOne
<1> QED BY <1>1, <1>2, <1>3, <1>4, <1>5, <1>6, PetentMail

\* Neither goes, as long as nothing new is under way for it but its refusal.
LEMMA DoneStays ==
  ASSUME NEW q \in Petents, Done(q), UNCHANGED <<tck, pc, ignoredEintr>>,
         \A k \in RequestTypes : q \notin Queued(k)',
         \A m \in Machines : mpc'[m] \in Asked => mtck'[m].requester # q,
         \A w \in Workers : wpc'[w] \in Working \ {"drainReply"} =>
                               wtck'[w].requester # q,
         Letter(q) \subseteq Letter(q)',
         \A u \in Letter(q)' : u \in Letter(q) \/ u.ticketid = -1,
         \A w \in Workers : wpc[w] = "drainReply" /\ wtck[w].requester = q =>
           \/ wpc'[w] = "drainReply" /\ wtck'[w] = wtck[w]
           \/ \E u \in Letter(q)' : u.ticketid = -1
  PROVE  Done(q)'
<1>1. Over(q)'
  BY DEF Done, Over
<1>2. ASSUME ~ignoredEintr, Back(q)
      PROVE  Back(q)'
  BY <1>2 DEF Back, RefusedIn
<1> QED BY <1>1, <1>2 DEF Done

LEMMA MachineDone ==
  ASSUME NEW m \in Machines, MachineStep(m), RouteInv, NEW q \in Petents, Done(q)
  PROVE  Done(q)'
<1>t. /\ MsgsOK /\ q \in MsgTypes /\ mtck \in [Machines -> Tickets]
      /\ mpc[m] \in {"serve", "reply", "report"} => Sound(mtck[m])
  BY PetentTypesIn DEF RouteInv, TypeInv, MachinesOK
<1>k. /\ \A k \in RequestTypes : k \in MsgTypes /\ k # q /\ k \notin Petents
      /\ D_MSG_TICKET \in RequestTypes /\ D_MSG_REJECTED \notin RequestTypes
      /\ D_MSG_REJECTED \in MsgTypes /\ D_MSG_REJECTED # q
      /\ Petents \subseteq MsgTypes
  BY RequestTypesIn, PetentTypesIn, RejectedNoRequest, SetsAssumption
     DEF RequestTypes, MsgTypes, D_MSG_REJECTED
<1>f. /\ UNCHANGED <<tck, pc, wpc, wtck, ignoredEintr>>
      /\ \A n \in Machines \ {m} : mpc'[n] = mpc[n] /\ mtck'[n] = mtck[n]
      /\ \/ MachineIdles(m) \/ MachineTakes(m) \/ MachineDecides(m)
         \/ MachineAnswers(m) \/ MachineTells(m)
  BY MachineMail
<1>o. /\ \A k \in RequestTypes : q \notin Queued(k)
      /\ mpc[m] \in Asked => mtck[m].requester # q
  BY DEF Done, Over
<1>1. /\ \A k \in RequestTypes : q \notin Queued(k)'
      /\ mpc'[m] \in Asked => mtck'[m].requester # q
      /\ Letter(q)' = Letter(q)
  <2>1. CASE MachineIdles(m) \/ MachineDecides(m)
    BY <1>o, <2>1 DEF MachineIdles, MachineDecides, Queued, Letter, Asked
  <2>2. CASE MachineTakes(m)
    <3>1. /\ \A k \in RequestTypes : Queued(k)' \subseteq Queued(k)
          /\ Head(msgs[D_MSG_TICKET]).requester \in Queued(D_MSG_TICKET)
      <4>1. Receive(D_MSG_TICKET) /\ D_MSG_TICKET \in MsgTypes
        BY <1>k, <2>2 DEF MachineTakes
      <4>2. /\ Head(msgs[D_MSG_TICKET]).requester \in Queued(D_MSG_TICKET)
            /\ \A j \in MsgTypes \ {D_MSG_TICKET} : Queued(j)' = Queued(j)
        BY <1>t, <4>1, ReceiveQueued
      <4>3. Letter(D_MSG_TICKET)' \subseteq Letter(D_MSG_TICKET)
        BY <1>t, <4>1, ReceiveLetter
      <4>4. Queued(D_MSG_TICKET)' \subseteq Queued(D_MSG_TICKET)
        BY <4>3 DEF Queued, Letter
      <4> QED BY <1>k, <4>2, <4>4
    <3>2. Letter(q)' = Letter(q)
      BY <1>k, <1>t, <2>2, ReceiveLetter DEF MachineTakes
    <3>3. mtck'[m] = Head(msgs[D_MSG_TICKET])
      BY <2>2 DEF MachineTakes
    <3> QED BY <1>k, <1>o, <3>1, <3>2, <3>3
  <2>3. CASE MachineAnswers(m)
    <3> DEFINE p == mtck[m].requester
               u == MachineAnswer(mtck[m], mstatus[m])
    <3>1. p \in Petents /\ p # q /\ u \in Tickets /\ Send(p, u)
      BY <1>o, <1>t, <2>3, MachineAnswerOK
         DEF MachineAnswers, RouteInv, TypeInv, MachinesOK, Sound, Asked
    <3>2. mpc'[m] \notin Asked
      BY <2>3 DEF MachineAnswers, Asked
    <3> QED BY <1>k, <1>o, <1>t, <3>1, <3>2, SendQueued, SendLetter
  <2>4. CASE MachineTells(m)
    <3> DEFINE u == [mtck[m] EXCEPT !.queueid = 1]
    <3>1. u \in Tickets /\ Send(D_MSG_REJECTED, u) /\ mpc'[m] \notin Asked
      BY <1>t, <2>4 DEF MachineTells, Tickets, Asked, D_MSG_TICKET
    <3> QED BY <1>k, <1>o, <1>t, <3>1, SendQueued, SendLetter
  <2> QED BY <1>f, <2>1, <2>2, <2>3, <2>4
<1>2. \A n \in Machines : mpc'[n] \in Asked => mtck'[n].requester # q
  BY <1>1, <1>f DEF Done, Over
<1>3. \A w \in Workers : wpc'[w] \in Working \ {"drainReply"} =>
                            wtck'[w].requester # q
  BY <1>f DEF Done, Over
<1> QED BY <1>1, <1>2, <1>3, <1>f, DoneStays

LEMMA WorkerDone ==
  ASSUME NEW w \in Workers, WorkerStep(w), RouteInv, ReportsOwn,
         NEW q \in Petents, Done(q)
  PROVE  Done(q)'
<1>t. /\ MsgsOK /\ q \in MsgTypes /\ wtck \in [Workers -> Tickets]
      /\ wout \in [Workers -> Tickets]
      /\ wpc[w] \in Holding => Sound(wtck[w])
      /\ wpc[w] = "reply" => Sound(wout[w]) /\ wout[w].requester = wtck[w].requester
  BY PetentTypesIn DEF RouteInv, TypeInv, WorkersOK, WorkersRouted, WorkerRouted
<1>k. /\ \A k \in RequestTypes : k \in MsgTypes /\ k # q /\ k \notin Petents
      /\ D_MSG_REJECTED \notin RequestTypes
      /\ D_MSG_REJECTED \in MsgTypes /\ D_MSG_REJECTED # q
      /\ Petents \subseteq MsgTypes
  BY RequestTypesIn, PetentTypesIn, RejectedNoRequest, SetsAssumption
     DEF RequestTypes, MsgTypes, D_MSG_REJECTED
<1>f. /\ UNCHANGED <<tck, pc, mpc, mtck, ignoredEintr>>
      /\ \A v \in Workers \ {w} : wpc'[v] = wpc[v] /\ wtck'[v] = wtck[v]
      /\ \/ WorkerIdles(w) \/ WorkerTakes(w) \/ WorkerDeals(w)
         \/ WorkerNumbers(w) \/ WorkerAnswers(w) \/ WorkerTells(w)
         \/ WorkerTurnsAway(w)
  BY WorkerMail
<1>o. /\ \A k \in RequestTypes : q \notin Queued(k)
      /\ wpc[w] \in Working \ {"drainReply"} => wtck[w].requester # q
  BY DEF Done, Over
<1> DEFINE Mine == wpc'[w] \in Working \ {"drainReply"} => wtck'[w].requester # q
           Turn == wpc[w] = "drainReply" /\ wtck[w].requester = q =>
                     \/ wpc'[w] = "drainReply" /\ wtck'[w] = wtck[w]
                     \/ \E u \in Letter(q)' : u.ticketid = -1
<1>1. /\ \A k \in RequestTypes : q \notin Queued(k)'
      /\ Letter(q) \subseteq Letter(q)'
      /\ \A u \in Letter(q)' : u \in Letter(q) \/ u.ticketid = -1
      /\ Mine /\ Turn
  <2>1. CASE WorkerIdles(w) \/ WorkerDeals(w) \/ WorkerNumbers(w)
    <3>1. UNCHANGED msgs
      BY <2>1 DEF WorkerIdles, WorkerDeals, WorkerNumbers
    <3>2. Mine /\ Turn
      BY <1>o, <2>1 DEF WorkerIdles, WorkerDeals, WorkerNumbers, Working, Holding
    <3> QED BY <1>o, <3>1, <3>2 DEF Queued, Letter
  <2>2. CASE WorkerTakes(w)
    <3>1. PICK k \in {PriorityType(w), NormalType(w)} :
            Receive(k) /\ wtck'[w] = Head(msgs[k])
      BY <2>2 DEF WorkerTakes
    <3>2. k \in RequestTypes /\ k \in MsgTypes
      BY <1>k, <3>1, WorkerQueue DEF RequestTypes
    <3>3. /\ Head(msgs[k]).requester \in Queued(k)
          /\ \A j \in MsgTypes \ {k} : Queued(j)' = Queued(j)
      BY <1>t, <3>1, <3>2, ReceiveQueued
    <3>4. /\ Letter(k)' \subseteq Letter(k)
          /\ \A j \in MsgTypes \ {k} : Letter(j)' = Letter(j)
      BY <1>t, <3>1, <3>2, ReceiveLetter
    <3>5. Queued(k)' \subseteq Queued(k)
      BY <3>4 DEF Queued, Letter
    <3>6. wpc[w] # "drainReply"
      BY <2>2 DEF WorkerTakes, Holding
    <3>7. Letter(q)' = Letter(q)
      BY <1>k, <1>t, <3>2, <3>4
    <3> QED BY <1>k, <1>o, <3>1, <3>2, <3>3, <3>5, <3>6, <3>7
  <2>3. CASE WorkerAnswers(w)
    <3> DEFINE p == wout[w].requester
    <3>1. p \in Petents /\ p # q /\ wout[w] \in Tickets /\ Send(p, wout[w])
      BY <1>o, <1>t, <2>3 DEF WorkerAnswers, Sound, Working
    <3>2. Mine /\ Turn
      BY <2>3 DEF WorkerAnswers, AfterReply, Working
    <3> QED BY <1>k, <1>o, <1>t, <3>1, <3>2, SendQueued, SendLetter
  <2>4. CASE WorkerTells(w)
    <3>1. PICK t \in Tickets : Send(D_MSG_REJECTED, t)
      BY <2>4 DEF WorkerTells
    <3>2. Mine /\ Turn
      BY <2>4 DEF WorkerTells, Working
    <3> QED BY <1>k, <1>o, <1>t, <3>1, <3>2, SendQueued, SendLetter
  <2>5. CASE WorkerTurnsAway(w)
    <3>1. PICK p \in Petents, u \in Tickets :
            p = wtck[w].requester /\ Send(p, u) /\ u.ticketid = -1
      <4> DEFINE u == [wtck[w] EXCEPT !.ticketid = -1, !.queueid = -1]
      <4>1. wtck[w].requester \in Petents /\ u \in Tickets /\ u.ticketid = -1
        BY <1>t, <2>5 DEF WorkerTurnsAway, Sound, Holding, Tickets
      <4> QED BY <2>5, <4>1 DEF WorkerTurnsAway
    <3>2. /\ Letter(p)' = Letter(p) \cup {u}
          /\ \A j \in MsgTypes \ {p} : Letter(j)' = Letter(j)
      BY <1>k, <1>t, <3>1, SendLetter
    <3>3. \A j \in MsgTypes \ {p} : Queued(j)' = Queued(j)
      BY <1>k, <1>t, <3>1, SendQueued
    <3>4. Mine
      BY <2>5 DEF WorkerTurnsAway, Working
    <3>5. \A k \in RequestTypes : k # p
      BY <1>k, <3>1
    <3>6. CASE p = q
      <4>1. u \in Letter(q)' /\ Letter(q) \subseteq Letter(q)'
            /\ \A v \in Letter(q)' : v \in Letter(q) \/ v = u
        BY <3>2, <3>6
      <4> QED BY <1>k, <1>o, <3>1, <3>3, <3>4, <3>5, <4>1
    <3>7. CASE p # q
      <4>1. Letter(q)' = Letter(q) /\ \A k \in RequestTypes : Queued(k)' = Queued(k)
        BY <1>k, <1>t, <3>2, <3>3, <3>5, <3>7
      <4>2. Turn
        BY <3>1, <3>7
      <4> QED BY <1>o, <3>4, <4>1, <4>2
    <3> QED BY <3>6, <3>7
  <2> QED BY <1>f, <2>1, <2>2, <2>3, <2>4, <2>5
<1>2. \A v \in Workers : wpc'[v] \in Working \ {"drainReply"} =>
                            wtck'[v].requester # q
  BY <1>1, <1>f DEF Done, Over
<1>3. \A v \in Workers : wpc[v] = "drainReply" /\ wtck[v].requester = q =>
        \/ wpc'[v] = "drainReply" /\ wtck'[v] = wtck[v]
        \/ \E u \in Letter(q)' : u.ticketid = -1
  BY <1>1, <1>f
<1>4. \A m \in Machines : mpc'[m] \in Asked => mtck'[m].requester # q
  BY <1>f DEF Done, Over
<1> QED BY <1>1, <1>2, <1>3, <1>4, <1>f, DoneStays

\* A signal drives petents away and clerks on, past an answer at times.
LEMMA DirectorDone ==
  ASSUME DirectorStep, RouteInv, NEW q \in Petents, Done(q)
  PROVE  Done(q)'
<1>1. /\ UNCHANGED <<msgs, tck, mpc, mtck, wtck>> /\ (ignoredEintr => ignoredEintr')
      /\ \A w \in Workers : \/ wpc'[w] = wpc[w]
                            \/ wpc'[w] = AfterFailure(w) /\ ignoredEintr'
      /\ pc'[q] = pc[q] \/ pc'[q] \in Parting \cup {"leave"}
  BY DirectorMail
<1>2. ignoredEintr' \in BOOLEAN /\ ignoredEintr \in BOOLEAN
  BY DirectorTypes DEF RouteInv, TypeInv, SharedOK
<1>3. \A w \in Workers : wpc'[w] \in Working \ {"drainReply"} =>
                           wpc[w] \in Working \ {"drainReply"}
  BY <1>1 DEF AfterFailure, AfterReply, DrainLoop, Working
<1>4. Over(q)'
  BY <1>1, <1>3 DEF Done, Over, Queued, Letter, Early, AskForOne, Parting
<1>5. ~ignoredEintr' => Back(q)'
  BY <1>1, <1>2 DEF Done, Back, RefusedIn, Letter
<1> QED BY <1>4, <1>5 DEF Done

-------------------------------------------------------------------------------
\* The places where a refusal is written on its way to raport.txt, and whose.
Tellers == {<<"mail", 0>>, <<"table", 0>>} \cup ({"machine"} \X Machines)
             \cup ({"clerk"} \X Workers)
Table             == {t.requester : t \in collected}
MachineReports(m) == IF mpc[m] = "report" THEN {mtck[m].requester} ELSE {}
ClerkReports(w)   == IF wpc[w] = "report" THEN {wtck[w].requester} ELSE {}
Tells(x) == IF x[1] = "mail" THEN Queued(D_MSG_REJECTED)
            ELSE IF x[1] = "table" THEN Table
            ELSE IF x[1] = "machine" THEN MachineReports(x[2])
            ELSE ClerkReports(x[2])

OneEach == /\ Single(D_MSG_REJECTED)
           /\ \A t, u \in collected : t.requester = u.requester => t = u
ToldOnce == \A x, y \in Tellers : x # y => Tells(x) \cap Tells(y) = {}
KnownDone == \A q \in Petents : RefusalKnown(q) => Done(q)

ReportOK  == KnownDone /\ ToldOnce
ReportInv == FlowInv /\ RefusalInv /\ OneEach /\ ReportOK

LEMMA TellerCases ==
  ASSUME NEW x \in Tellers
  PROVE  \/ /\ x = <<"mail", 0>> /\ Tells(x) = Queued(D_MSG_REJECTED)
            /\ Tells(x)' = Queued(D_MSG_REJECTED)'
         \/ x = <<"table", 0>> /\ Tells(x) = Table /\ Tells(x)' = Table'
         \/ \E m \in Machines : /\ x = <<"machine", m>>
                                /\ Tells(x) = MachineReports(m)
                                /\ Tells(x)' = MachineReports(m)'
         \/ \E w \in Workers : /\ x = <<"clerk", w>>
                               /\ Tells(x) = ClerkReports(w)
                               /\ Tells(x)' = ClerkReports(w)'
BY DEF Tellers, Tells

LEMMA TellersOf ==
  /\ <<"mail", 0>> \in Tellers /\ Tells(<<"mail", 0>>) = Queued(D_MSG_REJECTED)
  /\ <<"table", 0>> \in Tellers /\ Tells(<<"table", 0>>) = Table
  /\ \A m \in Machines : /\ <<"machine", m>> \in Tellers
                         /\ Tells(<<"machine", m>>) = MachineReports(m)
  /\ \A w \in Workers : /\ <<"clerk", w>> \in Tellers
                        /\ Tells(<<"clerk", w>>) = ClerkReports(w)
BY DEF Tellers, Tells

LEMMA KnownTells ==
  ASSUME NEW q
  PROVE  /\ RefusalKnown(q) <=> \E x \in Tellers : q \in Tells(x)
         /\ RefusalKnown(q)' <=> \E x \in Tellers : q \in Tells(x)'
<1>1. RefusalKnown(q) <=>
        \/ q \in Queued(D_MSG_REJECTED) \/ q \in Table
        \/ \E m \in Machines : q \in MachineReports(m)
        \/ \E w \in Workers : q \in ClerkReports(w)
  BY KnownWhere DEF Reported, Table, MachineReports, ClerkReports
<1>2. (\E x \in Tellers : q \in Tells(x)) <=>
        \/ q \in Queued(D_MSG_REJECTED) \/ q \in Table
        \/ \E m \in Machines : q \in MachineReports(m)
        \/ \E w \in Workers : q \in ClerkReports(w)
  BY TellersOf, TellerCases
<1>3. RefusalKnown(q) <=> \E x \in Tellers : q \in Tells(x)
  BY <1>1, <1>2
<1>4. (RefusalKnown(q) <=> \E x \in Tellers : q \in Tells(x))'
  BY <1>3, PTL
<1> QED BY <1>3, <1>4 DEF Tellers

\* Nothing new is written about anybody; or about p only, at y, and nowhere else.
Silent == \A x \in Tellers : Tells(x)' \subseteq Tells(x)
TellsTo(p, y) ==
  /\ y \in Tellers /\ Tells(y)' \subseteq Tells(y) \cup {p}
  /\ \A x \in Tellers \ {y} : Tells(x)' \subseteq Tells(x) \ {p}

LEMMA SilentReport ==
  ASSUME ReportOK, Silent, \A q \in Petents : Done(q) => Done(q)'
  PROVE  ReportOK'
<1>1. \A q \in Petents : RefusalKnown(q)' => RefusalKnown(q)
  BY KnownTells DEF Silent
<1>2. KnownDone'
  BY <1>1 DEF ReportOK, KnownDone
<1>3. ToldOnce'
  <2> SUFFICES ASSUME NEW x \in Tellers, NEW y \in Tellers, x # y
               PROVE  Tells(x)' \cap Tells(y)' = {}
    BY DEF ToldOnce, Tellers
  <2> QED BY DEF ReportOK, ToldOnce, Silent
<1> QED BY <1>2, <1>3 DEF ReportOK

LEMMA OneReport ==
  ASSUME ReportOK, NEW p, NEW y, TellsTo(p, y),
         \A q \in Petents : Done(q) => Done(q)',
         p \in Petents => RefusalKnown(p) \/ Done(p)'
  PROVE  ReportOK'
<1>1. \A q \in Petents : RefusalKnown(q)' => RefusalKnown(q) \/ q = p
  BY KnownTells DEF TellsTo
<1>2. KnownDone'
  BY <1>1 DEF ReportOK, KnownDone
<1>3. ToldOnce'
  <2> SUFFICES ASSUME NEW x \in Tellers, NEW z \in Tellers, x # z,
                      NEW q, q \in Tells(x)', q \in Tells(z)'
               PROVE  FALSE
    BY DEF ToldOnce, Tellers
  <2>1. CASE q = p
    BY <2>1 DEF TellsTo
  <2>2. CASE q # p
    <3>1. q \in Tells(x) /\ q \in Tells(z)
      BY <2>2 DEF TellsTo
    <3> QED BY <3>1 DEF ReportOK, ToldOnce
  <2> QED BY <2>1, <2>2
<1> QED BY <1>2, <1>3 DEF ReportOK

\* Whose ticket is at x waits for it, or has been driven away, and there is
\* nothing else of it under way.
LEMMA Alone ==
  ASSUME FlowInv, NEW x \in Spots, NEW p \in Carried(x)
  PROVE  /\ p \in Petents
         /\ pc[p] \notin Early \cup AskForOne \cup {"queue", "send"}
         /\ \A k \in Underway : <<"queue", k>> # x => p \notin Queued(k)
         /\ <<"queue", p>> # x => Letter(p) = {}
         /\ \A m \in Machines : mpc[m] \in Asked /\ <<"machine", m>> # x =>
              mtck[m].requester # p
         /\ \A w \in Workers : wpc[w] \in Working /\ <<"clerk", w>> # x =>
              wtck[w].requester # p
<1>1. /\ p \in Petents /\ (Waiting(p) \/ pc[p] \in Parting)
      /\ \A z \in Spots : z # x => p \notin Carried(z)
  BY DEF FlowInv, Owned, Apart
<1>2. pc[p] \notin Early \cup AskForOne \cup {"queue", "send"}
  BY <1>1 DEF Waiting, Parting, Early, AskForOne
<1>3. \A k \in Underway : <<"queue", k>> # x => p \notin Queued(k)
  BY <1>1, SpotsOf
<1>4. \A m \in Machines : mpc[m] \in Asked /\ <<"machine", m>> # x =>
        mtck[m].requester # p
  <2> SUFFICES ASSUME NEW m \in Machines, mpc[m] \in Asked, <<"machine", m>> # x
               PROVE  mtck[m].requester # p
    OBVIOUS
  <2>1. AtMachine(m) = {mtck[m].requester}
    BY DEF AtMachine
  <2> QED BY <1>1, <2>1, SpotsOf
<1>5. \A w \in Workers : wpc[w] \in Working /\ <<"clerk", w>> # x =>
        wtck[w].requester # p
  <2> SUFFICES ASSUME NEW w \in Workers, wpc[w] \in Working, <<"clerk", w>> # x
               PROVE  wtck[w].requester # p
    OBVIOUS
  <2>1. AtClerk(w) = {wtck[w].requester}
    BY DEF AtClerk
  <2> QED BY <1>1, <2>1, SpotsOf
<1>6. <<"queue", p>> # x => Letter(p) = {}
  <2> SUFFICES ASSUME <<"queue", p>> # x PROVE Letter(p) = {}
    OBVIOUS
  <2>1. p \in Underway /\ Queued(p) \subseteq {p}
    BY <1>1, OwnQueue DEF FlowInv
  <2>2. p \notin Queued(p)
    BY <1>3, <2>1
  <2>3. \A u \in Letter(p) : u.requester \in Queued(p)
    BY DEF Queued, Letter
  <2>4. \A u \in Letter(p) : FALSE
    BY <2>1, <2>2, <2>3
  <2> QED BY <2>4
<1> QED BY <1>1, <1>2, <1>3, <1>4, <1>5, <1>6

LEMMA PetentReported ==
  ASSUME NEW p \in Petents, PetentStep(p), ReportInv, RouteInv'
  PROVE  ReportOK' /\ OneEach'
<1>t. MsgsOK /\ p \in MsgTypes /\ p # D_MSG_REJECTED /\ tck \in [Petents -> Tickets]
  BY PetentTypesIn, SetsAssumption
     DEF ReportInv, FlowInv, RouteInv, TypeInv, PetentsOK, D_MSG_REJECTED
<1>k. /\ \A k \in WorkerMsgTypes \cup {D_MSG_TICKET} :
           k \in MsgTypes /\ k # D_MSG_REJECTED
      /\ D_MSG_REJECTED \in MsgTypes
  BY RequestTypesIn, RejectedNoRequest DEF RequestTypes, MsgTypes
<1>f. UNCHANGED <<mpc, mtck, wpc, wtck, collected>>
  BY PetentFrame DEF machineVars, workerVars, directorVars
<1>1. msgs'[D_MSG_REJECTED] = msgs[D_MSG_REJECTED]
  <2>1. CASE UNCHANGED msgs
    BY <2>1
  <2>2. CASE \E k \in WorkerMsgTypes \cup {D_MSG_TICKET} : Send(k, tck[p])
    BY <1>t, <1>k, <2>2, SendQueued
  <2>3. CASE Receive(p)
    BY <1>t, <1>k, <2>3, ReceiveQueued
  <2> QED BY <2>1, <2>2, <2>3, PetentMail DEF ReportInv, FlowInv
<1>2. Silent
  BY <1>1, <1>f, TellerCases
     DEF Silent, Queued, Table, MachineReports, ClerkReports
<1>3. OneEach'
  BY <1>1, <1>f DEF ReportInv, OneEach, Single
<1>4. \A q \in Petents : Done(q) => Done(q)'
  BY PetentDone DEF ReportInv, FlowInv
<1> QED BY <1>2, <1>3, <1>4, SilentReport DEF ReportInv

\* A machine that refuses is about to tell, and nobody has told before.
LEMMA MachineReported ==
  ASSUME NEW m \in Machines, MachineStep(m), ReportInv
  PROVE  ReportOK' /\ OneEach'
<1>t. /\ MsgsOK /\ mtck \in [Machines -> Tickets]
      /\ mpc[m] \in {"serve", "reply", "report"} =>
           Sound(mtck[m]) /\ Live(mtck[m])
      /\ FlowInv /\ RouteInv /\ ReportOK
  BY DEF ReportInv, FlowInv, RouteInv, TypeInv, MachinesOK
<1>k. /\ D_MSG_REJECTED \in MsgTypes /\ D_MSG_TICKET \in MsgTypes
      /\ D_MSG_TICKET # D_MSG_REJECTED
      /\ Petents \subseteq MsgTypes /\ D_MSG_REJECTED \notin Petents
  BY SetsAssumption DEF MsgTypes, D_MSG_REJECTED, D_MSG_TICKET
<1>f. /\ UNCHANGED <<tck, pc, wpc, wtck, collected, ignoredEintr>>
      /\ \A n \in Machines \ {m} : mpc'[n] = mpc[n] /\ mtck'[n] = mtck[n]
      /\ \/ MachineIdles(m) \/ MachineTakes(m) \/ MachineDecides(m)
         \/ MachineAnswers(m) \/ MachineTells(m)
  BY <1>t, MachineMail
<1>d. \A q \in Petents : Done(q) => Done(q)'
  BY <1>t, MachineDone
<1>e. /\ Table' = Table
      /\ \A n \in Machines \ {m} : MachineReports(n)' = MachineReports(n)
      /\ \A w \in Workers : ClerkReports(w)' = ClerkReports(w)
  BY <1>f DEF Table, MachineReports, ClerkReports
<1>1. CASE ~MachineTells(m)
  <2>1. msgs'[D_MSG_REJECTED] = msgs[D_MSG_REJECTED]
    <3>1. CASE UNCHANGED msgs
      BY <3>1
    <3>2. CASE Receive(D_MSG_TICKET)
      BY <1>t, <1>k, <3>2, ReceiveQueued
    <3>3. CASE MachineAnswers(m)
      <4>1. /\ mtck[m].requester \in Petents
            /\ MachineAnswer(mtck[m], mstatus[m]) \in Tickets
        BY <1>t, <3>3, MachineAnswerOK
           DEF MachineAnswers, RouteInv, TypeInv, MachinesOK, Sound
      <4> QED BY <1>t, <1>k, <3>3, <4>1, SendQueued DEF MachineAnswers
    <3> QED
      BY <1>1, <1>f, <3>1, <3>2, <3>3
         DEF MachineIdles, MachineTakes, MachineDecides
  <2>2. OneEach'
    BY <1>f, <2>1 DEF ReportInv, OneEach, Single
  <2>3. Queued(D_MSG_REJECTED)' = Queued(D_MSG_REJECTED)
    BY <2>1 DEF Queued
  <2>4. CASE MachineReports(m)' \subseteq MachineReports(m)
    <3>1. Silent
      BY <1>e, <2>3, <2>4, TellerCases DEF Silent
    <3> QED BY <1>d, <1>t, <2>2, <3>1, SilentReport
  <2>5. CASE MachineAnswers(m) /\ mstatus[m] = -1
    <3>1. PICK p \in Petents : p = mtck[m].requester
      BY <1>t, <2>5 DEF MachineAnswers, Sound
    <3>2. /\ mpc[m] = "reply" /\ mpc'[m] = "report" /\ mtck'[m] = mtck[m]
          /\ Send(p, MachineAnswer(mtck[m], mstatus[m]))
          /\ MachineAnswer(mtck[m], mstatus[m]) \in Tickets
      BY <1>t, <2>5, <3>1, MachineAnswerOK DEF MachineAnswers, Sound
    <3>3. PICK u \in Tickets : Send(p, u) /\ u.ticketid = -1
      <4>1. MachineAnswer(mtck[m], mstatus[m]).ticketid = -1
        BY <1>t, <2>5 DEF MachineAnswer, Tickets
      <4> QED BY <3>2, <4>1
    <3>4. ~RefusalKnown(p)
      BY <3>1, <3>2, <1>t DEF ReportOK, KnownDone, Done, Over, Asked
    <3>5. \A x \in Tellers : p \notin Tells(x)
      BY <3>4, KnownTells
    <3>6. MachineReports(m)' = {p} /\ MachineReports(m) = {}
      BY <3>1, <3>2 DEF MachineReports
    <3>7. TellsTo(p, <<"machine", m>>)
      BY <1>e, <2>3, <3>5, <3>6, TellersOf, TellerCases DEF TellsTo
    <3>8. <<"machine", m>> \in Spots /\ p \in Carried(<<"machine", m>>)
      BY <3>1, <3>2, SpotsOf DEF AtMachine, Asked
    <3>9. Over(p)'
      <4>1. /\ \A k \in RequestTypes : p \notin Queued(k)
            /\ pc[p] \notin Early \cup AskForOne \cup {"queue", "send"}
            /\ Letter(p) = {}
            /\ \A n \in Machines \ {m} : mpc[n] \in Asked => mtck[n].requester # p
            /\ \A w \in Workers : wpc[w] \in Working => wtck[w].requester # p
        BY <1>t, <3>8, Alone, RequestsUnderway
      <4>2. /\ Letter(p)' = {u}
            /\ \A k \in RequestTypes : Queued(k)' = Queued(k)
        BY <1>t, <1>k, <3>3, <4>1, SendLetter, SendQueued, RequestTypesIn,
           PetentTypesIn
      <4>3. \A n \in Machines : mpc'[n] \in Asked => mtck'[n].requester # p
        BY <1>f, <3>2, <4>1 DEF Asked
      <4> QED BY <1>f, <3>3, <4>1, <4>2, <4>3 DEF Over
    <3>10. RefusedIn(p)'
      <4>1. u \in Letter(p)'
        BY <1>t, <1>k, <3>3, SendLetter
      <4> QED BY <3>3, <4>1 DEF RefusedIn
    <3>11. Done(p)'
      BY <3>9, <3>10 DEF Done, Back
    <3> QED BY <1>d, <1>t, <2>2, <3>7, <3>11, OneReport
  <2>6. \/ MachineReports(m)' \subseteq MachineReports(m)
        \/ MachineAnswers(m) /\ mstatus[m] = -1
    BY <1>1, <1>f DEF MachineIdles, MachineTakes, MachineDecides, MachineAnswers,
       MachineReports
  <2> QED BY <2>4, <2>5, <2>6
<1>2. CASE MachineTells(m)
  <2>1. PICK p \in Petents, t \in Tickets :
          /\ p = mtck[m].requester /\ t.requester = p /\ Send(D_MSG_REJECTED, t)
    <3> DEFINE t == [mtck[m] EXCEPT !.queueid = 1]
    <3>1. mtck[m].requester \in Petents /\ t \in Tickets
          /\ t.requester = mtck[m].requester
      BY <1>t, <1>2 DEF MachineTells, Sound, Tickets, D_MSG_TICKET
    <3> QED BY <1>2, <3>1 DEF MachineTells
  <2>2. /\ MachineReports(m) = {p} /\ MachineReports(m)' = {}
    BY <1>2, <2>1 DEF MachineTells, MachineReports
  <2>3. \A x \in Tellers \ {<<"machine", m>>} : p \notin Tells(x)
    <3>1. <<"machine", m>> \in Tellers /\ p \in Tells(<<"machine", m>>)
      BY <2>2, TellersOf
    <3> QED BY <1>t, <3>1 DEF ReportOK, ToldOnce
  <2>4. /\ Queued(D_MSG_REJECTED)' = Queued(D_MSG_REJECTED) \cup {p}
        /\ Single(D_MSG_REJECTED)'
    BY <1>t, <1>k, <2>1, <2>3, TellersOf, SendQueued DEF ReportInv, OneEach
  <2>5. TellsTo(p, <<"mail", 0>>)
    BY <1>e, <2>2, <2>3, <2>4, TellersOf, TellerCases DEF TellsTo
  <2>6. RefusalKnown(p)
    BY <2>2, TellersOf, KnownTells
  <2>7. OneEach'
    BY <1>f, <2>4 DEF ReportInv, OneEach
  <2> QED BY <1>d, <1>t, <2>5, <2>6, <2>7, OneReport
<1> QED BY <1>1, <1>2

\* So is a clerk, which at closing time tells first and answers then.
LEMMA WorkerReported ==
  ASSUME NEW w \in Workers, WorkerStep(w), ReportInv
  PROVE  ReportOK' /\ OneEach'
<1>t. /\ MsgsOK /\ wtck \in [Workers -> Tickets]
      /\ wpc[w] \in Holding => Sound(wtck[w])
      /\ wpc[w] = "reply" => Sound(wout[w]) /\ wout[w].requester = wtck[w].requester
      /\ FlowInv /\ RouteInv /\ ReportOK /\ ReportsOwn
  BY DEF ReportInv, RefusalInv, FlowInv, RouteInv, TypeInv, WorkersOK,
         WorkersRouted, WorkerRouted
<1>k. /\ D_MSG_REJECTED \in MsgTypes
      /\ \A k \in WorkerMsgTypes : k \in MsgTypes /\ k # D_MSG_REJECTED
      /\ Petents \subseteq MsgTypes /\ D_MSG_REJECTED \notin Petents
  BY SetsAssumption, RejectedNoRequest
     DEF MsgTypes, RequestTypes, D_MSG_REJECTED
<1>f. /\ UNCHANGED <<tck, pc, mpc, mtck, collected, ignoredEintr>>
      /\ \A v \in Workers \ {w} : wpc'[v] = wpc[v] /\ wtck'[v] = wtck[v]
      /\ \/ WorkerIdles(w) \/ WorkerTakes(w) \/ WorkerDeals(w)
         \/ WorkerNumbers(w) \/ WorkerAnswers(w) \/ WorkerTells(w)
         \/ WorkerTurnsAway(w)
  BY <1>t, WorkerMail
<1>d. \A q \in Petents : Done(q) => Done(q)'
  BY <1>t, WorkerDone
<1>e. /\ Table' = Table
      /\ \A m \in Machines : MachineReports(m)' = MachineReports(m)
      /\ \A v \in Workers \ {w} : ClerkReports(v)' = ClerkReports(v)
  BY <1>f DEF Table, MachineReports, ClerkReports
\* What is under way for the petent of the ticket in the clerk's hands.
<1>a. ASSUME NEW p \in Petents, p = wtck[w].requester, wpc[w] \in Working
      PROVE  /\ \A k \in RequestTypes : p \notin Queued(k)
             /\ pc[p] \notin Early \cup AskForOne \cup {"queue", "send"}
             /\ Letter(p) = {}
             /\ \A m \in Machines : mpc[m] \in Asked => mtck[m].requester # p
             /\ \A v \in Workers \ {w} : wpc[v] \in Working => wtck[v].requester # p
  <2>1. <<"clerk", w>> \in Spots /\ p \in Carried(<<"clerk", w>>)
    BY <1>a, SpotsOf DEF AtClerk
  <2> QED BY <1>t, <2>1, Alone, RequestsUnderway
<1>1. CASE ~WorkerTells(w)
  <2>1. msgs'[D_MSG_REJECTED] = msgs[D_MSG_REJECTED]
    <3>1. CASE UNCHANGED msgs
      BY <3>1
    <3>2. CASE WorkerTakes(w)
      BY <1>t, <1>k, <3>2, WorkerQueue, ReceiveQueued DEF WorkerTakes
    <3>3. CASE WorkerAnswers(w)
      BY <1>t, <1>k, <3>3, SendQueued DEF WorkerAnswers, Sound
    <3>4. CASE WorkerTurnsAway(w)
      <4> DEFINE u == [wtck[w] EXCEPT !.ticketid = -1, !.queueid = -1]
      <4>1. wtck[w].requester \in Petents /\ u \in Tickets
        BY <1>t, <3>4 DEF WorkerTurnsAway, Sound, Holding, Tickets
      <4> QED BY <1>t, <1>k, <3>4, <4>1, SendQueued DEF WorkerTurnsAway
    <3> QED
      BY <1>1, <1>f, <3>1, <3>2, <3>3, <3>4
         DEF WorkerIdles, WorkerDeals, WorkerNumbers
  <2>2. OneEach'
    BY <1>f, <2>1 DEF ReportInv, OneEach, Single
  <2>3. Queued(D_MSG_REJECTED)' = Queued(D_MSG_REJECTED)
    BY <2>1 DEF Queued
  <2>4. CASE ClerkReports(w)' \subseteq ClerkReports(w)
    <3>1. Silent
      BY <1>e, <2>3, <2>4, TellerCases DEF Silent
    <3> QED BY <1>d, <1>t, <2>2, <3>1, SilentReport
  <2>5. CASE WorkerAnswers(w) /\ wout[w].ticketid = -1
    <3>1. PICK p \in Petents, u \in Tickets :
            /\ p = wtck[w].requester /\ Send(p, u) /\ u.ticketid = -1
      BY <1>t, <2>5 DEF WorkerAnswers, Sound
    <3>2. wpc[w] = "reply" /\ wpc'[w] = "report" /\ wtck'[w] = wtck[w]
      BY <2>5 DEF WorkerAnswers, AfterReply
    <3>3. wpc[w] \in Working \ {"drainReply"}
      BY <3>2 DEF Working
    <3>4. ~RefusalKnown(p)
      BY <1>t, <3>1, <3>3 DEF ReportOK, KnownDone, Done, Over
    <3>5. \A x \in Tellers : p \notin Tells(x)
      BY <3>4, KnownTells
    <3>6. ClerkReports(w)' = {p} /\ ClerkReports(w) = {}
      BY <3>1, <3>2 DEF ClerkReports
    <3>7. TellsTo(p, <<"clerk", w>>)
      BY <1>e, <2>3, <3>5, <3>6, TellersOf, TellerCases DEF TellsTo
    <3>8. Over(p)'
      <4>1. /\ Letter(p)' = {u}
            /\ \A k \in RequestTypes : Queued(k)' = Queued(k)
        BY <1>a, <1>t, <1>k, <3>1, <3>3, SendLetter, SendQueued, RequestTypesIn,
           PetentTypesIn
      <4>2. \A v \in Workers : wpc'[v] \in Working \ {"drainReply"} =>
                                 wtck'[v].requester # p
        BY <1>a, <1>f, <3>1, <3>2, <3>3 DEF Working
      <4> QED BY <1>a, <1>f, <3>1, <3>3, <4>1, <4>2 DEF Over
    <3>9. RefusedIn(p)'
      <4>1. u \in Letter(p)'
        BY <1>t, <1>k, <3>1, SendLetter
      <4> QED BY <3>1, <4>1 DEF RefusedIn
    <3>10. Done(p)'
      BY <3>8, <3>9 DEF Done, Back
    <3> QED BY <1>d, <1>t, <2>2, <3>7, <3>10, OneReport
  <2>6. \/ ClerkReports(w)' \subseteq ClerkReports(w)
        \/ WorkerAnswers(w) /\ wout[w].ticketid = -1
    BY <1>1, <1>f DEF WorkerIdles, WorkerTakes, WorkerDeals, WorkerNumbers,
       WorkerAnswers, WorkerTurnsAway, AfterReply, ClerkReports, Holding
  <2> QED BY <2>4, <2>5, <2>6
<1>2. CASE WorkerTells(w)
  <2>1. PICK p \in Petents, t \in Tickets :
          /\ p = wtck[w].requester /\ t.requester = p /\ Send(D_MSG_REJECTED, t)
    <3>1. wtck[w].requester \in Petents
      BY <1>t, <1>2 DEF WorkerTells, Sound, Holding
    <3> QED BY <1>2, <3>1 DEF WorkerTells
  <2>2. ClerkReports(w)' = {}
    BY <1>2 DEF WorkerTells, ClerkReports
  <2>3. /\ Queued(D_MSG_REJECTED)' = Queued(D_MSG_REJECTED) \cup {p}
        /\ p \notin Queued(D_MSG_REJECTED) => Single(D_MSG_REJECTED)'
    BY <1>t, <1>k, <2>1, SendQueued DEF ReportInv, OneEach
  <2>4. CASE wpc[w] = "report"
    <3>1. <<"clerk", w>> \in Tellers /\ p \in Tells(<<"clerk", w>>)
          /\ Tells(<<"clerk", w>>) = {p}
      BY <2>1, <2>4, TellersOf DEF ClerkReports
    <3>2. \A x \in Tellers \ {<<"clerk", w>>} : p \notin Tells(x)
      BY <1>t, <3>1 DEF ReportOK, ToldOnce
    <3>3. p \notin Queued(D_MSG_REJECTED)
      BY <3>2, TellersOf
    <3>4. TellsTo(p, <<"mail", 0>>)
      BY <1>e, <2>2, <2>3, <3>1, <3>2, TellersOf, TellerCases DEF TellsTo
    <3>5. RefusalKnown(p)
      BY <3>1, KnownTells
    <3>6. OneEach'
      BY <1>f, <2>3, <3>3 DEF ReportInv, OneEach
    <3> QED BY <1>d, <1>t, <3>4, <3>5, <3>6, OneReport
  <2>5. CASE wpc[w] = "drainReport"
    <3>1. wpc'[w] = "drainReply" /\ wtck'[w] = wtck[w] /\ wpc[w] \in Working
          /\ wpc[w] \in Working \ {"drainReply"}
      BY <1>2, <2>5 DEF WorkerTells, Working
    <3>2. ~RefusalKnown(p)
      BY <1>t, <2>1, <3>1 DEF ReportOK, KnownDone, Done, Over
    <3>3. \A x \in Tellers : p \notin Tells(x)
      BY <3>2, KnownTells
    <3>4. TellsTo(p, <<"mail", 0>>)
      BY <1>e, <2>2, <2>3, <3>3, TellersOf, TellerCases DEF TellsTo
    <3>5. OneEach'
      BY <1>f, <2>3, <3>3, TellersOf DEF ReportInv, OneEach
    <3>6. Over(p)'
      <4>1. /\ Letter(p)' = Letter(p)
            /\ \A k \in RequestTypes : Queued(k)' = Queued(k)
        BY <1>t, <1>k, <2>1, SendLetter, SendQueued, RequestTypesIn,
           RejectedNoRequest
      <4>2. \A v \in Workers : wpc'[v] \in Working \ {"drainReply"} =>
                                 wtck'[v].requester # p
        BY <1>a, <1>f, <2>1, <3>1
      <4> QED BY <1>a, <1>f, <2>1, <3>1, <4>1, <4>2 DEF Over
    <3>7. Done(p)'
      BY <2>1, <3>1, <3>6 DEF Done, Back
    <3> QED BY <1>d, <1>t, <3>4, <3>5, <3>7, OneReport
  <2> QED BY <1>2, <2>4, <2>5 DEF WorkerTells
<1> QED BY <1>1, <1>2

\* A signal makes several clerks at once skip the answer that they report next.
LEMMA DirectorReported ==
  ASSUME DirectorStep, ReportInv
  PROVE  ReportOK' /\ OneEach'
<1>t. FlowInv /\ RouteInv /\ ReportOK
  BY DEF ReportInv, FlowInv
<1>f. /\ UNCHANGED <<msgs, tck, mpc, mtck, wtck>> /\ collected' = collected
      /\ \A w \in Workers : \/ wpc'[w] = wpc[w]
                            \/ wpc'[w] = AfterFailure(w) /\ ignoredEintr'
      /\ \A q \in Petents : pc'[q] = pc[q] \/ pc'[q] \in Parting \cup {"leave"}
  BY <1>t, DirectorMail
<1>d. \A q \in Petents : Done(q) => Done(q)'
  BY <1>t, DirectorDone
<1>1. OneEach'
  BY <1>f DEF ReportInv, OneEach, Single
<1> DEFINE Skips(w) == wpc[w] = "reply" /\ wpc'[w] = "report" /\ ignoredEintr'
<1>2. \A w \in Workers : \A q \in ClerkReports(w)' :
        q \in ClerkReports(w) \/ (Skips(w) /\ q = wtck[w].requester)
  BY <1>f DEF ClerkReports, AfterFailure, DrainLoop
<1>3. \A x \in Tellers : \A q \in Tells(x)' :
        \/ q \in Tells(x)
        \/ \E w \in Workers : /\ x = <<"clerk", w>> /\ Skips(w)
                              /\ q = wtck[w].requester
  <2> SUFFICES ASSUME NEW x \in Tellers, NEW q \in Tells(x)', q \notin Tells(x)
               PROVE  \E w \in Workers : /\ x = <<"clerk", w>> /\ Skips(w)
                                         /\ q = wtck[w].requester
    OBVIOUS
  <2>1. /\ Queued(D_MSG_REJECTED)' = Queued(D_MSG_REJECTED) /\ Table' = Table
        /\ \A m \in Machines : MachineReports(m)' = MachineReports(m)
    BY <1>f DEF Queued, Table, MachineReports
  <2> QED BY <1>2, <2>1, TellerCases
\* Of whom nothing was known, and nothing is under way.
<1>4. ASSUME NEW w \in Workers, Skips(w), NEW q, q = wtck[w].requester
      PROVE  /\ q \in Petents /\ ~RefusalKnown(q) /\ Over(q)'
             /\ \A v \in Workers \ {w} : Skips(v) => wtck[v].requester # q
  <2>1. wpc[w] \in Working \ {"drainReply"}
    BY <1>4 DEF Working
  <2>2. <<"clerk", w>> \in Spots /\ q \in Carried(<<"clerk", w>>)
    BY <1>4, <2>1, SpotsOf DEF AtClerk
  <2>3. /\ q \in Petents
        /\ \A k \in RequestTypes : q \notin Queued(k)
        /\ pc[q] \notin Early \cup AskForOne \cup {"queue", "send"}
        /\ Letter(q) = {}
        /\ \A m \in Machines : mpc[m] \in Asked => mtck[m].requester # q
        /\ \A v \in Workers \ {w} : wpc[v] \in Working => wtck[v].requester # q
    BY <1>t, <2>2, Alone, RequestsUnderway
  <2>4. ~RefusalKnown(q)
    BY <1>t, <1>4, <2>1, <2>3 DEF ReportOK, KnownDone, Done, Over
  <2>5. \A v \in Workers \ {w} : Skips(v) => wtck[v].requester # q
    BY <2>3 DEF Working
  <2>6. \A v \in Workers : wpc'[v] \in Working \ {"drainReply"} =>
                             wtck'[v].requester # q
    BY <1>f, <1>4, <2>3 DEF AfterFailure, AfterReply, DrainLoop, Working
  <2>7. pc'[q] \notin Early \cup AskForOne \cup {"queue", "send"}
    BY <1>f, <2>3 DEF Parting, Early, AskForOne
  <2> QED BY <1>f, <2>3, <2>4, <2>5, <2>6, <2>7 DEF Over, Queued, Letter
<1>5. KnownDone'
  <2> SUFFICES ASSUME NEW q \in Petents, RefusalKnown(q)' PROVE Done(q)'
    BY DEF KnownDone
  <2>1. CASE RefusalKnown(q)
    BY <1>d, <1>t, <2>1 DEF ReportOK, KnownDone
  <2>2. CASE \E w \in Workers : Skips(w) /\ q = wtck[w].requester
    BY <1>4, <2>2 DEF Done
  <2> QED BY <1>3, <2>1, <2>2, KnownTells
<1>6. ToldOnce'
  <2> SUFFICES ASSUME NEW x \in Tellers, NEW y \in Tellers, x # y,
                      NEW q, q \in Tells(x)', q \in Tells(y)'
               PROVE  FALSE
    BY DEF ToldOnce, Tellers
  <2>1. \/ q \in Tells(x)
        \/ \E w \in Workers : x = <<"clerk", w>> /\ Skips(w) /\ q = wtck[w].requester
    BY <1>3
  <2>2. \/ q \in Tells(y)
        \/ \E w \in Workers : y = <<"clerk", w>> /\ Skips(w) /\ q = wtck[w].requester
    BY <1>3
  <2>3. CASE q \in Tells(x) /\ q \in Tells(y)
    BY <1>t, <2>3 DEF ReportOK, ToldOnce
  <2>4. CASE RefusalKnown(q)
    BY <1>4, <2>1, <2>2, <2>3, <2>4
  <2>5. CASE ~RefusalKnown(q)
    <3>1. q \notin Tells(x) /\ q \notin Tells(y)
      BY <2>5, KnownTells
    <3>2. PICK w \in Workers : x = <<"clerk", w>> /\ Skips(w) /\ q = wtck[w].requester
      BY <2>1, <3>1
    <3>3. PICK v \in Workers : y = <<"clerk", v>> /\ Skips(v) /\ q = wtck[v].requester
      BY <2>2, <3>1
    <3> QED BY <1>4, <3>2, <3>3
  <2> QED BY <2>4, <2>5
<1> QED BY <1>1, <1>5, <1>6 DEF ReportOK

\* What the director has read is in his table and not in the queue any more.
LEMMA ThreadReported ==
  ASSUME ThreadStep, ReportInv
  PROVE  ReportOK' /\ OneEach'
<1>t. MsgsOK /\ ReportOK /\ D_MSG_REJECTED \in MsgTypes
  BY DEF ReportInv, FlowInv, RouteInv, TypeInv, MsgTypes
<1>f. UNCHANGED <<tck, pc, mpc, mtck, wpc, wtck, ignoredEintr>>
  BY DEF ThreadStep, ThreadReceive, ThreadStop, petentVars, machineVars,
         workerVars, semVars, lockVars
<1>e. /\ \A m \in Machines : MachineReports(m)' = MachineReports(m)
      /\ \A w \in Workers : ClerkReports(w)' = ClerkReports(w)
  BY <1>f DEF MachineReports, ClerkReports
<1>1. CASE ThreadStop
  <2>1. UNCHANGED <<msgs, collected>>
    BY <1>1 DEF ThreadStop
  <2>2. Silent /\ OneEach'
    BY <1>e, <2>1, TellerCases
       DEF Silent, Queued, Table, ReportInv, OneEach, Single
  <2>3. \A q \in Petents : Done(q) => Done(q)'
    BY <1>f, <2>1 DEF Done, Over, Back, RefusedIn, Queued, Letter
  <2> QED BY <1>t, <2>2, <2>3, SilentReport
<1>2. CASE ThreadReceive
  <2>1. PICK t \in Tickets :
          /\ t = Head(msgs[D_MSG_REJECTED]) /\ collected' = collected \cup {t}
          /\ Receive(D_MSG_REJECTED)
    BY <1>2, <1>t, MsgsTyped DEF ThreadReceive, Receive, Pending
  <2>2. PICK p : p = t.requester
    OBVIOUS
  <2>3. /\ p \in Queued(D_MSG_REJECTED)
        /\ Queued(D_MSG_REJECTED)' = Queued(D_MSG_REJECTED) \ {p}
        /\ Single(D_MSG_REJECTED)'
    BY <1>t, <2>1, <2>2, ReceiveQueued DEF ReportInv, OneEach
  <2>4. Table' = Table \cup {p}
    BY <2>1, <2>2 DEF Table
  <2>5. \A x \in Tellers \ {<<"mail", 0>>} : p \notin Tells(x)
    <3>1. <<"mail", 0>> \in Tellers /\ p \in Tells(<<"mail", 0>>)
      BY <2>3, TellersOf
    <3> QED BY <1>t, <3>1 DEF ReportOK, ToldOnce
  <2>6. p \notin Table
    BY <2>5, TellersOf
  <2>7. OneEach'
    BY <2>1, <2>2, <2>3, <2>6 DEF ReportInv, OneEach, Table
  <2>8. TellsTo(p, <<"table", 0>>)
    BY <1>e, <2>3, <2>4, <2>5, TellersOf, TellerCases DEF TellsTo
  <2>9. RefusalKnown(p)
    BY <2>3, TellersOf, KnownTells
  <2>10. \A j \in MsgTypes \ {D_MSG_REJECTED} :
           Letter(j)' = Letter(j) /\ Queued(j)' = Queued(j)
    BY <1>t, <2>1, ReceiveLetter, ReceiveQueued
  <2>11. ASSUME NEW q \in Petents, Done(q) PROVE Done(q)'
    <3>1. Letter(q)' = Letter(q) /\ \A k \in RequestTypes : Queued(k)' = Queued(k)
      BY <2>10, PetentTypesIn, RequestTypesIn, RejectedNoRequest, SetsAssumption
         DEF D_MSG_REJECTED
    <3> QED BY <1>f, <2>11, <3>1 DEF Done, Over, Back, RefusedIn
  <2> QED BY <1>t, <2>7, <2>8, <2>9, <2>11, OneReport
<1> QED BY <1>1, <1>2 DEF ThreadStep

LEMMA ReportInit == Init => ReportInv
<1> SUFFICES ASSUME Init PROVE ReportInv
  OBVIOUS
<1>1. FlowInv /\ RefusalInv
  BY FlowInit, RefusalInit
<1>2. D_MSG_REJECTED \in MsgTypes
  BY DEF MsgTypes
<1>3. \A x \in Tellers : Tells(x) = {}
  <2>1. Queued(D_MSG_REJECTED) = {} /\ Table = {}
    BY <1>2 DEF Init, Queued, Table
  <2>2. /\ \A m \in Machines : MachineReports(m) = {}
        /\ \A w \in Workers : ClerkReports(w) = {}
    BY DEF Init, MachineReports, ClerkReports
  <2> QED BY <2>1, <2>2, TellerCases
<1>4. KnownDone /\ ToldOnce
  BY <1>3, KnownTells DEF KnownDone, ToldOnce
<1>5. OneEach
  BY <1>2 DEF Init, OneEach, Single
<1> QED BY <1>1, <1>4, <1>5 DEF ReportInv, ReportOK

LEMMA ReportStep == ReportInv /\ [Next]_vars => ReportInv'
<1> SUFFICES ASSUME ReportInv, [Next]_vars PROVE ReportInv'
  OBVIOUS
<1>0. FlowInv' /\ RefusalInv' /\ RouteInv'
  BY FlowStep, RefusalStep DEF ReportInv, FlowInv
<1> SUFFICES ReportOK' /\ OneEach'
  BY <1>0 DEF ReportInv
<1>1. CASE \E p \in Petents : PetentStep(p)
  BY <1>0, <1>1, PetentReported
<1>2. CASE \E m \in Machines : MachineStep(m)
  BY <1>2, MachineReported
<1>3. CASE \E w \in Workers : WorkerStep(w)
  BY <1>3, WorkerReported
<1>4. CASE DirectorStep
  BY <1>4, DirectorReported
<1>5. CASE ThreadStep
  BY <1>5, ThreadReported
<1>6. CASE RemoveIpc \/ UNCHANGED vars
  <2>1. UNCHANGED <<msgs, petentVars, machineVars, workerVars, collected,
                    ignoredEintr>>
    BY <1>6 DEF RemoveIpc, vars, semVars, lockVars, directorVars
  <2>2. Silent /\ OneEach'
    BY <2>1, TellerCases
       DEF Silent, Queued, Table, MachineReports, ClerkReports, machineVars,
           workerVars, ReportInv, OneEach, Single
  <2>3. \A q \in Petents : Done(q) => Done(q)'
    BY <2>1 DEF Done, Over, Back, RefusedIn, Queued, Letter, petentVars,
       machineVars, workerVars
  <2> QED BY <2>2, <2>3, SilentReport DEF ReportInv
<1> QED BY <1>1, <1>2, <1>3, <1>4, <1>5, <1>6 DEF Next, Rest

\* No refusal is written twice, in the hands of a machine or a clerk, in the
\* director's part of the queue or in his table, for any number of processes:
\* what would be counted again is over before it is told the first time.
THEOREM Once == Spec => []ReportedOnce
<1>1. ReportInv => ReportedOnce
  <2> SUFFICES ASSUME ReportInv, NEW p \in Petents
               PROVE  TimesReported(p) <= 1
    BY DEF ReportedOnce
  <2>0. OneEach /\ ToldOnce
    BY DEF ReportInv, ReportOK
  <2> DEFINE A == {i \in 1..Len(msgs[D_MSG_REJECTED]) :
                     msgs[D_MSG_REJECTED][i].requester = p}
             B == {t \in collected : t.requester = p}
             C == {m \in Machines : mpc[m] = "report" /\ mtck[m].requester = p}
             D == {w \in Workers : wpc[w] = "report" /\ wtck[w].requester = p}
  <2>1. TimesReported(p)
          = Cardinality(A) + Cardinality(B) + Cardinality(C) + Cardinality(D)
    BY DEF TimesReported
  <2>a. A # {} => p \in Tells(<<"mail", 0>>)
    BY TellersOf DEF Queued
  <2>b. B # {} => p \in Tells(<<"table", 0>>)
    BY TellersOf DEF Table
  <2>c. \A m \in C : /\ m \in Machines /\ <<"machine", m>> \in Tellers
                     /\ p \in Tells(<<"machine", m>>)
    BY TellersOf DEF MachineReports
  <2>d. \A w \in D : /\ w \in Workers /\ <<"clerk", w>> \in Tellers
                     /\ p \in Tells(<<"clerk", w>>)
    BY TellersOf DEF ClerkReports
  <2>2. Cardinality(A) = IF A = {} THEN 0 ELSE 1
    <3>1. \A i, j \in A : i = j
      BY <2>0 DEF OneEach, Single
    <3> HIDE DEF A
    <3> QED BY <3>1, AtMostOne
  <2>3. Cardinality(B) = IF B = {} THEN 0 ELSE 1
    <3>1. \A t, u \in B : t = u
      BY <2>0 DEF OneEach
    <3> HIDE DEF B
    <3> QED BY <3>1, AtMostOne
  <2>4. Cardinality(C) = IF C = {} THEN 0 ELSE 1
    <3>1. ASSUME NEW m \in C, NEW n \in C PROVE m = n
      <4>1. <<"machine", m>> # <<"machine", n>> => FALSE
        BY <2>0, <2>c DEF ToldOnce
      <4> QED BY <4>1
    <3> HIDE DEF C
    <3> QED BY <3>1, AtMostOne
  <2>5. Cardinality(D) = IF D = {} THEN 0 ELSE 1
    <3>1. ASSUME NEW w \in D, NEW v \in D PROVE w = v
      <4>1. <<"clerk", w>> # <<"clerk", v>> => FALSE
        BY <2>0, <2>d DEF ToldOnce
      <4> QED BY <4>1
    <3> HIDE DEF D
    <3> QED BY <3>1, AtMostOne
  <2>6. /\ A = {} \/ B = {}
        /\ A = {} \/ C = {}
        /\ B = {} \/ C = {}
    <3> HIDE DEF A, B, C
    <3>1. <<"mail", 0>> \in Tellers /\ <<"table", 0>> \in Tellers
      BY TellersOf
    <3>2. /\ <<"mail", 0>> # <<"table", 0>>
          /\ \A m : <<"mail", 0>> # <<"machine", m>> /\ <<"table", 0>> # <<"machine", m>>
      OBVIOUS
    <3> QED BY <2>0, <2>a, <2>b, <2>c, <3>1, <3>2 DEF ToldOnce
  <2>7. /\ A = {} \/ D = {}
        /\ B = {} \/ D = {}
        /\ C = {} \/ D = {}
    <3> HIDE DEF A, B, C, D
    <3>1. <<"mail", 0>> \in Tellers /\ <<"table", 0>> \in Tellers
      BY TellersOf
    <3>2. \A w : /\ <<"mail", 0>> # <<"clerk", w>> /\ <<"table", 0>> # <<"clerk", w>>
                 /\ \A m : <<"machine", m>> # <<"clerk", w>>
      OBVIOUS
    <3> QED BY <2>0, <2>a, <2>b, <2>c, <2>d, <3>1, <3>2 DEF ToldOnce
  <2> HIDE DEF A, B, C, D
  <2> QED BY <2>1, <2>2, <2>3, <2>4, <2>5, <2>6, <2>7
<1> QED BY ReportInit, ReportStep, <1>1, PTL DEF Spec

\* Who is in the report, or about to be, has been refused and reads so, whatever
\* machines and clerks do at the same time, unless signal 1 takes the answer.
THEOREM OnlyRefused == Spec => []ReportTrue
<1>1. ReportInv => ReportTrue
  <2> SUFFICES ASSUME ReportInv, ~ignoredEintr, NEW p \in Petents, RefusalKnown(p)
               PROVE  \/ tck[p].ticketid = -1
                      \/ \E i \in 1..Len(msgs[p]) : msgs[p][i].ticketid = -1
                      \/ \E w \in Workers : /\ wpc[w] = "drainReply"
                                            /\ wtck[w].requester = p
    BY DEF ReportTrue
  <2>1. Back(p)
    BY DEF ReportInv, ReportOK, KnownDone, Done
  <2> QED BY <2>1 DEF Back, RefusedIn, Letter
<1> QED BY ReportInit, ReportStep, <1>1, PTL DEF Spec
===============================================================================
