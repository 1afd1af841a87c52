----------------------------- MODULE Rejestracja -----------------------------
(***************************************************************************)
(* A ticket machine, rejestracja.c. It opens and closes itself by the      *)
(* number of petents waiting for a machine, polls the requests, takes the  *)
(* ticket off the daily limit, answers the petent and, on a refusal, tells *)
(* the director.                                                           *)
(***************************************************************************)
EXTENDS StanUrzedu

MachineLabels ==
  {"opened", "inOpened", "check", "poll", "serve", "reply", "report",
   "lockCheck", "done"}

\* The machine answers and reports with semlock held.
MachineHoldsLock(m) == mpc[m] \in {"reply", "report"}

MGoto(m, l) == mpc' = [mpc EXCEPT ![m] = l]

\* Slip: machines counted from one.
count_diff_from_one(m) == (m + 1) * (BuildingMax \div TicketMachineCount)

count_diff(m) == m * (BuildingMax \div TicketMachineCount)

\* What GETNCNT on the semaphore tickets may return: some of the petents about
\* to lock it may not have made the call yet.
TicketQueueLengths ==
  IF tickets > 0 THEN {0}
  ELSE 0..Cardinality({p \in Petents : pc[p] = "tickets"})

MachineLockOpened(m) ==
  /\ mpc[m] = "opened" /\ opened > 0
  /\ opened' = opened - 1
  /\ MGoto(m, "inOpened")
  /\ UNCHANGED <<shmVars, lockVars, configured, building, lineVars, limitVars,
                 msgs, mopen, mtck, mstatus, notMachines, history>>

\* The read of is_opened that follows is repeated at the head of the loop.
MachineUnlockOpened(m) ==
  /\ mpc[m] = "inOpened"
  /\ opened' = opened + 1
  /\ MGoto(m, "check")
  /\ UNCHANGED <<shmVars, lockVars, configured, building, lineVars, limitVars,
                 msgs, mopen, mtck, mstatus, notMachines, history>>

\* Head of both loops: the queue length, is_opened, then open, close or work. The
\* exit on a length that cannot be read is left out: the semaphores are removed
\* when the machines have ended.
MachineCheck(m) ==
  /\ mpc[m] = "check" /\ Critical
  /\ \/ /\ ~is_opened
        /\ mopen' = [mopen EXCEPT ![m] = FALSE]
        /\ MGoto(m, "done")
     \/ /\ is_opened
        /\ \E tqueue \in TicketQueueLengths :
             /\ mopen' = [mopen EXCEPT ![m] = tqueue >= count_diff(m)]
             /\ MGoto(m, IF mopen[m] /\ tqueue >= count_diff(m)
                           THEN "poll" ELSE "check")
  /\ UNCHANGED <<shmVars, semVars, msgs, mtck, mstatus, notMachines, history>>

\* msgrcv with IPC_NOWAIT.
MachinePoll(m) ==
  /\ mpc[m] = "poll"
  /\ \/ /\ Receive(D_MSG_TICKET)
        /\ mtck' = [mtck EXCEPT ![m] = Head(msgs[D_MSG_TICKET])]
        /\ MGoto(m, "serve")
     \/ /\ ~Pending(D_MSG_TICKET)
        /\ MGoto(m, "lockCheck")
        /\ UNCHANGED <<msgs, mtck>>
  /\ UNCHANGED <<shmVars, semVars, mopen, mstatus, notMachines, history>>

\* Slip: the result of semop is not looked at.
TakeUnchecked(f, status) ==
  /\ status = 0
  /\ IF f # FACULTY_SA
       THEN /\ limit' = [limit EXCEPT ![f] = IF @ > 0 THEN @ - 1 ELSE 0]
            /\ UNCHANGED saLimit
       ELSE \E s \in 1..2 :
              /\ saLimit' = [saLimit EXCEPT ![s] = IF @ > 0 THEN @ - 1 ELSE 0]
              /\ UNCHANGED limit

\* semop(-1, IPC_NOWAIT) on the limit of f: 0 and one less, or -1. For SA one
\* of the two counters, drawn at random, and the other when it is at 0.
TakeFromLimit(f, status) ==
  IF f # FACULTY_SA
    THEN /\ status = (IF limit[f] > 0 THEN 0 ELSE -1)
         /\ limit' = [limit EXCEPT ![f] = @ + (IF status = 0 THEN -1 ELSE 0)]
         /\ UNCHANGED saLimit
    ELSE \E s \in 1..2 :
           LET c == IF saLimit[s] > 0 THEN s ELSE 3 - s IN
           /\ status = (IF saLimit[c] > 0 THEN 0 ELSE -1)
           /\ saLimit' = [saLimit EXCEPT ![c] =
                            @ + (IF status = 0 THEN -1 ELSE 0)]
           /\ UNCHANGED limit

\* Locks semlock and keeps it until the answer, and the report, are sent.
MachineServe(m) ==
  LET f == mtck[m].facultytype IN
  /\ mpc[m] = "serve" /\ TakeLock
  /\ \E status \in {0, -1} :
       /\ TakeFromLimit(f, status)
       /\ mstatus' = [mstatus EXCEPT ![m] = status]
       /\ issued' = IF status = 0
                      THEN [issued EXCEPT ![f] = @ \cup {mtck[m].requester}]
                      ELSE issued
  /\ MGoto(m, "reply")
  /\ UNCHANGED <<shmVars, doorVars, lineVars, msgs, mopen, mtck, notMachines,
                 queuedAtClose>>

\* Slip: the faculty times the offset.
MachineAnswerScaled(t, status) ==
  [t EXCEPT !.ticketid = IF status = 0 THEN 1 ELSE -1,
            !.queueid = t.facultytype * D_MSG_WORKER_OFFSET]

\* redirected_from still holds petent.vip here: 1 sends it to the priority
\* queue of the clerk, any other value to the normal one.
MachineAnswer(t, status) ==
  [t EXCEPT !.ticketid = IF status = 0 THEN 1 ELSE -1,
            !.queueid = t.facultytype +
                          (IF t.redirected_from = 1
                             THEN D_MSG_WORKER_PRIORITY_OFFSET
                             ELSE D_MSG_WORKER_OFFSET)]

MachineReply(m) ==
  /\ mpc[m] = "reply"
  /\ Send(mtck[m].requester, MachineAnswer(mtck[m], mstatus[m]))
  /\ \/ /\ mstatus[m] = 0
        /\ GiveLock
        /\ mtck' = [mtck EXCEPT ![m] = NoTicket]
        /\ MGoto(m, "lockCheck")
     \/ /\ mstatus[m] = -1
        /\ MGoto(m, "report")
        /\ UNCHANGED <<lockVars, mtck>>
  /\ mstatus' = [mstatus EXCEPT ![m] = 0]
  /\ UNCHANGED <<shmVars, doorVars, lineVars, limitVars, mopen, notMachines,
                 history>>

\* The ticket as it was requested, queueid 1, to the director.
MachineReport(m) ==
  /\ mpc[m] = "report"
  /\ Send(D_MSG_REJECTED, [mtck[m] EXCEPT !.queueid = 1])
  /\ GiveLock
  /\ mtck' = [mtck EXCEPT ![m] = NoTicket]
  /\ MGoto(m, "lockCheck")
  /\ UNCHANGED <<shmVars, doorVars, lineVars, limitVars, mopen, mstatus,
                 notMachines, history>>

MachineLockCheck(m) ==
  /\ mpc[m] = "lockCheck" /\ Critical
  /\ LockIfExhausted
  /\ MGoto(m, "check")
  /\ UNCHANGED <<is_opened, petent_pids, lockVars, configured, opened, lineVars,
                 limitVars, msgs, mopen, mtck, mstatus, notMachines, history>>

MachineStep(m) ==
  \/ MachineLockOpened(m) \/ MachineUnlockOpened(m) \/ MachineCheck(m)
  \/ MachinePoll(m) \/ MachineServe(m) \/ MachineReply(m) \/ MachineReport(m)
  \/ MachineLockCheck(m)
===============================================================================
