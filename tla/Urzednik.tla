------------------------------- MODULE Urzednik -------------------------------
(***************************************************************************)
(* A clerk, urzednik.c: an SA clerk, a clerk of another faculty or the     *)
(* cashier. It polls its priority queue, then its normal queue, settles    *)
(* the matter or sends the petent on, and after closing or signal 1 turns  *)
(* away whoever has written to it.                                         *)
(***************************************************************************)
EXTENDS StanUrzedu

WorkerLabels ==
  {"opened", "inOpened", "check", "pollPrio", "poll", "serve", "number",
   "reply", "report", "lockCheck", "drainPrio", "drain", "drainReport",
   "drainReply", "done"}

WGoto(w, l) == wpc' = [wpc EXCEPT ![w] = l]

PriorityType(w) == WorkerType[w] + D_MSG_WORKER_PRIORITY_OFFSET
NormalType(w)   == WorkerType[w] + D_MSG_WORKER_OFFSET

\* The mtype of the queue to f: who came in by the priority queue goes on so.
Forward(w, f) == f + (IF wvip[w] THEN D_MSG_WORKER_PRIORITY_OFFSET
                                 ELSE D_MSG_WORKER_OFFSET)

WorkerLockOpened(w) ==
  /\ wpc[w] = "opened" /\ opened > 0
  /\ opened' = opened - 1
  /\ WGoto(w, "inOpened")
  /\ UNCHANGED <<shmVars, lockVars, configured, building, lineVars, limitVars,
                 msgs, sig1, wtck, wout, wvip, notWorkers, history>>

WorkerUnlockOpened(w) ==
  /\ wpc[w] = "inOpened"
  /\ opened' = opened + 1
  /\ WGoto(w, "check")
  /\ UNCHANGED <<shmVars, lockVars, configured, building, lineVars, limitVars,
                 msgs, sig1, wtck, wout, wvip, notWorkers, history>>

\* Slips: only signal 1 ends the day; the flag of signal 1 is not looked at.
WorkerCheckSignal(w) ==
  /\ wpc[w] = "check" /\ WGoto(w, IF sig1[w] THEN "drainPrio" ELSE "pollPrio")
  /\ UNCHANGED <<shmVars, semVars, msgs, sig1, wtck, wout, wvip, notWorkers,
                 history>>
WorkerCheckDeaf(w) ==
  /\ wpc[w] = "check" /\ Section(w)
  /\ WGoto(w, IF is_opened THEN "pollPrio" ELSE "drainPrio")
  /\ UNCHANGED <<shmVars, doorVars, lineVars, limitVars, msgs, sig1, wtck, wout,
                 wvip, notWorkers, history>>

\* Head of the loop: signal 1, or a closed office, ends the day; so does a
\* signal that interrupts the wait for semlock, once the section is over.
WorkerCheck(w) ==
  /\ wpc[w] = "check"
  /\ \/ /\ sig1[w] /\ w \notin unlocked
        /\ WGoto(w, "drainPrio") /\ UNCHANGED lockVars
     \/ /\ ~sig1[w] \/ w \in unlocked
        /\ Section(w)
        /\ WGoto(w, IF is_opened /\ ~sig1[w] THEN "pollPrio" ELSE "drainPrio")
  /\ UNCHANGED <<shmVars, doorVars, lineVars, limitVars, msgs, sig1, wtck, wout,
                 wvip, notWorkers, history>>

\* msgrcv(type, IPC_NOWAIT): with a message to l, without one to empty.
Take(w, type, vip, l, empty) ==
  \/ /\ Receive(type)
     /\ wtck' = [wtck EXCEPT ![w] = Head(msgs[type])]
     /\ wvip' = [wvip EXCEPT ![w] = vip]
     /\ WGoto(w, l)
  \/ /\ ~Pending(type)
     /\ WGoto(w, empty)
     /\ UNCHANGED <<msgs, wtck, wvip>>

\* The two polls of an open clerk and the two loops that empty the queues.
WorkerPoll(w) ==
  /\ \/ /\ wpc[w] = "pollPrio"
        /\ Take(w, PriorityType(w), TRUE, "serve", "poll")
     \/ /\ wpc[w] = "poll"
        /\ Take(w, NormalType(w), FALSE, "serve", "check")
     \/ /\ wpc[w] = "drainPrio"
        /\ Take(w, PriorityType(w), TRUE, "drainReport", "drain")
     \/ /\ wpc[w] = "drain"
        /\ Take(w, NormalType(w), FALSE, "drainReport", "done")
  /\ UNCHANGED <<shmVars, semVars, sig1, wout, notWorkers, history>>

\* Slip: the redirection is not taken off the limit.
RedirectFree(w) ==
  /\ WorkerType[w] = FACULTY_SA
  /\ \E f \in Desks :
       /\ wout' = [wout EXCEPT ![w] =
                     [wtck[w] EXCEPT !.facultytype = f,
                                     !.redirected_from = FACULTY_SA,
                                     !.queueid = Forward(w, f)]]
       /\ issued' = [issued EXCEPT ![f] = @ \cup {wtck[w].requester}]
  /\ UNCHANGED limit

\* An SA clerk draws another faculty and takes a ticket off its limit; the
\* faculty is overwritten before it knows whether there is one.
Redirect(w) ==
  /\ WorkerType[w] = FACULTY_SA
  /\ \E f \in Desks :
       LET t == [wtck[w] EXCEPT !.facultytype = f,
                                !.redirected_from = FACULTY_SA] IN
       \/ /\ limit[f] > 0
          /\ limit' = [limit EXCEPT ![f] = @ - 1]
          /\ issued' = [issued EXCEPT ![f] = @ \cup {t.requester}]
          /\ wout' = [wout EXCEPT ![w] = [t EXCEPT !.queueid = Forward(w, f)]]
       \/ /\ limit[f] = 0
          /\ wout' = [wout EXCEPT ![w] =
                        [t EXCEPT !.ticketid = -1, !.queueid = 0]]
          /\ UNCHANGED <<limit, issued>>

\* Slips: a payment is asked for when it is made already, or each time; the
\* payer is sent to the clerk's own queue; the ticket becomes the cashier's.
AskToPay(w, t) ==
  /\ WorkerType[w] \in Desks
  /\ wout' = [wout EXCEPT ![w] =
                [t EXCEPT !.payment = PAYMENT_NEEDED,
                          !.redirected_from = wtck[w].facultytype]]
  /\ UNCHANGED <<limit, issued>>
RequirePaymentAlways(w) ==
  AskToPay(w, [wtck[w] EXCEPT !.queueid = Forward(w, CASHIER_POINT)])
RequirePaymentHere(w) ==
  /\ wtck[w].payment = PAYMENT_NOT_NEEDED
  /\ AskToPay(w, [wtck[w] EXCEPT !.queueid = Forward(w, WorkerType[w])])
RequirePaymentAway(w) ==
  /\ wtck[w].payment = PAYMENT_NOT_NEEDED
  /\ AskToPay(w, [wtck[w] EXCEPT !.queueid = Forward(w, CASHIER_POINT),
                                 !.facultytype = CASHIER_POINT])

\* To the cashier; the faculty of the ticket stays the clerk's own.
RequirePayment(w) ==
  /\ WorkerType[w] \in Desks
  /\ wtck[w].payment = PAYMENT_NOT_NEEDED
  /\ wout' = [wout EXCEPT ![w] =
                [wtck[w] EXCEPT !.payment = PAYMENT_NEEDED,
                                !.redirected_from = wtck[w].facultytype,
                                !.queueid = Forward(w, CASHIER_POINT)]]
  /\ UNCHANGED <<limit, issued>>

\* The cashier sends the petent back to the priority queue it came from.
TakePayment(w) ==
  /\ WorkerType[w] = CASHIER_POINT
  /\ LET from == wtck[w].redirected_from IN
     wout' = [wout EXCEPT ![w] =
                [wtck[w] EXCEPT !.payment = PAYMENT_SUCCESS,
                                !.facultytype = from,
                                !.queueid = from + D_MSG_WORKER_PRIORITY_OFFSET]]
  /\ UNCHANGED <<limit, issued>>

Settle(w) ==
  /\ WorkerType[w] # CASHIER_POINT
  /\ wout' = [wout EXCEPT ![w] =
                [wtck[w] EXCEPT !.facultytype = 0, !.queueid = 0]]
  /\ UNCHANGED <<limit, issued>>

\* Which branch is taken is drawn at random where more than one is open.
WorkerServe(w) ==
  /\ wpc[w] = "serve"
  /\ Redirect(w) \/ RequirePayment(w) \/ TakePayment(w) \/ Settle(w)
  /\ WGoto(w, IF wout'[w].ticketid = -1 THEN "reply" ELSE "number")
  /\ UNCHANGED <<shmVars, lockVars, doorVars, lineVars, saLimit, msgs, sig1, wtck,
                 wvip, notWorkers, queuedAtClose>>

\* ticketid = ++taken_ticket_count under semlock.
WorkerNumber(w) ==
  /\ wpc[w] = "number" /\ Section(w)
  /\ wout' = [wout EXCEPT ![w].ticketid = 1]
  /\ WGoto(w, "reply")
  /\ UNCHANGED <<shmVars, doorVars, lineVars, limitVars, msgs, sig1, wtck, wvip,
                 notWorkers, history>>

\* Slips: a refusal is not reported; whatever is answered is.
AfterReplyQuiet(w) == "lockCheck"
AfterReplyTold(w)  == "report"

AfterReply(w) == IF wout[w].ticketid = -1 THEN "report" ELSE "lockCheck"

\* Slip: a refusal is not answered.
WorkerReplyAccepted(w) ==
  /\ wpc[w] = "reply"
  /\ IF wout[w].ticketid = -1 THEN UNCHANGED msgs
                              ELSE Send(wout[w].requester, wout[w])
  /\ WGoto(w, AfterReply(w))
  /\ UNCHANGED <<shmVars, semVars, sig1, wtck, wout, wvip, notWorkers, history>>

WorkerReply(w) ==
  /\ wpc[w] = "reply"
  /\ Send(wout[w].requester, wout[w])
  /\ WGoto(w, AfterReply(w))
  /\ UNCHANGED <<shmVars, semVars, sig1, wtck, wout, wvip, notWorkers, history>>

\* The refusal as the petent brought it, signed with the clerk's own type.
Refusal(w) ==
  [wout[w] EXCEPT !.ticketid = wtck[w].ticketid,
                  !.facultytype = wtck[w].facultytype,
                  !.queueid = WorkerType[w]]

WorkerReport(w) ==
  /\ wpc[w] = "report"
  /\ Send(D_MSG_REJECTED, Refusal(w))
  /\ WGoto(w, "lockCheck")
  /\ UNCHANGED <<shmVars, semVars, sig1, wtck, wout, wvip, notWorkers, history>>

\* The variables of the iteration go out of scope with it.
EmptyHand(w) ==
  /\ wtck' = [wtck EXCEPT ![w] = NoTicket]
  /\ wout' = [wout EXCEPT ![w] = NoTicket]
  /\ wvip' = [wvip EXCEPT ![w] = FALSE]

WorkerLockCheck(w) ==
  /\ wpc[w] = "lockCheck" /\ Section(w)
  /\ LockIfExhausted
  /\ EmptyHand(w)
  /\ WGoto(w, "check")
  /\ UNCHANGED <<is_opened, petent_pids, configured, opened, lineVars, limitVars,
                 msgs, sig1, notWorkers, history>>

\* Slip: the loops at closing time answer without reporting.
DrainWithoutReport(w) ==
  /\ wpc[w] = "drainReport"
  /\ WGoto(w, "drainReply")
  /\ UNCHANGED <<shmVars, semVars, msgs, sig1, wtck, wout, wvip, notWorkers,
                 history>>

WorkerDrainReport(w) ==
  /\ wpc[w] = "drainReport"
  /\ Send(D_MSG_REJECTED, [wtck[w] EXCEPT !.queueid = WorkerType[w]])
  /\ WGoto(w, "drainReply")
  /\ UNCHANGED <<shmVars, semVars, sig1, wtck, wout, wvip, notWorkers, history>>

\* Back to the loop the message was taken in.
DrainLoop(w) == IF wvip[w] THEN "drainPrio" ELSE "drain"

WorkerDrainReply(w) ==
  /\ wpc[w] = "drainReply"
  /\ Send(wtck[w].requester,
          [wtck[w] EXCEPT !.ticketid = -1, !.queueid = -1])
  /\ WGoto(w, DrainLoop(w))
  /\ EmptyHand(w)
  /\ UNCHANGED <<shmVars, semVars, sig1, notWorkers, history>>

WorkerStep(w) ==
  \/ WorkerLockOpened(w) \/ WorkerUnlockOpened(w) \/ WorkerCheck(w)
  \/ WorkerPoll(w) \/ WorkerServe(w) \/ WorkerNumber(w) \/ WorkerReply(w)
  \/ WorkerReport(w) \/ WorkerLockCheck(w)
  \/ WorkerDrainReport(w) \/ WorkerDrainReply(w)

-------------------------------------------------------------------------------
\* The label after a call that a signal makes fail, and that is not looked at:
\* a message is lost, the turnstile is passed without a token.
AfterFailure(w) ==
  CASE wpc[w] = "reply"       -> AfterReply(w)
    [] wpc[w] = "report"      -> "lockCheck"
    [] wpc[w] = "drainReport" -> "drainReply"
    [] wpc[w] = "drainReply"  -> DrainLoop(w)
    [] wpc[w] = "opened"      -> "inOpened"
    [] OTHER                  -> wpc[w]

\* SIGUSR1 to the clerks of S, from the director. signal1handler sets the
\* flag; of the clerks asleep in msgsnd, at the turnstile or on semlock, those
\* in hit are interrupted (EINTR) and go on as if they had not been.
Signal1(S) ==
  LET onLock == {w \in S : ~Critical /\
                   \/ wpc[w] \in {"number", "lockCheck"}
                   \/ wpc[w] = "check" /\ ~sig1[w]}
      asleep == {w \in S :
                   \/ wpc[w] \in {"reply", "report", "drainReport", "drainReply"}
                      /\ Full
                   \/ wpc[w] = "opened" /\ opened = 0}
  IN
  /\ sig1' = [w \in Workers |-> sig1[w] \/ w \in S]
  /\ \E hit \in SUBSET (onLock \cup asleep) :
       /\ wpc' = [w \in Workers |-> IF w \in hit THEN AfterFailure(w) ELSE wpc[w]]
       /\ unlocked' = unlocked \cup (hit \cap onLock)
       /\ ignoredEintr' = (ignoredEintr \/ hit # {})
  /\ UNCHANGED semlock
===============================================================================
