-------------------------------- MODULE Petent --------------------------------
(***************************************************************************)
(* One run of petent.c: registration of the pid, the way into the          *)
(* building, the ticket machine, the visits to the clerks, and every way   *)
(* out. A petent stands at the label of the system call it makes next.     *)
(***************************************************************************)
EXTENDS StanUrzedu

\* The random attributes. vip is assigned only when rand() % 200 = 0 and is
\* read uninitialized otherwise, hence any value of VipValues.
Customers == [sprawa : Sprawy, vip : VipValues, people_count : PeopleCounts]

\* In unlock_sem_building, on the three ways out: before semlock is taken, and
\* between the look at the flags and the end of the section.
LeaveLabels  == {"leave", "leaveTickets", "leaveQueue"}
GiveLabels   == {"give", "giveTickets", "giveQueue"}
GiveLabel(l) == CASE l = "leave"        -> "give"
                  [] l = "leaveTickets" -> "giveTickets"
                  [] l = "leaveQueue"   -> "giveQueue"

InBuilding ==
  {"entered", "tickets", "sendTicket", "waitTicket", "queue", "send",
   "waitWorker", "frustrated"} \cup LeaveLabels \cup GiveLabels

PetentLabels ==
  {"init", "configured", "arrive", "opened", "inOpened", "building"}
    \cup InBuilding \cup {"freeTickets", "freeQueue", "gone"}

NewTicket(p) ==
  [requester |-> p, ticketid |-> 0, facultytype |-> cust[p].sprawa,
   queueid |-> D_MSG_TICKET, payment |-> PAYMENT_NOT_NEEDED,
   redirected_from |-> cust[p].vip]

Goto(p, l) == pc' = [pc EXCEPT ![p] = l]
At(p, l)   == pc[p] = l /\ ~ipcRemoved

\* Only vip = 0 queues; any other value, garbage too, skips the semaphore.
UsesQueue(p) == cust[p].vip = 0

\* Slip: a slot is taken without a look at whose it is.
RegisterAnywhere(p) ==
  /\ At(p, "init") /\ Critical
  /\ petent_pids' = [petent_pids EXCEPT ![1] = p]
  /\ Goto(p, "configured")
  /\ UNCHANGED <<is_opened, is_locked, semVars, msgs, sig2, tck, cust, notPetents>>

\* Takes the first free slot of petent_pids; with none the petent gives up.
\* The slot is never cleared by the petent itself.
Register(p) ==
  /\ At(p, "init") /\ Critical
  /\ \/ \E i \in 1..PidsLimit :
          /\ petent_pids[i] = NoPid
          /\ \A j \in 1..(i - 1) : petent_pids[j] # NoPid
          /\ petent_pids' = [petent_pids EXCEPT ![i] = p]
          /\ Goto(p, "configured")
     \/ /\ \A i \in 1..PidsLimit : petent_pids[i] # NoPid
        /\ Goto(p, "gone")
        /\ UNCHANGED petent_pids
  /\ UNCHANGED <<is_opened, is_locked, semVars, msgs, sig2, tck, cust, notPetents>>

\* The semaphore configured holds 1000 once the director has set the hours;
\* lock and unlock of it are one step.
PassConfigured(p) ==
  /\ At(p, "configured") /\ configured
  /\ Goto(p, "arrive")
  /\ UNCHANGED <<shmVars, semVars, msgs, sig2, tck, cust, notPetents>>

\* The sleep until the arrival time ends.
Arrive(p) ==
  /\ At(p, "arrive")
  /\ Goto(p, IF sig2[p] THEN "gone" ELSE "opened")
  /\ UNCHANGED <<shmVars, semVars, msgs, sig2, tck, cust, notPetents>>

LockOpened(p) ==
  /\ At(p, "opened") /\ opened > 0
  /\ opened' = opened - 1
  /\ Goto(p, "inOpened")
  /\ UNCHANGED <<shmVars, lockVars, configured, building, lineVars, limitVars,
                 msgs, sig2, tck, cust, notPetents>>

\* The is_opened read that follows is never used.
UnlockOpened(p) ==
  /\ At(p, "inOpened")
  /\ opened' = opened + 1
  /\ Goto(p, "building")
  /\ UNCHANGED <<shmVars, lockVars, configured, building, lineVars, limitVars,
                 msgs, sig2, tck, cust, notPetents>>

\* sem_lock_multi: the adult and the child enter together or not at all.
EnterBuilding(p) ==
  /\ At(p, "building") /\ building >= cust[p].people_count
  /\ building' = building - cust[p].people_count
  /\ Goto(p, "entered")
  /\ UNCHANGED <<shmVars, lockVars, configured, opened, lineVars, limitVars,
                 msgs, sig2, tck, cust, notPetents>>

\* Looks at the signal flag, then fills in the ticket.
Entered(p) ==
  /\ At(p, "entered")
  /\ \/ sig2[p] /\ Goto(p, "leave") /\ UNCHANGED tck
     \/ /\ ~sig2[p]
        /\ tck' = [tck EXCEPT ![p] = NewTicket(p)]
        /\ Goto(p, "tickets")
  /\ UNCHANGED <<shmVars, semVars, msgs, sig2, cust, notPetents>>

LockTickets(p) ==
  /\ At(p, "tickets") /\ tickets > 0
  /\ tickets' = tickets - 1
  /\ Goto(p, "sendTicket")
  /\ UNCHANGED <<shmVars, lockVars, doorVars, queueSem, limitVars, msgs, sig2,
                 tck, cust, notPetents>>

SendTicketRequest(p) ==
  /\ At(p, "sendTicket")
  /\ Send(D_MSG_TICKET, tck[p])
  /\ Goto(p, "waitTicket")
  /\ UNCHANGED <<shmVars, semVars, sig2, tck, cust, notPetents>>

\* Slip: only vip = 1 is taken for an important petent here.
NextVisitVip(p, t) ==
  IF t.facultytype = 0 THEN "leave"
  ELSE IF sig2[p] THEN "gone"
  ELSE IF cust[p].vip # 1 THEN "queue" ELSE "send"

\* Head of the loop over the clerks: where a petent holding t goes next. A
\* petent that finds the signal flag set exits without giving its places in
\* the building back.
NextVisit(p, t) ==
  IF t.facultytype = 0 THEN "leave"
  ELSE IF sig2[p] THEN "gone"
  ELSE IF UsesQueue(p) THEN "queue" ELSE "send"

\* Slip: a ticket that is refused is not told from one that is not.
ReceiveAnyTicket(p) ==
  /\ At(p, "waitTicket") /\ Receive(p)
  /\ tck' = [tck EXCEPT ![p] = Head(msgs[p])]
  /\ Goto(p, NextVisit(p, Head(msgs[p])))
  /\ tickets' = tickets + 1
  /\ UNCHANGED <<shmVars, lockVars, doorVars, queueSem, limitVars, sig2, cust,
                 notPetents>>

ReceiveTicket(p) ==
  /\ At(p, "waitTicket") /\ Receive(p)
  /\ tck' = [tck EXCEPT ![p] = Head(msgs[p])]
  /\ LET t == Head(msgs[p]) IN
     \/ t.ticketid = -1 /\ Goto(p, "leaveTickets") /\ UNCHANGED tickets
     \/ t.ticketid # -1 /\ Goto(p, NextVisit(p, t)) /\ tickets' = tickets + 1
  /\ UNCHANGED <<shmVars, lockVars, doorVars, queueSem, limitVars, sig2, cust,
                 notPetents>>

\* get_queue_index follows facultytype, so the way to the cashier takes the
\* semaphore of the clerk the petent comes from.
LockQueue(p) ==
  LET f == tck[p].facultytype IN
  /\ At(p, "queue") /\ queueSem[f] > 0
  /\ queueSem' = [queueSem EXCEPT ![f] = @ - 1]
  /\ Goto(p, "send")
  /\ UNCHANGED <<shmVars, lockVars, doorVars, tickets, limitVars, msgs, sig2,
                 tck, cust, notPetents>>

\* A petent turned away at closing time comes back here with queueid -1, which
\* msgsnd refuses as a message type (EINVAL).
SendToWorker(p) ==
  /\ At(p, "send")
  /\ \/ /\ tck[p].queueid = -1
        /\ Goto(p, "leaveQueue")
        /\ UNCHANGED msgs
     \/ /\ tck[p].queueid # -1
        /\ Send(tck[p].queueid, tck[p])
        /\ Goto(p, "waitWorker")
  /\ UNCHANGED <<shmVars, semVars, sig2, tck, cust, notPetents>>

\* The answer replaces the ticket; the queue left is the one of the old ticket.
ReceiveFromWorker(p) ==
  /\ At(p, "waitWorker") /\ Receive(p)
  /\ tck' = [tck EXCEPT ![p] = Head(msgs[p])]
  /\ queueSem' = IF UsesQueue(p)
                   THEN [queueSem EXCEPT ![tck[p].facultytype] = @ + 1]
                   ELSE queueSem
  /\ LET t == Head(msgs[p]) IN
     Goto(p, IF t.ticketid # -1 THEN NextVisit(p, t)
             ELSE IF t.queueid = -1 THEN "frustrated" ELSE "leave")
  /\ UNCHANGED <<shmVars, lockVars, doorVars, tickets, limitVars, sig2, cust,
                 notPetents>>

\* After sleep(120) the loop goes on with the refused ticket.
WakeFrustrated(p) ==
  /\ At(p, "frustrated")
  /\ Goto(p, NextVisit(p, tck[p]))
  /\ UNCHANGED <<shmVars, semVars, msgs, sig2, tck, cust, notPetents>>

\* Where a petent that has left goes on: whoever still holds the semaphore
\* tickets, or that of a queue, gives it back on its way out.
AfterLeave(p, l) ==
  CASE l \in {"leaveTickets", "giveTickets"} -> "freeTickets"
    [] l \in {"leaveQueue", "giveQueue"} /\ UsesQueue(p) -> "freeQueue"
    [] OTHER -> "gone"

\* Slip: neither flag is looked at.
LockAlways(p) ==
  /\ pc[p] \in LeaveLabels /\ ~ipcRemoved
  /\ EnterSection(p) /\ Goto(p, GiveLabel(pc[p]))
  /\ UNCHANGED <<shmVars, doorVars, lineVars, limitVars, msgs, sig2, tck, cust,
                 notPetents>>

\* unlock_sem_building, its look at the flags: places are given back only while
\* the office is open and not locked. The lock is kept for it, except by a
\* petent whose wait for it was interrupted, which never had it.
LeaveBuilding(p) ==
  /\ pc[p] \in LeaveLabels /\ ~ipcRemoved
  /\ \/ /\ is_opened /\ ~is_locked
        /\ EnterSection(p)
        /\ Goto(p, GiveLabel(pc[p]))
     \/ /\ ~is_opened \/ is_locked
        /\ Section(p)
        /\ Goto(p, AfterLeave(p, pc[p]))
  /\ UNCHANGED <<shmVars, doorVars, lineVars, limitVars, msgs, sig2, tck, cust,
                 notPetents>>

\* Slips: places given back for a child that is not there, and not given back
\* for one that is.
TwoPlaces(p) == 2
OnePlace(p)  == 1

PlacesHeld(p) == cust[p].people_count

\* Its sem_unlock_multi and the end of the section.
GivePlaces(p) ==
  /\ pc[p] \in GiveLabels /\ ~ipcRemoved
  /\ building' = building + PlacesHeld(p)
  /\ LeaveSection(p)
  /\ Goto(p, AfterLeave(p, pc[p]))
  /\ UNCHANGED <<shmVars, configured, opened, lineVars, limitVars, msgs, sig2,
                 tck, cust, notPetents>>

FreeTickets(p) ==
  /\ At(p, "freeTickets")
  /\ tickets' = tickets + 1
  /\ Goto(p, "gone")
  /\ UNCHANGED <<shmVars, lockVars, doorVars, queueSem, limitVars, msgs, sig2,
                 tck, cust, notPetents>>

FreeQueue(p) ==
  /\ At(p, "freeQueue")
  /\ queueSem' = [queueSem EXCEPT ![tck[p].facultytype] = @ + 1]
  /\ Goto(p, "gone")
  /\ UNCHANGED <<shmVars, lockVars, doorVars, tickets, limitVars, msgs, sig2,
                 tck, cust, notPetents>>

\* Once main has removed the IPC objects every call fails (EIDRM, EINVAL) and
\* every error path ends in shutdown().
ExitOnRemovedIpc(p) ==
  /\ ipcRemoved /\ pc[p] # "gone"
  /\ Goto(p, "gone")
  /\ UNCHANGED <<shmVars, semVars, msgs, sig2, tck, cust, notPetents>>

PetentStep(p) ==
  \/ Register(p) \/ PassConfigured(p) \/ Arrive(p)
  \/ LockOpened(p) \/ UnlockOpened(p) \/ EnterBuilding(p) \/ Entered(p)
  \/ LockTickets(p) \/ SendTicketRequest(p) \/ ReceiveTicket(p)
  \/ LockQueue(p) \/ SendToWorker(p) \/ ReceiveFromWorker(p)
  \/ WakeFrustrated(p) \/ LeaveBuilding(p) \/ GivePlaces(p)
  \/ FreeTickets(p) \/ FreeQueue(p) \/ ExitOnRemovedIpc(p)

-------------------------------------------------------------------------------
\* The system call p is about to make would sleep.
Blocked(p) ==
  \/ pc[p] = "configured" /\ ~configured
  \/ pc[p] = "opened" /\ opened = 0
  \/ pc[p] = "building" /\ (building < cust[p].people_count \/ ~Critical)
  \/ pc[p] = "tickets" /\ tickets = 0
  \/ pc[p] = "queue" /\ queueSem[tck[p].facultytype] = 0
  \/ pc[p] \in {"sendTicket", "send"} /\ Full
  \/ pc[p] \in {"waitTicket", "waitWorker"} /\ ~Pending(p)

\* Slips: an interrupted wait asks the machine again; an interrupted call
\* forgets that the petent holds the semaphore tickets.
RetryOnInterrupt(l) ==
  CASE l \in {"configured", "opened", "building"} -> "gone"
    [] l \in {"tickets", "queue"}                 -> "leave"
    [] l \in {"sendTicket", "waitTicket"}         -> "sendTicket"
    [] l \in {"send", "waitWorker"}               -> "leaveQueue"
ForgetTickets(l) ==
  CASE l \in {"configured", "opened", "building"}            -> "gone"
    [] l \in {"tickets", "queue", "sendTicket", "waitTicket"} -> "leave"
    [] l \in {"send", "waitWorker"}                          -> "leaveQueue"

\* Where the error path of an interrupted call (EINTR) continues.
OnInterrupt(l) ==
  CASE l \in {"configured", "opened", "building"} -> "gone"
    [] l \in {"tickets", "queue"}                 -> "leave"
    [] l \in {"sendTicket", "waitTicket"}         -> "leaveTickets"
    [] l \in {"send", "waitWorker"}               -> "leaveQueue"

\* signal2handler sets the flag. A call in which p sleeps fails with EINTR; if
\* p was only about to make it, the flag is all that is left of the signal.
\* unlock_sem_building does not look at what sem_lock returns.
Signal2(p) ==
  /\ sig2' = [sig2 EXCEPT ![p] = TRUE]
  /\ \/ UNCHANGED <<pc, lockVars>>
     \/ Blocked(p) /\ Goto(p, OnInterrupt(pc[p])) /\ UNCHANGED lockVars
     \/ /\ pc[p] \in LeaveLabels /\ ~Critical
        /\ unlocked' = unlocked \cup {p} /\ ignoredEintr' = TRUE
        /\ UNCHANGED <<semlock, pc>>
===============================================================================
