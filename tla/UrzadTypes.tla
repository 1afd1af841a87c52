------------------------------ MODULE UrzadTypes ------------------------------
(***************************************************************************)
(* The type invariant of Urzad as a theorem. It is not inductive: what a   *)
(* ticket holds after the cashier comes from redirected_from, where a      *)
(* petent first writes its vip, and a process answers the requester field  *)
(* of a ticket it was sent. So the invariant proved says of every ticket   *)
(* that somebody will act upon what its fields hold at that point of its   *)
(* way. With it: what queueid, faculty and payment say about each other at *)
(* every point of the way, hence that a payment asked for is made before   *)
(* anything else happens to the ticket.                                    *)
(***************************************************************************)
EXTENDS UrzadProofs

\* A ticket with an owner that, if addressed to the cashier, says where from.
Sound(t) ==
  /\ t \in Tickets /\ t.requester \in Petents
  /\ t.queueid \in CashierTypes => t.redirected_from \in Faculties

\* A ticket that is still for some faculty: anything but a settled one.
Live(t) == t.facultytype \in Faculties

RequestTypes == {D_MSG_TICKET} \cup WorkerMsgTypes

\* What the queue may hold under type k: requests carry their own type.
Letters(k) ==
  {t \in Tickets : Sound(t) /\ (k \in RequestTypes => Live(t) /\ t.queueid = k)}

MsgsOK ==
  /\ msgs = [k \in MsgTypes |-> msgs[k]]
  /\ \A k \in MsgTypes : msgs[k] \in Seq(Letters(k))

HasTicket  == {"tickets", "sendTicket", "waitTicket", "queue", "send",
               "waitWorker"}
AskForOne  == {"tickets", "sendTicket"}

PetentsOK ==
  /\ sig2 \in [Petents -> BOOLEAN]
  /\ tck \in [Petents -> Tickets]
  /\ \A p \in Petents :
       /\ pc[p] \in HasTicket \cup {"frustrated"} => Sound(tck[p])
       /\ pc[p] \in HasTicket => Live(tck[p])
       /\ pc[p] \in AskForOne => tck[p].queueid = D_MSG_TICKET

MachinesOK ==
  /\ mopen \in [Machines -> BOOLEAN]
  /\ mtck \in [Machines -> Tickets]
  /\ mstatus \in [Machines -> {0, -1}]
  /\ \A m \in Machines : mpc[m] \in {"serve", "reply", "report"} =>
       Sound(mtck[m]) /\ Live(mtck[m])

Holding == {"serve", "number", "reply", "report", "drainReport", "drainReply"}

WorkersOK ==
  /\ sig1 \in [Workers -> BOOLEAN]
  /\ wtck \in [Workers -> Tickets] /\ wout \in [Workers -> Tickets]
  /\ wvip \in [Workers -> BOOLEAN]
  /\ \A w \in Workers :
       /\ wpc[w] \in Holding =>
            /\ Sound(wtck[w]) /\ Live(wtck[w])
            /\ WorkerType[w] = CASHIER_POINT =>
                 wtck[w].redirected_from \in Faculties
       /\ wpc[w] \in {"number", "reply", "report"} => Sound(wout[w])

DirectorOK ==
  /\ scan \in 0..(PidsLimit + 1) /\ raport \subseteq Tickets
  /\ rpc \in {"loop", "done"} /\ running \in BOOLEAN
  /\ collected \subseteq Tickets

SharedOK ==
  /\ is_opened \in BOOLEAN /\ is_locked \in BOOLEAN /\ configured \in BOOLEAN
  /\ petent_pids \in [1..PidsLimit -> Petents \cup {NoPid}]
  /\ opened \in Int /\ tickets \in Nat
  /\ queueSem \in [Faculties -> Nat]
  /\ limit \in [Desks -> Nat] /\ saLimit \in [1..2 -> Nat]
  /\ unlocked \subseteq Petents \cup Workers
  /\ ipcRemoved \in BOOLEAN /\ ignoredEintr \in BOOLEAN
  /\ issued \in [Faculties -> SUBSET Petents]
  /\ queuedAtClose \subseteq Petents

TypeInv ==
  /\ CapacityInv /\ ShutInv /\ LockInv
  /\ MsgsOK /\ PetentsOK /\ MachinesOK /\ WorkersOK /\ DirectorOK /\ SharedOK

-------------------------------------------------------------------------------
\* Sending a letter that belongs under its type, and taking one out.
LEMMA SendOK ==
  ASSUME NEW k, NEW t, Send(k, t), MsgsOK, k \in MsgTypes => t \in Letters(k)
  PROVE  MsgsOK'
<1>1. msgs' = [msgs EXCEPT ![k] = Append(@, t)]
  BY DEF Send
<1>2. ASSUME NEW j \in MsgTypes PROVE msgs'[j] \in Seq(Letters(j))
  <2>1. CASE j = k BY <1>1, <2>1 DEF MsgsOK
  <2>2. CASE j # k BY <1>1, <2>2 DEF MsgsOK
  <2> QED BY <2>1, <2>2
<1>3. msgs' = [j \in MsgTypes |-> msgs'[j]]
  BY <1>1 DEF MsgsOK
<1> QED BY <1>2, <1>3 DEF MsgsOK, Letters, Sound, Tickets

LEMMA ReceiveOK ==
  ASSUME NEW k \in MsgTypes, Receive(k), MsgsOK
  PROVE  MsgsOK' /\ Head(msgs[k]) \in Letters(k)
<1>1. msgs' = [msgs EXCEPT ![k] = Tail(@)] /\ msgs[k] # <<>>
  BY DEF Receive, Pending
<1>2. msgs[k] \in Seq(Letters(k))
  BY DEF MsgsOK
<1>3. Head(msgs[k]) \in Letters(k) /\ Tail(msgs[k]) \in Seq(Letters(k))
  BY <1>1, <1>2
<1>4. ASSUME NEW j \in MsgTypes PROVE msgs'[j] \in Seq(Letters(j))
  BY <1>1, <1>3 DEF MsgsOK
<1>5. msgs' = [j \in MsgTypes |-> msgs'[j]]
  BY <1>1 DEF MsgsOK
<1> QED BY <1>3, <1>4, <1>5 DEF MsgsOK

LEMMA MsgsTyped == MsgsOK => msgs \in [MsgTypes -> Seq(Tickets)]
<1> SUFFICES ASSUME MsgsOK PROVE msgs \in [MsgTypes -> Seq(Tickets)]
  OBVIOUS
<1>1. ASSUME NEW k \in MsgTypes PROVE msgs[k] \in Seq(Tickets)
  <2>1. msgs[k] \in Seq(Letters(k))
    BY DEF MsgsOK
  <2>2. Letters(k) \subseteq Tickets
    BY DEF Letters
  <2> QED BY <2>1, <2>2
<1> QED BY <1>1 DEF MsgsOK

LEMMA NoTicketOK == NoTicket \in Tickets
BY DEF NoTicket, Tickets, Payments

LEMMA PetentTypesIn ==
  ASSUME NEW p \in Petents
  PROVE  p \in MsgTypes /\ p \notin RequestTypes
<1>1. p \in MsgTypes
  BY DEF MsgTypes
<1>2. Petents \cap Int = {} /\ Desks \subseteq Int
  BY SetsAssumption
<1>3. RequestTypes \subseteq Int
  BY <1>2 DEF RequestTypes, WorkerMsgTypes, D_MSG_TICKET,
     D_MSG_WORKER_OFFSET, D_MSG_WORKER_PRIORITY_OFFSET, CASHIER_POINT,
     FACULTY_SA, Faculties
<1> QED BY <1>1, <1>2, <1>3

LEMMA NewTicketOK ==
  ASSUME NEW p \in Petents, CapacityInv
  PROVE  /\ Sound(NewTicket(p)) /\ Live(NewTicket(p))
         /\ NewTicket(p).queueid = D_MSG_TICKET
<1>1. cust[p] \in Customers
  BY DEF CapacityInv
<1>2. cust[p].sprawa \in Faculties /\ cust[p].vip \in Int
  BY <1>1, SetsAssumption DEF Customers
<1>3. D_MSG_TICKET \notin CashierTypes
  BY DEF D_MSG_TICKET, CashierTypes, CASHIER_POINT, D_MSG_WORKER_OFFSET,
     D_MSG_WORKER_PRIORITY_OFFSET
<1> QED
  BY <1>2, <1>3 DEF NewTicket, Sound, Live, Tickets, Payments

\* What a petent changes of the types, action by action.
LEMMA PetentTypes ==
  ASSUME NEW p \in Petents, PetentStep(p), TypeInv
  PROVE  MsgsOK' /\ PetentsOK' /\ SharedOK'
<1>0. /\ UNCHANGED <<is_opened, is_locked, configured, limit, saLimit>>
      /\ UNCHANGED <<sig2, ipcRemoved, issued, queuedAtClose, ignoredEintr>>
      /\ unlocked' \subseteq unlocked
  BY PetentFrame DEF history
<1>m. pc \in [Petents -> PetentLabels]
  BY DEF TypeInv, CapacityInv
<1> DEFINE Rest1 == petent_pids' \in [1..PidsLimit -> Petents \cup {NoPid}]
                    /\ opened' \in Int /\ tickets' \in Nat
                    /\ queueSem' \in [Faculties -> Nat]
           Hands == /\ tck' \in [Petents -> Tickets]
                    /\ \A q \in Petents :
                      /\ pc'[q] \in HasTicket \cup {"frustrated"} => Sound(tck'[q])
                      /\ pc'[q] \in HasTicket => Live(tck'[q])
                      /\ pc'[q] \in AskForOne => tck'[q].queueid = D_MSG_TICKET
<1> SUFFICES MsgsOK' /\ Hands /\ Rest1
  BY <1>0 DEF TypeInv, SharedOK, PetentsOK
<1>a. ASSUME UNCHANGED <<petent_pids, opened, tickets, queueSem>> PROVE Rest1
  BY <1>a DEF TypeInv, SharedOK
<1>b. ASSUME UNCHANGED msgs PROVE MsgsOK'
  BY <1>b DEF TypeInv, MsgsOK
<1>c. ASSUME UNCHANGED tck, NEW l, Goto(p, l),
             l \in HasTicket \cup {"frustrated"} => Sound(tck[p]),
             l \in HasTicket => Live(tck[p]),
             l \in AskForOne => tck[p].queueid = D_MSG_TICKET
      PROVE  Hands
  BY <1>c, <1>m DEF TypeInv, PetentsOK, Goto
<1>d. ASSUME NEW t \in Tickets, tck' = [tck EXCEPT ![p] = t],
             NEW l, Goto(p, l),
             l \in HasTicket \cup {"frustrated"} => Sound(t),
             l \in HasTicket => Live(t),
             l \in AskForOne => t.queueid = D_MSG_TICKET
      PROVE  Hands
  BY <1>d, <1>m DEF TypeInv, PetentsOK, Goto
<1> USE DEF shmVars, semVars, doorVars, lineVars
<1>n. ASSUME NEW t
      PROVE /\ NextVisit(p, t) \notin AskForOne \cup {"frustrated"}
            /\ NextVisit(p, t) \in HasTicket => t.facultytype # 0
  BY DEF NextVisit, AskForOne, HasTicket
<1>l. ASSUME NEW t \in Tickets, t.facultytype # 0 PROVE Live(t)
  BY <1>l DEF Tickets, Live
<1>q. queueSem \in [Faculties -> Nat]
  BY DEF TypeInv, SharedOK
<1>r. ASSUME NEW f, queueSem' = [queueSem EXCEPT ![f] = @ + 1]
      PROVE  queueSem' \in [Faculties -> Nat]
  <2>1. CASE f \in Faculties
    BY <1>q, <1>r, <2>1
  <2>2. CASE f \notin Faculties
    <3>1. queueSem' = queueSem
      BY <1>q, <1>r, <2>2
    <3> QED BY <3>1, <1>q
  <2> QED BY <2>1, <2>2
<1>1. CASE Register(p)
  <2>1. Rest1
    BY <1>1 DEF Register, TypeInv, SharedOK
  <2>2. Hands
    BY <1>1, <1>c DEF Register, HasTicket, AskForOne
  <2> QED BY <1>1, <1>b, <2>1, <2>2 DEF Register
<1>2. CASE PassConfigured(p)
  BY <1>2, <1>a, <1>b, <1>c DEF PassConfigured, HasTicket, AskForOne
<1>3. CASE Arrive(p)
  <2>1. Hands
    BY <1>3, <1>c DEF Arrive, HasTicket, AskForOne
  <2> QED BY <1>3, <1>a, <1>b, <2>1 DEF Arrive
<1>4. CASE LockOpened(p)
  <2>1. Hands
    BY <1>4, <1>c DEF LockOpened, HasTicket, AskForOne
  <2> QED BY <1>4, <1>b, <2>1 DEF LockOpened, TypeInv, SharedOK
<1>5. CASE UnlockOpened(p)
  <2>1. Hands
    BY <1>5, <1>c DEF UnlockOpened, HasTicket, AskForOne
  <2> QED BY <1>5, <1>b, <2>1 DEF UnlockOpened, TypeInv, SharedOK
<1>6. CASE EnterBuilding(p)
  BY <1>6, <1>a, <1>b, <1>c DEF EnterBuilding, HasTicket, AskForOne
<1>7. CASE Entered(p)
  <2>1. ASSUME Goto(p, "leave"), UNCHANGED tck PROVE Hands
    BY <2>1, <1>c DEF HasTicket, AskForOne
  <2>2. ASSUME Goto(p, "tickets"), tck' = [tck EXCEPT ![p] = NewTicket(p)]
        PROVE  Hands
    <3>1. /\ Sound(NewTicket(p)) /\ Live(NewTicket(p))
          /\ NewTicket(p).queueid = D_MSG_TICKET
      BY NewTicketOK DEF TypeInv
    <3>2. NewTicket(p) \in Tickets
      BY <3>1 DEF Sound
    <3> QED BY <2>2, <3>1, <3>2, <1>d
  <2> QED BY <1>7, <1>a, <1>b, <2>1, <2>2 DEF Entered
<1>8. CASE LockTickets(p)
  <2>1. Hands
    BY <1>8, <1>c
       DEF LockTickets, At, TypeInv, PetentsOK, HasTicket, AskForOne
  <2> QED BY <1>8, <1>b, <2>1 DEF LockTickets, TypeInv, SharedOK
<1>9. CASE SendTicketRequest(p)
  <2>1. Hands
    BY <1>9, <1>c
       DEF SendTicketRequest, At, TypeInv, PetentsOK, HasTicket, AskForOne
  <2>2. tck[p] \in Letters(D_MSG_TICKET)
    BY <1>9 DEF SendTicketRequest, At, TypeInv, PetentsOK, HasTicket,
       AskForOne, Letters, Sound
  <2>3. MsgsOK'
    BY <1>9, <2>2, SendOK DEF SendTicketRequest, TypeInv
  <2> QED BY <1>9, <1>a, <2>1, <2>3 DEF SendTicketRequest
<1>10. CASE ReceiveTicket(p)
  <2> DEFINE t == Head(msgs[p])
  <2>1. MsgsOK' /\ Sound(t) /\ t \in Tickets
    BY <1>10, PetentTypesIn, ReceiveOK DEF ReceiveTicket, TypeInv, Letters
  <2>2. tck' = [tck EXCEPT ![p] = t]
    BY <1>10 DEF ReceiveTicket
  <2>3. ASSUME Goto(p, "leaveTickets") PROVE Hands
    BY <2>1, <2>2, <2>3, <1>d DEF HasTicket, AskForOne
  <2>4. ASSUME Goto(p, NextVisit(p, t)) PROVE Hands
    BY <2>1, <2>2, <2>4, <1>d, <1>n, <1>l DEF AskForOne
  <2>5. Hands
    BY <1>10, <2>3, <2>4 DEF ReceiveTicket
  <2>6. Rest1
    BY <1>10 DEF ReceiveTicket, TypeInv, SharedOK
  <2> QED BY <2>1, <2>5, <2>6
<1>11. CASE LockQueue(p)
  <2>1. Hands
    BY <1>11, <1>c
       DEF LockQueue, At, TypeInv, PetentsOK, HasTicket, AskForOne
  <2>2. queueSem' \in [Faculties -> Nat]
    <3>1. tck[p].facultytype \in Faculties
      BY <1>11 DEF LockQueue, At, TypeInv, PetentsOK, HasTicket, Live
    <3> QED BY <1>11, <1>q, <3>1 DEF LockQueue
  <2> QED BY <1>11, <1>b, <2>1, <2>2 DEF LockQueue, TypeInv, SharedOK
<1>12. CASE SendToWorker(p)
  <2>1. pc[p] = "send"
    BY <1>12 DEF SendToWorker, At
  <2>2. Sound(tck[p]) /\ Live(tck[p]) /\ tck[p] \in Tickets
    BY <2>1 DEF TypeInv, PetentsOK, HasTicket
  <2>3. CASE Goto(p, "leaveQueue") /\ UNCHANGED msgs
    BY <1>12, <2>3, <1>a, <1>b, <1>c
       DEF SendToWorker, HasTicket, AskForOne
  <2>4. CASE Send(tck[p].queueid, tck[p]) /\ Goto(p, "waitWorker")
    <3>1. tck[p] \in Letters(tck[p].queueid)
      BY <2>2 DEF Letters
    <3>2. MsgsOK'
      BY <2>4, <3>1, SendOK DEF TypeInv
    <3> QED
      BY <1>12, <2>2, <2>4, <3>2, <1>a, <1>c DEF SendToWorker, AskForOne
  <2> QED BY <1>12, <2>3, <2>4 DEF SendToWorker
<1>13. CASE ReceiveFromWorker(p)
  <2> DEFINE t == Head(msgs[p])
  <2>1. MsgsOK' /\ Sound(t) /\ t \in Tickets
    BY <1>13, PetentTypesIn, ReceiveOK DEF ReceiveFromWorker, TypeInv, Letters
  <2>2. tck' = [tck EXCEPT ![p] = t]
    BY <1>13 DEF ReceiveFromWorker
  <2>3. queueSem' \in [Faculties -> Nat]
    BY <1>13, <1>q, <1>r DEF ReceiveFromWorker
  <2>4. PICK l : /\ Goto(p, l)
                 /\ l \in {NextVisit(p, t), "frustrated", "leave"}
    BY <1>13 DEF ReceiveFromWorker
  <2>5. Hands
    BY <2>1, <2>2, <2>4, <1>d, <1>n, <1>l DEF AskForOne, HasTicket
  <2> QED BY <1>13, <2>1, <2>3, <2>5 DEF ReceiveFromWorker, TypeInv, SharedOK
<1>14. CASE WakeFrustrated(p)
  <2>1. pc[p] = "frustrated"
    BY <1>14 DEF WakeFrustrated, At
  <2>2. Sound(tck[p]) /\ tck[p] \in Tickets
    BY <2>1 DEF TypeInv, PetentsOK
  <2>3. Hands
    BY <1>14, <2>2, <1>c, <1>n, <1>l DEF WakeFrustrated, AskForOne
  <2> QED BY <1>14, <1>a, <1>b, <2>3 DEF WakeFrustrated
<1>g. /\ \A l : AfterLeave(p, l) \in {"freeTickets", "freeQueue", "gone"}
      /\ \A l \in LeaveLabels : GiveLabel(l) \in GiveLabels
  BY DEF AfterLeave, LeaveLabels, GiveLabels, GiveLabel
<1>15. CASE LeaveBuilding(p)
  <2>1. Hands
    BY <1>15, <1>c, <1>g DEF LeaveBuilding, HasTicket, AskForOne, GiveLabels
  <2> QED BY <1>15, <1>a, <1>b, <2>1 DEF LeaveBuilding
<1>16. CASE GivePlaces(p)
  <2>1. Hands
    BY <1>16, <1>c, <1>g DEF GivePlaces, HasTicket, AskForOne
  <2> QED BY <1>16, <1>a, <1>b, <2>1 DEF GivePlaces
<1>17. CASE FreeTickets(p)
  <2>1. Hands
    BY <1>17, <1>c DEF FreeTickets, HasTicket, AskForOne
  <2> QED BY <1>17, <1>b, <2>1 DEF FreeTickets, TypeInv, SharedOK
<1>18. CASE FreeQueue(p)
  <2>1. Hands
    BY <1>18, <1>c DEF FreeQueue, HasTicket, AskForOne
  <2>2. queueSem' \in [Faculties -> Nat]
    BY <1>18, <1>r DEF FreeQueue
  <2> QED BY <1>18, <1>b, <2>1, <2>2 DEF FreeQueue, TypeInv, SharedOK
<1>19. CASE ExitOnRemovedIpc(p)
  BY <1>19, <1>a, <1>b, <1>c DEF ExitOnRemovedIpc, HasTicket, AskForOne
<1> QED
  BY <1>1, <1>2, <1>3, <1>4, <1>5, <1>6, <1>7, <1>8, <1>9, <1>10, <1>11,
     <1>12, <1>13, <1>14, <1>15, <1>16, <1>17, <1>18, <1>19 DEF PetentStep

-------------------------------------------------------------------------------
LEMMA RequestTypesIn == RequestTypes \subseteq MsgTypes
BY DEF RequestTypes, MsgTypes

LEMMA FacultyRange == Faculties \subseteq 1..5
<1>1. Desks \subseteq 1..4
  BY SetsAssumption
<1> QED BY <1>1 DEF Faculties, FACULTY_SA

LEMMA RejectedNoRequest == D_MSG_REJECTED \notin RequestTypes
<1>1. \A f \in Faculties \cup {CASHIER_POINT} : f \in 1..6
  BY FacultyRange DEF CASHIER_POINT
<1> QED
  BY <1>1 DEF D_MSG_REJECTED, RequestTypes, D_MSG_TICKET, WorkerMsgTypes,
     D_MSG_WORKER_OFFSET, D_MSG_WORKER_PRIORITY_OFFSET

\* The answer of a machine: for a clerk, never for the cashier.
LEMMA MachineAnswerOK ==
  ASSUME NEW t, Sound(t), Live(t), NEW status
  PROVE  Sound(MachineAnswer(t, status))
<1>1. t.facultytype \in 1..5
  BY FacultyRange DEF Live
<1>2. t.facultytype + D_MSG_WORKER_OFFSET \in WorkerMsgTypes \ CashierTypes
  BY <1>1 DEF Live, WorkerMsgTypes, CashierTypes, D_MSG_WORKER_OFFSET,
     D_MSG_WORKER_PRIORITY_OFFSET, CASHIER_POINT
<1>3. t.facultytype + D_MSG_WORKER_PRIORITY_OFFSET
        \in WorkerMsgTypes \ CashierTypes
  BY <1>1 DEF Live, WorkerMsgTypes, CashierTypes, D_MSG_WORKER_OFFSET,
     D_MSG_WORKER_PRIORITY_OFFSET, CASHIER_POINT
<1> QED BY <1>2, <1>3 DEF MachineAnswer, Sound, Tickets

LEMMA TakeFromLimitOK ==
  ASSUME NEW f \in Faculties, NEW status, TakeFromLimit(f, status), SharedOK
  PROVE  limit' \in [Desks -> Nat] /\ saLimit' \in [1..2 -> Nat]
<1> USE DEF SharedOK, TakeFromLimit
<1>1. CASE f # FACULTY_SA
  <2>1. f \in Desks
    BY <1>1 DEF Faculties
  <2> QED BY <1>1, <2>1
<1>2. CASE f = FACULTY_SA
  <2>1. PICK c \in 1..2 :
          /\ status = (IF saLimit[c] > 0 THEN 0 ELSE -1)
          /\ saLimit' = [saLimit EXCEPT ![c] =
                           @ + (IF status = 0 THEN -1 ELSE 0)]
          /\ UNCHANGED limit
    BY <1>2
  <2> QED BY <2>1
<1> QED BY <1>1, <1>2

LEMMA MachineTypes ==
  ASSUME NEW m \in Machines, MachineStep(m), TypeInv
  PROVE  MsgsOK' /\ MachinesOK' /\ SharedOK'
<1>0. /\ UNCHANGED <<is_opened, petent_pids, configured, tickets>>
      /\ UNCHANGED <<queueSem, ipcRemoved, queuedAtClose>>
      /\ UNCHANGED <<unlocked, ignoredEintr>>
  BY MachineFrame
<1>m. mpc \in [Machines -> MachineLabels]
  BY DEF TypeInv, LockInv
<1> DEFINE Shared == /\ is_locked' \in BOOLEAN /\ opened' \in Int
                     /\ limit' \in [Desks -> Nat] /\ saLimit' \in [1..2 -> Nat]
                     /\ issued' \in [Faculties -> SUBSET Petents]
           busy == {"serve", "reply", "report"}
<1> SUFFICES MsgsOK' /\ MachinesOK' /\ Shared
  BY <1>0 DEF TypeInv, SharedOK
<1>a. ASSUME UNCHANGED <<is_locked, opened, limit, saLimit, issued>>
      PROVE  Shared
  BY <1>a DEF TypeInv, SharedOK
<1>b. ASSUME UNCHANGED msgs PROVE MsgsOK'
  BY <1>b DEF TypeInv, MsgsOK
\* The machine moves to l with the ticket t in its hands.
<1>c. ASSUME NEW t \in Tickets, mtck' = [mtck EXCEPT ![m] = t],
             NEW l, MGoto(m, l), l \in busy => Sound(t) /\ Live(t),
             mopen' \in [Machines -> BOOLEAN],
             mstatus' \in [Machines -> {0, -1}]
      PROVE  MachinesOK'
  BY <1>c, <1>m DEF TypeInv, MachinesOK, MGoto
<1>d. ASSUME UNCHANGED mtck, NEW l, MGoto(m, l),
             l \in busy => mpc[m] \in busy,
             mopen' \in [Machines -> BOOLEAN],
             mstatus' \in [Machines -> {0, -1}]
      PROVE  MachinesOK'
  BY <1>d, <1>m DEF TypeInv, MachinesOK, MGoto
<1>e. mopen \in [Machines -> BOOLEAN] /\ mstatus \in [Machines -> {0, -1}]
  BY DEF TypeInv, MachinesOK
<1>h. mpc[m] \in busy => Sound(mtck[m]) /\ Live(mtck[m])
  BY DEF TypeInv, MachinesOK
<1> USE DEF shmVars, semVars, doorVars, limitVars, history
<1>1. CASE MachineLockOpened(m)
  <2>1. MachinesOK'
    BY <1>1, <1>d, <1>e DEF MachineLockOpened
  <2>2. Shared
    BY <1>1 DEF MachineLockOpened, TypeInv, SharedOK
  <2> QED BY <1>1, <1>b, <2>1, <2>2 DEF MachineLockOpened
<1>2. CASE MachineUnlockOpened(m)
  <2>1. MachinesOK'
    BY <1>2, <1>d, <1>e DEF MachineUnlockOpened
  <2>2. Shared
    BY <1>2 DEF MachineUnlockOpened, TypeInv, SharedOK
  <2> QED BY <1>2, <1>b, <2>1, <2>2 DEF MachineUnlockOpened
<1>3. CASE MachineCheck(m)
  <2>1. PICK l : MGoto(m, l) /\ l \in {"done", "poll", "check"}
    BY <1>3 DEF MachineCheck
  <2>2. mopen' \in [Machines -> BOOLEAN]
    <3>1. TicketQueueLengths \subseteq Int
      BY DEF TicketQueueLengths
    <3>2. count_diff(m) \in Int
      <4>1. m \in Nat /\ BuildingMax \in Nat /\ TicketMachineCount \in Nat \ {0}
        BY SetsAssumption, NumbersAssumption
      <4>2. BuildingMax \div TicketMachineCount \in Int
        BY <4>1
      <4> QED BY <4>1, <4>2 DEF count_diff
    <3>3. \/ mopen' = [mopen EXCEPT ![m] = FALSE]
          \/ \E n \in Int : mopen' = [mopen EXCEPT ![m] = n >= count_diff(m)]
      BY <1>3, <3>1 DEF MachineCheck
    <3>4. ASSUME NEW n \in Int, mopen' = [mopen EXCEPT ![m] = n >= count_diff(m)]
          PROVE  mopen' \in [Machines -> BOOLEAN]
      <4>1. (n >= count_diff(m)) \in BOOLEAN
        <5>1. CASE n >= count_diff(m)
          BY <5>1
        <5>2. CASE ~(n >= count_diff(m))
          BY <5>2, <3>2
        <5> QED BY <5>1, <5>2
      <4> DEFINE b == (n >= count_diff(m))
      <4>2. b \in BOOLEAN /\ mopen' = [mopen EXCEPT ![m] = b]
        BY <4>1, <3>4
      <4> HIDE DEF b
      <4> QED BY <4>2, <1>e
    <3> QED BY <3>3, <3>4, <1>e
  <2>3. MachinesOK'
    BY <1>3, <1>d, <1>e, <2>1, <2>2 DEF MachineCheck
  <2> QED BY <1>3, <1>a, <1>b, <2>3 DEF MachineCheck
<1>4. CASE MachinePoll(m)
  <2>1. ASSUME Receive(D_MSG_TICKET), MGoto(m, "serve"),
               mtck' = [mtck EXCEPT ![m] = Head(msgs[D_MSG_TICKET])]
        PROVE  MsgsOK' /\ MachinesOK'
    <3>1. MsgsOK' /\ Head(msgs[D_MSG_TICKET]) \in Letters(D_MSG_TICKET)
      BY <2>1, RequestTypesIn, ReceiveOK DEF TypeInv, RequestTypes
    <3>2. /\ Sound(Head(msgs[D_MSG_TICKET])) /\ Live(Head(msgs[D_MSG_TICKET]))
          /\ Head(msgs[D_MSG_TICKET]) \in Tickets
      BY <3>1 DEF Letters, RequestTypes
    <3> QED BY <1>4, <1>c, <1>e, <2>1, <3>1, <3>2 DEF MachinePoll
  <2>2. ASSUME MGoto(m, "lockCheck"), UNCHANGED <<msgs, mtck>>
        PROVE  MsgsOK' /\ MachinesOK'
    BY <1>4, <1>b, <1>d, <1>e, <2>2 DEF MachinePoll
  <2> QED BY <1>4, <1>a, <2>1, <2>2 DEF MachinePoll
<1>5. CASE MachineServe(m)
  <2> DEFINE f == mtck[m].facultytype
  <2>1. Sound(mtck[m]) /\ f \in Faculties
    BY <1>5, <1>h DEF MachineServe, Live
  <2>2. PICK status \in {0, -1} :
          /\ TakeFromLimit(f, status)
          /\ mstatus' = [mstatus EXCEPT ![m] = status]
          /\ issued' = IF status = 0
                         THEN [issued EXCEPT ![f] = @ \cup {mtck[m].requester}]
                         ELSE issued
    BY <1>5 DEF MachineServe
  <2>3. limit' \in [Desks -> Nat] /\ saLimit' \in [1..2 -> Nat]
    BY <2>1, <2>2, TakeFromLimitOK DEF TypeInv
  <2>4. issued' \in [Faculties -> SUBSET Petents]
    BY <2>1, <2>2 DEF TypeInv, SharedOK, Sound
  <2>5. mstatus' \in [Machines -> {0, -1}]
    BY <1>e, <2>2
  <2>6. MachinesOK'
    BY <1>5, <1>d, <1>e, <2>5 DEF MachineServe
  <2> QED BY <1>5, <1>b, <2>3, <2>4, <2>6 DEF MachineServe, TypeInv, SharedOK
<1>6. CASE MachineReply(m)
  <2>1. Sound(mtck[m]) /\ Live(mtck[m])
    BY <1>6, <1>h DEF MachineReply
  <2>2. MsgsOK'
    <3> DEFINE t == MachineAnswer(mtck[m], mstatus[m])
               r == mtck[m].requester
    <3>1. Sound(t) /\ r \in Petents
      BY <2>1, MachineAnswerOK DEF Sound
    <3>2. t \in Letters(r)
      BY <3>1, PetentTypesIn DEF Letters, Sound
    <3> QED BY <1>6, <3>2, SendOK DEF MachineReply, TypeInv
  <2>3. mstatus' \in [Machines -> {0, -1}] /\ mopen' = mopen
    BY <1>6, <1>e DEF MachineReply
  <2>4. MachinesOK'
    <3>1. ASSUME mtck' = [mtck EXCEPT ![m] = NoTicket], MGoto(m, "lockCheck")
          PROVE  MachinesOK'
      BY <3>1, <1>c, <1>e, <2>3, NoTicketOK
    <3>2. ASSUME UNCHANGED mtck, MGoto(m, "report") PROVE MachinesOK'
      BY <1>6, <3>2, <1>d, <1>e, <2>3 DEF MachineReply
    <3> QED BY <1>6, <3>1, <3>2 DEF MachineReply
  <2> QED BY <1>6, <1>a, <2>2, <2>4 DEF MachineReply
<1>7. CASE MachineReport(m)
  <2> DEFINE t == [mtck[m] EXCEPT !.queueid = 1]
  <2>1. Sound(mtck[m])
    BY <1>7, <1>h DEF MachineReport
  <2>2. Sound(t) /\ Live(t) /\ t.queueid = 1
    <3>1. 1 \notin CashierTypes
      BY DEF CashierTypes, CASHIER_POINT, D_MSG_WORKER_OFFSET,
         D_MSG_WORKER_PRIORITY_OFFSET
    <3>2. Live(mtck[m])
      BY <1>7, <1>h DEF MachineReport
    <3> QED BY <2>1, <3>1, <3>2 DEF Sound, Live, Tickets, D_MSG_TICKET
  <2>3. t \in Letters(D_MSG_REJECTED)
    BY <2>2, RejectedNoRequest DEF Letters, Sound
  <2>4. MsgsOK'
    BY <1>7, <2>3, SendOK DEF MachineReport, TypeInv
  <2>5. MachinesOK'
    BY <1>7, <1>c, <1>e, NoTicketOK DEF MachineReport
  <2> QED BY <1>7, <1>a, <2>4, <2>5 DEF MachineReport
<1>8. CASE MachineLockCheck(m)
  <2>1. MachinesOK'
    BY <1>8, <1>d, <1>e DEF MachineLockCheck
  <2> QED
    BY <1>8, <1>b, <2>1
       DEF MachineLockCheck, LockIfExhausted, TypeInv, SharedOK
<1> QED
  BY <1>1, <1>2, <1>3, <1>4, <1>5, <1>6, <1>7, <1>8 DEF MachineStep

-------------------------------------------------------------------------------
LEMMA TypeRange ==
  ASSUME NEW w \in Workers
  PROVE  WorkerType[w] \in 1..6 /\ WorkerType[w] \in Faculties \cup {CASHIER_POINT}
<1>1. WorkerType[w] \in Faculties \cup {CASHIER_POINT}
  BY SetsAssumption
<1>2. CASE WorkerType[w] \in Faculties
  <2>1. WorkerType[w] \in 1..5
    BY <1>2, FacultyRange
  <2> QED BY <2>1, <1>1
<1>3. CASE WorkerType[w] = CASHIER_POINT
  BY <1>1, <1>3 DEF CASHIER_POINT
<1> QED BY <1>1, <1>2, <1>3

\* The message types a clerk reads, and what a request in them says.
LEMMA WorkerQueue ==
  ASSUME NEW w \in Workers, NEW k \in {PriorityType(w), NormalType(w)}
  PROVE  /\ k \in WorkerMsgTypes
         /\ WorkerType[w] = CASHIER_POINT => k \in CashierTypes
BY TypeRange
   DEF PriorityType, NormalType, WorkerMsgTypes, CashierTypes

LEMMA ForwardOK ==
  ASSUME NEW w \in Workers, NEW f \in Faculties \cup {CASHIER_POINT}
  PROVE  /\ Forward(w, f) \in WorkerMsgTypes
         /\ f \in Faculties => Forward(w, f) \notin CashierTypes
<1>1. Forward(w, f) \in WorkerMsgTypes
  BY DEF Forward, WorkerMsgTypes
<1>2. ASSUME f \in Faculties PROVE Forward(w, f) \notin CashierTypes
  BY <1>2, FacultyRange DEF Forward, CashierTypes, CASHIER_POINT,
     D_MSG_WORKER_OFFSET, D_MSG_WORKER_PRIORITY_OFFSET
<1> QED BY <1>1, <1>2

LEMMA NoCashierType ==
  /\ \A n \in -1..6 : n \notin CashierTypes
  /\ \A f \in Faculties : f + D_MSG_WORKER_PRIORITY_OFFSET
                            \in WorkerMsgTypes \ CashierTypes
<1>1. \A n \in -1..6 : n \notin CashierTypes
  BY DEF CashierTypes, CASHIER_POINT, D_MSG_WORKER_OFFSET,
     D_MSG_WORKER_PRIORITY_OFFSET
<1>2. ASSUME NEW f \in Faculties
      PROVE  f + D_MSG_WORKER_PRIORITY_OFFSET \notin CashierTypes
  BY FacultyRange DEF CashierTypes, CASHIER_POINT, D_MSG_WORKER_OFFSET,
     D_MSG_WORKER_PRIORITY_OFFSET
<1>3. ASSUME NEW f \in Faculties
      PROVE  f + D_MSG_WORKER_PRIORITY_OFFSET \in WorkerMsgTypes
  BY DEF WorkerMsgTypes
<1> QED BY <1>1, <1>2, <1>3

\* Every branch of WorkerServe turns a sound ticket into a sound one.
LEMMA ServeOK ==
  ASSUME NEW w \in Workers, WorkersOK, SharedOK,
         Sound(wtck[w]), Live(wtck[w]),
         WorkerType[w] = CASHIER_POINT => wtck[w].redirected_from \in Faculties,
         Redirect(w) \/ RequirePayment(w) \/ TakePayment(w) \/ Settle(w)
  PROVE  /\ \E t \in Tickets : wout' = [wout EXCEPT ![w] = t] /\ Sound(t)
         /\ limit' \in [Desks -> Nat]
         /\ issued' \in [Faculties -> SUBSET Petents]
<1>0. /\ Desks \subseteq Faculties /\ Faculties \subseteq Int
      /\ FACULTY_SA \in Int
      /\ limit \in [Desks -> Nat] /\ issued \in [Faculties -> SUBSET Petents]
  <2>1. Desks \subseteq Faculties /\ FACULTY_SA \in Faculties
    BY DEF Faculties
  <2>2. Faculties \subseteq Int
    BY FacultyRange
  <2>3. limit \in [Desks -> Nat] /\ issued \in [Faculties -> SUBSET Petents]
    BY DEF SharedOK
  <2> QED BY <2>1, <2>2, <2>3
<1>1. CASE Redirect(w)
  <2>1. PICK f \in Desks :
         LET t == [wtck[w] EXCEPT !.facultytype = f,
                                  !.redirected_from = FACULTY_SA] IN
         \/ /\ limit[f] > 0
            /\ limit' = [limit EXCEPT ![f] = @ - 1]
            /\ issued' = [issued EXCEPT ![f] = @ \cup {t.requester}]
            /\ wout' = [wout EXCEPT ![w] = [t EXCEPT !.queueid = Forward(w, f)]]
         \/ /\ wout' = [wout EXCEPT ![w] =
                          [t EXCEPT !.ticketid = -1, !.queueid = 0]]
            /\ UNCHANGED <<limit, issued>>
    BY <1>1 DEF Redirect
  <2> DEFINE t == [wtck[w] EXCEPT !.facultytype = f,
                                  !.redirected_from = FACULTY_SA]
             u == [t EXCEPT !.queueid = Forward(w, f)]
             v == [t EXCEPT !.ticketid = -1, !.queueid = 0]
  <2>2. t.requester \in Petents
    BY DEF Sound, Tickets
  <2>3. u \in Tickets /\ Sound(u)
    <3>1. /\ Forward(w, f) \in WorkerMsgTypes
          /\ Forward(w, f) \notin CashierTypes
      BY <1>0, ForwardOK
    <3> QED BY <3>1, <1>0 DEF Sound, Tickets
  <2>4. v \in Tickets /\ Sound(v)
    <3>1. 0 \notin CashierTypes
      BY NoCashierType
    <3> QED BY <3>1, <1>0 DEF Sound, Tickets
  <2>5. CASE /\ limit[f] > 0 /\ limit' = [limit EXCEPT ![f] = @ - 1]
             /\ issued' = [issued EXCEPT ![f] = @ \cup {t.requester}]
             /\ wout' = [wout EXCEPT ![w] = u]
    <3>1. limit' \in [Desks -> Nat]
      BY <2>5, <1>0
    <3>2. issued' \in [Faculties -> SUBSET Petents]
      BY <2>2, <2>5, <1>0
    <3>3. \E q \in Tickets : wout' = [wout EXCEPT ![w] = q] /\ Sound(q)
      BY <2>3, <2>5
    <3> QED BY <3>1, <3>2, <3>3
  <2>6. CASE wout' = [wout EXCEPT ![w] = v] /\ UNCHANGED <<limit, issued>>
    BY <2>4, <2>6, <1>0
  <2> QED BY <2>1, <2>5, <2>6
<1>2. CASE RequirePayment(w)
  <2> DEFINE u == [wtck[w] EXCEPT !.payment = PAYMENT_NEEDED,
                                  !.redirected_from = wtck[w].facultytype,
                                  !.queueid = Forward(w, CASHIER_POINT)]
  <2>1. Forward(w, CASHIER_POINT) \in WorkerMsgTypes
    BY ForwardOK
  <2>2. u \in Tickets /\ Sound(u)
    BY <2>1, <1>0 DEF Sound, Live, Tickets, Payments
  <2> QED BY <1>2, <2>2, <1>0 DEF RequirePayment
<1>3. CASE TakePayment(w)
  <2> DEFINE from == wtck[w].redirected_from
             u == [wtck[w] EXCEPT !.payment = PAYMENT_SUCCESS,
                       !.facultytype = from,
                       !.queueid = from + D_MSG_WORKER_PRIORITY_OFFSET]
  <2>1. from \in Faculties
    BY <1>3 DEF TakePayment
  <2>2. from + D_MSG_WORKER_PRIORITY_OFFSET \in WorkerMsgTypes \ CashierTypes
    BY <2>1, NoCashierType
  <2>3. u \in Tickets /\ Sound(u)
    BY <2>1, <2>2 DEF Sound, Tickets, Payments
  <2> QED BY <1>3, <2>3, <1>0 DEF TakePayment
<1>4. CASE Settle(w)
  <2> DEFINE u == [wtck[w] EXCEPT !.facultytype = 0, !.queueid = 0]
  <2>1. 0 \notin CashierTypes
    BY NoCashierType
  <2>2. u \in Tickets /\ Sound(u)
    BY <2>1 DEF Sound, Tickets
  <2> QED BY <1>4, <2>2, <1>0 DEF Settle
<1> QED BY <1>1, <1>2, <1>3, <1>4

LEMMA WorkerTypes ==
  ASSUME NEW w \in Workers, WorkerStep(w), TypeInv
  PROVE  MsgsOK' /\ WorkersOK' /\ SharedOK'
<1>0. /\ UNCHANGED <<is_opened, petent_pids, configured, tickets, queueSem>>
      /\ UNCHANGED <<saLimit, sig1, ipcRemoved, queuedAtClose, ignoredEintr>>
      /\ unlocked' \subseteq unlocked
  BY WorkerFrame DEF lockVars, LeaveSection
<1>m. wpc \in [Workers -> WorkerLabels]
  BY DEF TypeInv, ShutInv
<1> DEFINE Shared == /\ is_locked' \in BOOLEAN /\ opened' \in Int
                     /\ limit' \in [Desks -> Nat]
                     /\ issued' \in [Faculties -> SUBSET Petents]
           answering == {"number", "reply", "report"}
           GoodIn(t) == /\ Sound(t) /\ Live(t)
                        /\ WorkerType[w] = CASHIER_POINT =>
                             t.redirected_from \in Faculties
           Hands == /\ wtck' \in [Workers -> Tickets]
                    /\ wout' \in [Workers -> Tickets]
                    /\ wvip' \in [Workers -> BOOLEAN]
                    /\ wtck' = [wtck EXCEPT ![w] = wtck'[w]]
                    /\ wout' = [wout EXCEPT ![w] = wout'[w]]
<1> SUFFICES MsgsOK' /\ WorkersOK' /\ Shared
  BY <1>0 DEF TypeInv, SharedOK
<1>a. ASSUME UNCHANGED <<is_locked, opened, limit, issued>> PROVE Shared
  BY <1>a DEF TypeInv, SharedOK
<1>b. ASSUME UNCHANGED msgs PROVE MsgsOK'
  BY <1>b DEF TypeInv, MsgsOK
<1>c. ASSUME Hands, NEW l, WGoto(w, l), l \in Holding => GoodIn(wtck'[w]),
             l \in answering => Sound(wout'[w])
      PROVE  WorkersOK'
  BY <1>0, <1>c, <1>m DEF TypeInv, WorkersOK, WGoto
<1>h. /\ wpc[w] \in Holding => GoodIn(wtck[w])
      /\ wpc[w] \in answering => Sound(wout[w])
      /\ sig1 \in [Workers -> BOOLEAN] /\ wtck \in [Workers -> Tickets]
      /\ wout \in [Workers -> Tickets] /\ wvip \in [Workers -> BOOLEAN]
  BY DEF TypeInv, WorkersOK
<1>u. ASSUME UNCHANGED <<wtck, wout, wvip>> PROVE Hands
  BY <1>u, <1>h
<1>e. ASSUME EmptyHand(w) PROVE Hands
  BY <1>e, <1>h, NoTicketOK DEF EmptyHand
<1> HIDE DEF Hands
<1> USE DEF shmVars, semVars, doorVars, limitVars, history
<1>1. CASE WorkerLockOpened(w)
  <2>1. WorkersOK'
    BY <1>1, <1>c, <1>u DEF WorkerLockOpened, Holding
  <2>2. Shared
    BY <1>1 DEF WorkerLockOpened, TypeInv, SharedOK
  <2> QED BY <1>1, <1>b, <2>1, <2>2 DEF WorkerLockOpened
<1>2. CASE WorkerUnlockOpened(w)
  <2>1. WorkersOK'
    BY <1>2, <1>c, <1>u DEF WorkerUnlockOpened, Holding
  <2>2. Shared
    BY <1>2 DEF WorkerUnlockOpened, TypeInv, SharedOK
  <2> QED BY <1>2, <1>b, <2>1, <2>2 DEF WorkerUnlockOpened
<1>3. CASE WorkerCheck(w)
  <2>1. PICK l : WGoto(w, l) /\ l \in {"drainPrio", "pollPrio"}
    BY <1>3 DEF WorkerCheck
  <2>2. WorkersOK'
    BY <1>3, <1>c, <1>u, <2>1 DEF WorkerCheck, Holding
  <2> QED BY <1>3, <1>a, <1>b, <2>2 DEF WorkerCheck
<1>4. CASE WorkerPoll(w)
  <2>1. PICK k \in {PriorityType(w), NormalType(w)}, vip \in BOOLEAN,
             l \in {"serve", "drainReport"},
             empty \in {"poll", "check", "drain", "done"} :
          Take(w, k, vip, l, empty)
    BY <1>4 DEF WorkerPoll
  <2>2. k \in MsgTypes /\ k \in RequestTypes
        /\ (WorkerType[w] = CASHIER_POINT => k \in CashierTypes)
    BY WorkerQueue DEF RequestTypes, MsgTypes
  <2> DEFINE t == Head(msgs[k])
  <2>3. ASSUME Receive(k), wtck' = [wtck EXCEPT ![w] = t],
               wvip' = [wvip EXCEPT ![w] = vip], WGoto(w, l)
        PROVE  MsgsOK' /\ WorkersOK'
    <3>1. MsgsOK' /\ t \in Letters(k)
      BY <2>2, <2>3, ReceiveOK DEF TypeInv
    <3>2. GoodIn(t) /\ t \in Tickets
      BY <2>2, <3>1 DEF Letters, Sound
    <3>3. wout' = wout
      BY <1>4 DEF WorkerPoll
    <3>4. Hands /\ wtck'[w] = t
      BY <2>3, <3>2, <3>3, <1>h DEF Hands
    <3> QED BY <2>3, <3>1, <3>2, <3>4, <1>c
  <2>4. ASSUME WGoto(w, empty), UNCHANGED <<msgs, wtck, wvip>>
        PROVE  MsgsOK' /\ WorkersOK'
    <3>1. Hands
      BY <1>4, <1>u, <2>4 DEF WorkerPoll
    <3> QED BY <2>4, <3>1, <1>b, <1>c DEF Holding
  <2>5. MsgsOK' /\ WorkersOK'
    BY <2>1, <2>3, <2>4 DEF Take
  <2> QED BY <1>4, <1>a, <2>5 DEF WorkerPoll
<1>5. CASE WorkerServe(w)
  <2>1. GoodIn(wtck[w])
    BY <1>5, <1>h DEF WorkerServe, Holding
  <2>2. /\ \E t \in Tickets : wout' = [wout EXCEPT ![w] = t] /\ Sound(t)
        /\ limit' \in [Desks -> Nat]
        /\ issued' \in [Faculties -> SUBSET Petents]
    BY <1>5, <2>1, ServeOK DEF WorkerServe, TypeInv
  <2>3. Hands /\ Sound(wout'[w]) /\ wtck' = wtck
    BY <1>5, <2>2, <1>h DEF WorkerServe, Hands
  <2>4. PICK l : WGoto(w, l)
    BY <1>5 DEF WorkerServe
  <2>5. WorkersOK'
    BY <2>1, <2>3, <2>4, <1>c
  <2> QED BY <1>5, <1>b, <2>2, <2>5 DEF WorkerServe, TypeInv, SharedOK
<1>6. CASE WorkerNumber(w)
  <2>1. GoodIn(wtck[w]) /\ Sound(wout[w]) /\ wout[w] \in Tickets
    BY <1>6, <1>h DEF WorkerNumber, Holding
  <2> DEFINE t == [wout[w] EXCEPT !.ticketid = 1]
  <2>2. t \in Tickets /\ Sound(t)
    BY <2>1 DEF Sound, Tickets
  <2>3. wout' = [wout EXCEPT ![w] = t]
    BY <1>6, <1>h DEF WorkerNumber
  <2>4. Hands /\ wout'[w] = t /\ wtck' = wtck
    BY <1>6, <2>2, <2>3, <1>h DEF WorkerNumber, Hands
  <2>5. WorkersOK'
    BY <1>6, <2>1, <2>2, <2>4, <1>c DEF WorkerNumber
  <2> QED BY <1>6, <1>a, <1>b, <2>5 DEF WorkerNumber
<1>7. CASE WorkerReply(w)
  <2>1. GoodIn(wtck[w]) /\ Sound(wout[w]) /\ wout[w] \in Tickets
    BY <1>7, <1>h DEF WorkerReply, Holding
  <2>2. MsgsOK'
    <3>1. wout[w].requester \in Petents
      BY <2>1 DEF Sound
    <3>2. wout[w] \in Letters(wout[w].requester)
      BY <2>1, <3>1, PetentTypesIn DEF Letters
    <3> QED BY <1>7, <3>2, SendOK DEF WorkerReply, TypeInv
  <2>3. WorkersOK'
    BY <1>7, <2>1, <1>c, <1>u DEF WorkerReply
  <2> QED BY <1>7, <1>a, <2>2, <2>3 DEF WorkerReply
<1>8. CASE WorkerReport(w)
  <2>1. GoodIn(wtck[w]) /\ Sound(wout[w]) /\ wtck[w] \in Tickets
    BY <1>8, <1>h DEF WorkerReport, Holding
  <2>2. Refusal(w) \in Letters(D_MSG_REJECTED)
    <3>1. WorkerType[w] \notin CashierTypes
      BY TypeRange, NoCashierType
    <3>2. WorkerType[w] \in Faculties \cup {CASHIER_POINT}
      BY TypeRange
    <3>3. Refusal(w) \in Tickets /\ Sound(Refusal(w))
      BY <2>1, <3>1, <3>2 DEF Refusal, Sound, Tickets
    <3> QED BY <3>3, RejectedNoRequest DEF Letters
  <2>3. MsgsOK'
    BY <1>8, <2>2, SendOK DEF WorkerReport, TypeInv
  <2>4. WorkersOK'
    BY <1>8, <1>c, <1>u DEF WorkerReport, Holding
  <2> QED BY <1>8, <1>a, <2>3, <2>4 DEF WorkerReport
<1>9. CASE WorkerLockCheck(w)
  <2>1. WorkersOK'
    BY <1>9, <1>c, <1>e DEF WorkerLockCheck, Holding
  <2>2. Shared
    BY <1>9 DEF WorkerLockCheck, LockIfExhausted, TypeInv, SharedOK
  <2> QED BY <1>9, <1>b, <2>1, <2>2 DEF WorkerLockCheck
<1>10. CASE WorkerDrainReport(w)
  <2> DEFINE t == [wtck[w] EXCEPT !.queueid = WorkerType[w]]
  <2>1. GoodIn(wtck[w]) /\ wtck[w] \in Tickets
    BY <1>10, <1>h DEF WorkerDrainReport, Holding
  <2>2. t \in Letters(D_MSG_REJECTED)
    <3>1. WorkerType[w] \notin CashierTypes
      BY TypeRange, NoCashierType
    <3>2. WorkerType[w] \in Faculties \cup {CASHIER_POINT}
      BY TypeRange
    <3>3. t \in Tickets /\ Sound(t)
      BY <2>1, <3>1, <3>2 DEF Sound, Tickets
    <3> QED BY <3>3, RejectedNoRequest DEF Letters
  <2>3. MsgsOK'
    BY <1>10, <2>2, SendOK DEF WorkerDrainReport, TypeInv
  <2>4. WorkersOK'
    BY <1>10, <2>1, <1>c, <1>u DEF WorkerDrainReport
  <2> QED BY <1>10, <1>a, <2>3, <2>4 DEF WorkerDrainReport
<1>11. CASE WorkerDrainReply(w)
  <2> DEFINE t == [wtck[w] EXCEPT !.ticketid = -1, !.queueid = -1]
             r == wtck[w].requester
  <2>1. GoodIn(wtck[w]) /\ wtck[w] \in Tickets
    BY <1>11, <1>h DEF WorkerDrainReply, Holding
  <2>2. t \in Letters(r)
    <3>1. -1 \notin CashierTypes
      BY NoCashierType
    <3>2. t \in Tickets /\ Sound(t)
      BY <2>1, <3>1 DEF Sound, Tickets
    <3> QED BY <2>1, <3>2, PetentTypesIn DEF Letters, Sound
  <2>3. MsgsOK'
    BY <1>11, <2>2, SendOK DEF WorkerDrainReply, TypeInv
  <2>4. PICK l : WGoto(w, l) /\ l \in {"drainPrio", "drain"}
    BY <1>11 DEF WorkerDrainReply, DrainLoop
  <2>5. WorkersOK'
    BY <1>11, <2>4, <1>c, <1>e DEF WorkerDrainReply, Holding
  <2> QED BY <1>11, <1>a, <2>3, <2>5 DEF WorkerDrainReply
<1> QED
  BY <1>1, <1>2, <1>3, <1>4, <1>5, <1>6, <1>7, <1>8, <1>9, <1>10, <1>11
     DEF WorkerStep

-------------------------------------------------------------------------------
\* A signal hands nobody a ticket: a clerk it interrupts goes on with the one
\* it has, and a petent it interrupts is on the way out.
LEMMA Signal1OK ==
  ASSUME NEW S \in SUBSET Workers, Signal1(S), TypeInv,
         UNCHANGED <<wtck, wout, wvip>>
  PROVE  /\ WorkersOK' /\ unlocked' \subseteq Petents \cup Workers
         /\ ignoredEintr' \in BOOLEAN
<1>1. sig1' \in [Workers -> BOOLEAN]
  BY DEF Signal1, TypeInv, WorkersOK
<1>2. ASSUME NEW w \in Workers
      PROVE  /\ wpc'[w] \in Holding => wpc[w] \in Holding
             /\ wpc'[w] \in {"number", "reply", "report"} =>
                  wpc[w] \in {"number", "reply", "report"}
  BY <1>2 DEF Signal1, AfterFailure, AfterReply, DrainLoop, Holding
<1>3. unlocked' \subseteq Petents \cup Workers /\ ignoredEintr' \in BOOLEAN
  BY DEF Signal1, TypeInv, SharedOK
<1> QED BY <1>1, <1>2, <1>3 DEF TypeInv, WorkersOK

LEMMA ScanOK ==
  ASSUME NEW next, ScanPids(next), TypeInv, UNCHANGED tck
  PROVE  /\ PetentsOK' /\ scan' \in 0..(PidsLimit + 1)
         /\ petent_pids' \in [1..PidsLimit -> Petents \cup {NoPid}]
         /\ unlocked' \subseteq Petents \cup Workers /\ ignoredEintr' \in BOOLEAN
<1> USE NumbersAssumption DEF ScanPids
<1>m. /\ pc \in [Petents -> PetentLabels] /\ sig2 \in [Petents -> BOOLEAN]
      /\ petent_pids \in [1..PidsLimit -> Petents \cup {NoPid}]
      /\ scan \in 0..(PidsLimit + 1) /\ PetentsOK
      /\ unlocked \subseteq Petents \cup Workers /\ ignoredEintr \in BOOLEAN
  BY DEF TypeInv, CapacityInv, PetentsOK, SharedOK, DirectorOK
<1>1. scan' \in 0..(PidsLimit + 1)
  BY <1>m
<1>2. petent_pids' \in [1..PidsLimit -> Petents \cup {NoPid}]
  BY <1>m
<1>3. ASSUME UNCHANGED <<pc, sig2>> PROVE PetentsOK'
  BY <1>3, <1>m DEF PetentsOK
<1>4. ASSUME NEW p \in Petents, Signal2(p) PROVE PetentsOK'
  <2>1. sig2' \in [Petents -> BOOLEAN]
    BY <1>m, <1>4 DEF Signal2
  <2>2. \/ pc' = pc
        \/ \E l : /\ pc' = [pc EXCEPT ![p] = l]
                  /\ l \notin HasTicket \cup AskForOne \cup {"frustrated"}
    <3>1. Blocked(p) => OnInterrupt(pc[p])
                          \notin HasTicket \cup AskForOne \cup {"frustrated"}
      BY DEF Blocked, OnInterrupt, HasTicket, AskForOne
    <3> QED BY <1>4, <3>1 DEF Signal2, Goto
  <2> QED BY <1>m, <2>1, <2>2 DEF PetentsOK
<1>5. UNCHANGED <<pc, sig2, lockVars>> \/ \E p \in Petents : Signal2(p)
  BY <1>m
<1>6. unlocked' \subseteq Petents \cup Workers /\ ignoredEintr' \in BOOLEAN
  BY <1>m, <1>5 DEF Signal2, lockVars
<1> QED BY <1>1, <1>2, <1>3, <1>4, <1>5, <1>6

LEMMA DirectorTypes ==
  ASSUME DirectorStep, TypeInv
  PROVE  PetentsOK' /\ WorkersOK' /\ DirectorOK' /\ SharedOK'
<1>0. /\ UNCHANGED <<is_locked, tickets, queueSem, limit, saLimit, tck>>
      /\ UNCHANGED <<cust, wtck, wout, wvip, rpc, collected, ipcRemoved, issued>>
  BY DirectorFrame
<1>t. PetentsOK /\ WorkersOK /\ DirectorOK /\ SharedOK
  BY DEF TypeInv
<1>p. ASSUME UNCHANGED petentVars PROVE PetentsOK'
  BY <1>p, <1>t DEF petentVars, PetentsOK
<1>w. ASSUME UNCHANGED workerVars PROVE WorkersOK'
  BY <1>w, <1>t DEF workerVars, WorkersOK
<1>d. ASSUME scan' \in 0..(PidsLimit + 1), running' \in BOOLEAN,
             raport' \in {raport, collected}
      PROVE  DirectorOK'
  BY <1>0, <1>d, <1>t DEF DirectorOK
<1>e. ASSUME scan' = scan, running' = running, raport' = raport
      PROVE  DirectorOK'
  BY <1>0, <1>e, <1>t DEF DirectorOK
<1>s. ASSUME is_opened' \in BOOLEAN, configured' \in BOOLEAN, opened' \in Int,
             petent_pids' \in [1..PidsLimit -> Petents \cup {NoPid}],
             queuedAtClose' \subseteq Petents,
             unlocked' \subseteq Petents \cup Workers, ignoredEintr' \in BOOLEAN
      PROVE  SharedOK'
  BY <1>0, <1>s, <1>t DEF SharedOK
<1>k. /\ is_opened \in BOOLEAN /\ configured \in BOOLEAN /\ opened \in Int
      /\ petent_pids \in [1..PidsLimit -> Petents \cup {NoPid}]
      /\ queuedAtClose \subseteq Petents
      /\ unlocked \subseteq Petents \cup Workers /\ ignoredEintr \in BOOLEAN
      /\ scan \in 0..(PidsLimit + 1) /\ running \in BOOLEAN
  BY <1>t DEF SharedOK, DirectorOK
<1>one. 1 \in 0..(PidsLimit + 1)
  BY NumbersAssumption
<1> USE DEF shmVars, doorVars, unsignalled, petentVars, workerVars, lockVars
<1>1. CASE Configure
  BY <1>1, <1>0, <1>p, <1>w, <1>e, <1>s, <1>k DEF Configure
<1>2. CASE OpenOffice
  BY <1>2, <1>0, <1>p, <1>w, <1>e, <1>s, <1>k DEF OpenOffice
<1>3. CASE SetOpened
  BY <1>3, <1>0, <1>p, <1>w, <1>e, <1>s, <1>k DEF SetOpened, OpenedTokens
<1>4. CASE SetBuilding
  BY <1>4, <1>0, <1>p, <1>w, <1>e, <1>s, <1>k DEF SetBuilding
<1>5. CASE TimeUp
  BY <1>5, <1>0, <1>p, <1>w, <1>e, <1>s, <1>k DEF TimeUp
<1>6. CASE Event1
  BY <1>6, <1>0, <1>p, <1>w, <1>e, <1>s, <1>k DEF Event1
<1>7. CASE SendSignal1
  <2>1. PICK S \in SUBSET Workers : Signal1(S)
    BY <1>7 DEF SendSignal1
  <2>2. /\ WorkersOK' /\ unlocked' \subseteq Petents \cup Workers
        /\ ignoredEintr' \in BOOLEAN
    BY <2>1, <1>0, Signal1OK
  <2> QED BY <1>7, <2>2, <1>0, <1>p, <1>e, <1>s, <1>k DEF SendSignal1
<1>8. CASE Event2
  BY <1>8, <1>0, <1>p, <1>w, <1>d, <1>s, <1>k, <1>one DEF Event2
<1>9. CASE Evacuate
  <2>1. /\ PetentsOK' /\ scan' \in 0..(PidsLimit + 1)
        /\ petent_pids' \in [1..PidsLimit -> Petents \cup {NoPid}]
        /\ unlocked' \subseteq Petents \cup Workers /\ ignoredEintr' \in BOOLEAN
    BY <1>9, <1>0, ScanOK DEF Evacuate
  <2> QED BY <1>9, <2>1, <1>0, <1>w, <1>d, <1>s, <1>k DEF Evacuate
<1>10. CASE CloseOpened
  BY <1>10, <1>0, <1>p, <1>w, <1>e, <1>s, <1>k DEF CloseOpened
<1>11. CASE CloseFlag
  BY <1>11, <1>0, <1>p, <1>w, <1>e, <1>s, <1>k DEF CloseFlag
<1>12. CASE CloseBuilding
  BY <1>12, <1>0, <1>p, <1>w, <1>e, <1>s, <1>k DEF CloseBuilding
<1>13. CASE WriteReport
  BY <1>13, <1>0, <1>p, <1>w, <1>d, <1>s, <1>k DEF WriteReport
<1>14. CASE StopThread
  BY <1>14, <1>0, <1>p, <1>w, <1>d, <1>s, <1>k DEF StopThread
<1>15. CASE JoinThread
  BY <1>15, <1>0, <1>p, <1>w, <1>d, <1>s, <1>k, <1>one DEF JoinThread
<1>16. CASE KillRemaining
  <2>1. /\ PetentsOK' /\ scan' \in 0..(PidsLimit + 1)
        /\ petent_pids' \in [1..PidsLimit -> Petents \cup {NoPid}]
        /\ unlocked' \subseteq Petents \cup Workers /\ ignoredEintr' \in BOOLEAN
    BY <1>16, <1>0, ScanOK DEF KillRemaining
  <2> QED BY <1>16, <2>1, <1>0, <1>w, <1>d, <1>s, <1>k DEF KillRemaining
<1> QED
  BY <1>1, <1>2, <1>3, <1>4, <1>5, <1>6, <1>7, <1>8, <1>9, <1>10, <1>11,
     <1>12, <1>13, <1>14, <1>15, <1>16 DEF DirectorStep

LEMMA ThreadTypes ==
  ASSUME ThreadStep, TypeInv
  PROVE  MsgsOK' /\ DirectorOK'
<1>t. DirectorOK /\ MsgsOK
  BY DEF TypeInv
<1>1. CASE ThreadReceive
  <2>1. MsgsOK' /\ Head(msgs[D_MSG_REJECTED]) \in Letters(D_MSG_REJECTED)
    BY <1>1, <1>t, ReceiveOK DEF ThreadReceive, MsgTypes
  <2>2. Head(msgs[D_MSG_REJECTED]) \in Tickets
    BY <2>1 DEF Letters
  <2> QED BY <1>1, <1>t, <2>1, <2>2 DEF ThreadReceive, DirectorOK
<1>2. CASE ThreadStop
  BY <1>2, <1>t DEF ThreadStop, DirectorOK, MsgsOK
<1> QED BY <1>1, <1>2 DEF ThreadStep

-------------------------------------------------------------------------------
LEMMA TypeInit == Init => TypeInv
<1> SUFFICES ASSUME Init PROVE TypeInv
  OBVIOUS
<1>1. CapacityInv /\ ShutInv
  BY CapacityInit, ShutInit
<1>2. LockInv
  BY LockInit
<1>3. MsgsOK
  BY DEF Init, MsgsOK
<1>4. PetentsOK
  BY NoTicketOK DEF Init, PetentsOK, HasTicket, AskForOne
<1>5. MachinesOK /\ WorkersOK
  BY NoTicketOK DEF Init, MachinesOK, WorkersOK, Holding
<1>6. DirectorOK
  BY NumbersAssumption DEF Init, DirectorOK
<1>7. SharedOK
  <2>1. petent_pids \in [1..PidsLimit -> Petents \cup {NoPid}]
    BY DEF Init
  <2>2. queueSem \in [Faculties -> Nat]
    BY DEF Init, QueueSlots
  <2>3. limit \in [Desks -> Nat] /\ saLimit \in [1..2 -> Nat] /\ tickets \in Nat
    BY NumbersAssumption DEF Init
  <2>4. issued \in [Faculties -> SUBSET Petents] /\ queuedAtClose \subseteq Petents
    BY DEF Init
  <2>5. /\ is_opened \in BOOLEAN /\ is_locked \in BOOLEAN
        /\ unlocked \subseteq Petents \cup Workers /\ ignoredEintr \in BOOLEAN
        /\ configured \in BOOLEAN /\ ipcRemoved \in BOOLEAN
    BY DEF Init
  <2>6. opened \in Int
    BY DEF Init
  <2> QED BY <2>1, <2>2, <2>3, <2>4, <2>5, <2>6 DEF SharedOK
<1> QED BY <1>1, <1>2, <1>3, <1>4, <1>5, <1>6, <1>7 DEF TypeInv

LEMMA TypeStep == TypeInv /\ [Next]_vars => TypeInv'
<1> SUFFICES ASSUME TypeInv, [Next]_vars PROVE TypeInv'
  OBVIOUS
<1>0. CapacityInv' /\ ShutInv' /\ LockInv'
  BY CapacityStep, ShutStep, LockStep DEF TypeInv
<1> USE DEF TypeInv
<1>b. UNCHANGED msgs => MsgsOK'
  BY DEF MsgsOK
<1>p. UNCHANGED petentVars => PetentsOK'
  BY DEF petentVars, PetentsOK
<1>m. UNCHANGED machineVars => MachinesOK'
  BY DEF machineVars, MachinesOK
<1>w. UNCHANGED workerVars => WorkersOK'
  BY DEF workerVars, WorkersOK
<1>d. UNCHANGED directorVars => DirectorOK'
  BY DEF directorVars, DirectorOK
<1>s. UNCHANGED <<shmVars, semVars, history>> /\ ipcRemoved' \in BOOLEAN
        => SharedOK'
  BY DEF shmVars, semVars, lockVars, doorVars, lineVars, limitVars, history,
     SharedOK
<1>1. ASSUME NEW p \in Petents, PetentStep(p) PROVE TypeInv'
  BY <1>0, <1>1, <1>m, <1>w, <1>d, PetentTypes, PetentFrame
<1>2. ASSUME NEW m \in Machines, MachineStep(m) PROVE TypeInv'
  BY <1>0, <1>2, <1>p, <1>w, <1>d, MachineTypes, MachineFrame
<1>3. ASSUME NEW w \in Workers, WorkerStep(w) PROVE TypeInv'
  BY <1>0, <1>3, <1>p, <1>m, <1>d, WorkerTypes, WorkerFrame
<1>4. CASE DirectorStep
  BY <1>0, <1>4, <1>b, <1>m, DirectorTypes, DirectorFrame
<1>5. CASE ThreadStep
  <2>1. ipcRemoved' = ipcRemoved /\ ipcRemoved \in BOOLEAN
    BY <1>5, ThreadFrame DEF SharedOK
  <2> QED
    BY <1>0, <1>5, <2>1, <1>p, <1>m, <1>w, <1>s, ThreadTypes, ThreadFrame
<1>6. CASE RemoveIpc
  BY <1>0, <1>6, <1>b, <1>p, <1>m, <1>w, <1>d, <1>s DEF RemoveIpc
<1>7. CASE UNCHANGED vars
  <2>1. ipcRemoved' = ipcRemoved /\ ipcRemoved \in BOOLEAN
    BY <1>7 DEF vars, SharedOK
  <2> QED
    BY <1>0, <1>7, <2>1, <1>b, <1>p, <1>m, <1>w, <1>d, <1>s DEF vars
<1> QED
  BY <1>1, <1>2, <1>3, <1>4, <1>5, <1>6, <1>7 DEF Next, Rest

\* Every variable keeps its type, for any number of processes, any limits, any
\* garbage in vip and any interleaving: in particular no semaphore counter goes
\* below zero, a process only answers a petent, and a ticket back from the
\* cashier is for a real faculty.
THEOREM Types == Spec => []TypeOK
<1>1. TypeInv => TypeOK
  <2> SUFFICES ASSUME TypeInv PROVE TypeOK
    OBVIOUS
  <2>1. msgs \in [MsgTypes -> Seq(Tickets)]
    BY MsgsTyped DEF TypeInv
  <2> QED
    BY <2>1 DEF TypeInv, TypeOK, CapacityInv, ShutInv, LockInv, PetentsOK,
       MachinesOK, WorkersOK, DirectorOK, SharedOK
<1> QED BY <1>1, TypeInit, TypeStep, PTL DEF Spec

-------------------------------------------------------------------------------
(* The director's table. *)

LEMMA ListedRegister ==
  ASSUME NEW p \in Petents, PetentStep(p), TypeInv, ListedUntilTold
  PROVE  ListedUntilTold'
<1> DEFINE Listed(q) == \E i \in 1..PidsLimit : petent_pids[i] = q
<1>1. /\ petent_pids \in [1..PidsLimit -> Petents \cup {NoPid}]
      /\ pc' \in [Petents -> PetentLabels] /\ sig2' = sig2
      /\ \A q \in Petents \ {p} : pc'[q] = pc[q]
  BY PetentMoves, PetentFrame DEF TypeInv, SharedOK
<1>2. CASE Register(p)
  <2>1. CASE pc'[p] = "gone" /\ UNCHANGED petent_pids
    BY <1>1, <2>1 DEF ListedUntilTold
  <2>2. ASSUME NEW i \in 1..PidsLimit, petent_pids[i] = NoPid,
               petent_pids' = [petent_pids EXCEPT ![i] = p]
        PROVE  ListedUntilTold'
    <3>1. petent_pids'[i] = p
      BY <1>1, <2>2
    <3>2. ASSUME NEW q \in Petents, Listed(q) PROVE Listed(q)'
      <4>1. PICK j \in 1..PidsLimit : petent_pids[j] = q
        BY <3>2
      <4>2. j # i
        BY <2>2, <4>1, SetsAssumption
      <4> QED BY <1>1, <2>2, <4>1, <4>2
    <3> QED BY <1>1, <3>1, <3>2 DEF ListedUntilTold
  <2>3. Goto(p, "gone") => pc'[p] = "gone"
    BY DEF Goto, TypeInv, CapacityInv
  <2> QED BY <1>2, <2>1, <2>2, <2>3 DEF Register
<1>3. CASE ~Register(p)
  <2>1. UNCHANGED petent_pids
    BY <1>3 DEF PetentStep, PassConfigured, Arrive, LockOpened,
       UnlockOpened, EnterBuilding, Entered, LockTickets, SendTicketRequest,
       ReceiveTicket, LockQueue, SendToWorker, ReceiveFromWorker, WakeFrustrated,
       LeaveBuilding, GivePlaces, FreeTickets, FreeQueue, ExitOnRemovedIpc, shmVars
  <2>2. pc'[p] = "gone" \/ pc[p] \notin {"init", "gone"}
    BY <1>3 DEF PetentStep, PassConfigured, Arrive, LockOpened,
       UnlockOpened, EnterBuilding, Entered, LockTickets, SendTicketRequest,
       ReceiveTicket, LockQueue, SendToWorker, ReceiveFromWorker, WakeFrustrated,
       LeaveBuilding, GivePlaces, FreeTickets, FreeQueue, ExitOnRemovedIpc, At,
       LeaveLabels, GiveLabels, Goto, TypeInv, CapacityInv
  <2> QED BY <1>1, <2>1, <2>2 DEF ListedUntilTold
<1> QED BY <1>2, <1>3

\* The director clears the slot of the process it has just signalled.
LEMMA ListedScan ==
  ASSUME NEW next, ScanPids(next), TypeInv, ListedUntilTold
  PROVE  ListedUntilTold'
<1>1. /\ petent_pids \in [1..PidsLimit -> Petents \cup {NoPid}]
      /\ sig2 \in [Petents -> BOOLEAN] /\ pc \in [Petents -> PetentLabels]
  BY DEF TypeInv, SharedOK, PetentsOK, CapacityInv
<1>2. ASSUME UNCHANGED <<petent_pids, pc, sig2>> PROVE ListedUntilTold'
  BY <1>2 DEF ListedUntilTold
<1>3. ASSUME scan \in 1..PidsLimit,
             petent_pids' = [petent_pids EXCEPT ![scan] = NoPid],
             NEW q \in Petents, pc'[q] \notin {"init", "gone"}, ~sig2'[q],
             IF petent_pids[scan] # NoPid /\ pc[petent_pids[scan]] # "gone"
               THEN Signal2(petent_pids[scan])
               ELSE UNCHANGED <<pc, sig2, lockVars>>
      PROVE  \E i \in 1..PidsLimit : petent_pids'[i] = q
  <2>1. /\ petent_pids[scan] # q
        /\ pc[q] \notin {"init", "gone"} /\ ~sig2[q]
    <3>1. CASE UNCHANGED <<pc, sig2, lockVars>>
              /\ (petent_pids[scan] = NoPid \/ pc[petent_pids[scan]] = "gone")
      BY <1>3, <3>1, SetsAssumption
    <3>2. CASE petent_pids[scan] # NoPid /\ Signal2(petent_pids[scan])
      <4> DEFINE r == petent_pids[scan]
      <4>1. r \in Petents
        BY <1>1, <1>3, <3>2
      <4>2. sig2' = [sig2 EXCEPT ![r] = TRUE]
        BY <3>2 DEF Signal2
      <4>3. r # q /\ ~sig2[q]
        BY <1>1, <1>3, <4>1, <4>2
      <4>4. pc'[q] = pc[q]
        BY <1>1, <3>2, <4>1, <4>3 DEF Signal2, Goto
      <4> QED BY <1>3, <4>3, <4>4
    <3> QED BY <1>3, <3>1, <3>2
  <2>2. PICK i \in 1..PidsLimit : petent_pids[i] = q
    BY <2>1 DEF ListedUntilTold
  <2>3. i # scan
    BY <2>1, <2>2
  <2> QED BY <1>1, <1>3, <2>2, <2>3
<1> QED BY <1>2, <1>3 DEF ScanPids, ListedUntilTold

LEMMA ListedStep == TypeInv /\ ListedUntilTold /\ [Next]_vars => ListedUntilTold'
<1> SUFFICES ASSUME TypeInv, ListedUntilTold, [Next]_vars PROVE ListedUntilTold'
  OBVIOUS
<1>1. ASSUME UNCHANGED <<pc, sig2, petent_pids>> PROVE ListedUntilTold'
  BY <1>1 DEF ListedUntilTold
<1>2. ASSUME NEW p \in Petents, PetentStep(p) PROVE ListedUntilTold'
  BY <1>2, ListedRegister
<1>3. ASSUME NEW m \in Machines, MachineStep(m) PROVE ListedUntilTold'
  BY <1>1, <1>3, MachineFrame DEF petentVars
<1>4. ASSUME NEW w \in Workers, WorkerStep(w) PROVE ListedUntilTold'
  BY <1>1, <1>4, WorkerFrame DEF petentVars
<1>5. CASE DirectorStep
  <2>1. CASE Evacuate \/ KillRemaining
    BY <2>1, ListedScan DEF Evacuate, KillRemaining
  <2>2. CASE ~Evacuate /\ ~KillRemaining
    BY <1>1, <1>5, <2>2 DEF DirectorStep, Configure, OpenOffice, SetOpened,
       SetBuilding, TimeUp, Event1, SendSignal1, Event2, CloseOpened, CloseFlag,
       CloseBuilding, WriteReport, StopThread, JoinThread, shmVars, unsignalled
  <2> QED BY <2>1, <2>2
<1>6. CASE ThreadStep
  BY <1>1, <1>6, ThreadFrame DEF shmVars, petentVars
<1>7. CASE RemoveIpc
  BY <1>1, <1>7 DEF RemoveIpc, shmVars, petentVars
<1>8. CASE UNCHANGED vars
  BY <1>1, <1>8 DEF vars, shmVars, petentVars
<1> QED
  BY <1>2, <1>3, <1>4, <1>5, <1>6, <1>7, <1>8 DEF Next, Rest

\* The signal of the director reaches every petent that is registered: no slot
\* is overwritten by a latecomer, and none is cleared unsignalled, though the
\* walk over petent_pids (dyrektor.c:225-231, 287-294) is made without semlock.
THEOREM SignalReaches == Spec => []ListedUntilTold
<1>1. Init => ListedUntilTold
  BY DEF Init, ListedUntilTold
<1> QED BY TypeInit, TypeStep, ListedStep, <1>1, PTL DEF Spec
-------------------------------------------------------------------------------
(* The first machine. *)

\* Machine 0 closes itself only with the office, whatever GETNCNT returns.
LEMMA MachineZero ==
  ASSUME TypeInv, NEW m \in Machines, MachineStep(m), 0 \in Machines,
         mopen[0], is_opened'
  PROVE  mopen'[0]
<1>0. mopen \in [Machines -> BOOLEAN]
  BY DEF TypeInv, MachinesOK
<1>1. CASE mopen' = mopen
  BY <1>1
<1>2. CASE MachineCheck(m)
  <2>1. is_opened
    BY <1>2 DEF MachineCheck, shmVars
  <2>2. PICK tqueue \in TicketQueueLengths :
          mopen' = [mopen EXCEPT ![m] = tqueue >= count_diff(m)]
    BY <1>2, <2>1 DEF MachineCheck
  <2>3. CASE m = 0
    <3>1. tqueue \in Int /\ tqueue >= 0
      BY DEF TicketQueueLengths
    <3>2. BuildingMax \div TicketMachineCount \in Int
      BY NumbersAssumption
    <3>3. count_diff(0) = 0
      BY <3>2 DEF count_diff
    <3> QED BY <1>0, <2>2, <2>3, <3>1, <3>3
  <2>4. CASE m # 0
    BY <1>0, <2>2, <2>4
  <2> QED BY <2>3, <2>4
<1> QED
  BY <1>1, <1>2 DEF MachineStep, MachineLockOpened, MachineUnlockOpened,
     MachinePoll, MachineServe, MachineReply, MachineReport, MachineLockCheck

\* The first ticket machine, once open, stays at work as long as the office is
\* open, for any number of machines and any length of the line: what the code
\* compares the line to is 0 for it.
THEOREM FirstMachine == Spec => FirstMachineStays
<1>1. TypeInv /\ [Next]_vars =>
        [(0 \in Machines /\ mopen[0] /\ is_opened') => mopen'[0]]_vars
  <2> SUFFICES ASSUME TypeInv, [Next]_vars, 0 \in Machines, mopen[0], is_opened'
               PROVE  mopen'[0]
    OBVIOUS
  <2>1. (\E m \in Machines : MachineStep(m)) \/ UNCHANGED mopen
    BY PetentFrame, WorkerFrame, DirectorFrame, ThreadFrame
       DEF Next, Rest, RemoveIpc, vars, machineVars
  <2> QED BY <2>1, MachineZero
<1> QED BY TypeInit, TypeStep, <1>1, PTL DEF Spec, FirstMachineStays

-------------------------------------------------------------------------------
(* What signal 1 asks of a clerk. *)

\* The labels from the head of the loop to the end of the clerk, and a clerk that
\* has got signal 1 and is at one of them.
Leaving   == {"check", "drainPrio", "drain", "drainReport", "drainReply", "done"}
Ending(w) == sig1[w] /\ wpc[w] \in Leaving

\* None of its own steps brings it back to its work,
LEMMA EndingAlone ==
  ASSUME NEW w \in Workers, wpc \in [Workers -> WorkerLabels], Ending(w), WorkerStep(w)
  PROVE  wpc'[w] \in Leaving
<1> USE DEF WGoto, Ending, Leaving
<1>1. CASE WorkerCheck(w)      BY <1>1 DEF WorkerCheck
<1>2. CASE WorkerPoll(w)       BY <1>2 DEF WorkerPoll, Take
<1>3. CASE WorkerDrainReport(w) BY <1>3 DEF WorkerDrainReport
<1>4. CASE WorkerDrainReply(w) BY <1>4 DEF WorkerDrainReply, DrainLoop
<1> QED
  BY <1>1, <1>2, <1>3, <1>4
     DEF WorkerStep, WorkerLockOpened, WorkerUnlockOpened, WorkerServe, WorkerNumber,
         WorkerReply, WorkerReport, WorkerLockCheck

\* nor does a second signal, which may break a send of the last loop.
LEMMA EndingSignalled ==
  ASSUME NEW w \in Workers, Ending(w), NEW S \in SUBSET Workers, Signal1(S)
  PROVE  Ending(w)'
<1>1. sig1'[w]
  BY DEF Signal1, Ending
<1>2. wpc'[w] = wpc[w] \/ wpc'[w] = AfterFailure(w)
  BY DEF Signal1
<1>3. AfterFailure(w) \in Leaving
  BY DEF AfterFailure, DrainLoop, Ending, Leaving
<1> QED BY <1>1, <1>2, <1>3 DEF Ending

LEMMA EndingStep ==
  ASSUME NEW w \in Workers
  PROVE  TypeInv /\ Ending(w) /\ [Next]_vars => Ending(w)'
<1> SUFFICES ASSUME TypeInv, Ending(w), [Next]_vars PROVE Ending(w)'
  OBVIOUS
<1>t. wpc \in [Workers -> WorkerLabels]
  BY DEF TypeInv, ShutInv
<1>1. ASSUME NEW v \in Workers, WorkerStep(v) PROVE Ending(w)'
  <2>1. sig1' = sig1
    BY <1>1, WorkerFrame
  <2>2. CASE v = w
    BY <1>1, <1>t, <2>1, <2>2, EndingAlone DEF Ending
  <2>3. CASE v # w
    <3>1. wpc'[w] = wpc[w]
      BY <1>1, <1>t, <2>3 DEF WorkerStep, WorkerLockOpened, WorkerUnlockOpened,
         WorkerCheck, WorkerPoll, Take, WorkerServe, WorkerNumber, WorkerReply,
         WorkerReport, WorkerLockCheck, WorkerDrainReport, WorkerDrainReply, WGoto
    <3> QED BY <2>1, <3>1 DEF Ending
  <2> QED BY <2>2, <2>3
<1>2. CASE SendSignal1
  <2>1. PICK S \in SUBSET Workers : Signal1(S)
    BY <1>2 DEF SendSignal1
  <2> QED BY <2>1, EndingSignalled
<1>3. ASSUME DirectorStep, ~SendSignal1 PROVE UNCHANGED <<wpc, sig1>>
  BY <1>3 DEF DirectorStep, Configure, OpenOffice, SetOpened, SetBuilding, TimeUp,
     Event1, Event2, Evacuate, CloseOpened, CloseFlag, CloseBuilding, WriteReport,
     StopThread, JoinThread, KillRemaining, unsignalled
<1>4. CASE ~(\E v \in Workers : WorkerStep(v)) /\ ~SendSignal1
  <2>1. UNCHANGED <<wpc, sig1>>
    BY <1>3, <1>4, PetentFrame, MachineFrame, ThreadFrame
       DEF Next, Rest, RemoveIpc, vars, workerVars
  <2> QED BY <2>1 DEF Ending
<1> QED BY <1>1, <1>2, <1>4

\* A clerk that got signal 1 and is at the head of its loop serves nobody any more,
\* for any number of clerks and petents, whenever the office closes.
THEOREM SignalHeeded == Spec => SignalledTakesNoMore
<1> SUFFICES ASSUME NEW w \in Workers
             PROVE  Spec => [](sig1[w] /\ wpc[w] = "check" => [](wpc[w] # "serve"))
  BY DEF SignalledTakesNoMore
<1>1. Spec => []TypeInv
  BY TypeInit, TypeStep, PTL DEF Spec
<1>2. sig1[w] /\ wpc[w] = "check" => Ending(w)
  BY DEF Ending, Leaving
<1>3. Ending(w) => wpc[w] # "serve"
  BY DEF Ending, Leaving
<1> QED BY <1>1, <1>2, <1>3, EndingStep, PTL DEF Spec

-------------------------------------------------------------------------------
(* The routes. *)

TypesTo(f) == {f + D_MSG_WORKER_OFFSET, f + D_MSG_WORKER_PRIORITY_OFFSET}

\* A ticket to a faculty is for that faculty; one to the cashier remembers
\* the faculty it is still for; a payment is due only on the way there.
Routed(t) ==
  /\ t.queueid \in CashierTypes => t.redirected_from = t.facultytype
  /\ \A f \in Faculties : t.queueid \in TypesTo(f) => t.facultytype = f
  /\ PaymentDue(t) => t.queueid \in CashierTypes /\ t.facultytype # 0

\* A ticket that is settled or can be sent on.
Onward(t) == t.facultytype = 0 \/ t.queueid \in WorkerMsgTypes

Accepted(t) == Routed(t) /\ Onward(t)

\* What the queue may hold under type k: no request was refused before, and
\* an answer is about the petent it is addressed to.
LetterOK(k, t) ==
  /\ k \in RequestTypes => t.ticketid # -1 /\ Routed(t)
  /\ k \in Petents => t.requester = k /\ (t.ticketid # -1 => Accepted(t))

LettersRouted ==
  \A k \in MsgTypes : \A i \in 1..Len(msgs[k]) : LetterOK(k, msgs[k][i])

PetentRouted(l, t, p) ==
  /\ t.ticketid # -1 => Routed(t)
  /\ l \in HasTicket \cup {"frustrated"} => t.requester = p
  /\ l \in AskForOne => t.ticketid # -1
  /\ l \in {"queue", "send"} =>
       t.queueid = -1 \/ (t.queueid \in WorkerMsgTypes /\ t.ticketid # -1)
  /\ l = "frustrated" => t.queueid = -1

MachineRouted(l, t) ==
  l \in {"serve", "reply", "report"} =>
    t.ticketid # -1 /\ Routed(t) /\ t.queueid = D_MSG_TICKET

\* The ticket t a clerk w has taken and its answer u.
WorkerRouted(l, t, u, w) ==
  /\ l \in Holding =>
       t.ticketid # -1 /\ Routed(t) /\ t.queueid \in TypesTo(WorkerType[w])
  /\ l \in {"number", "reply"} =>
       u.requester = t.requester /\ (u.ticketid # -1 => Accepted(u))
  /\ l = "number" => u.ticketid # -1

PetentsRouted  == \A p \in Petents : PetentRouted(pc[p], tck[p], p)
MachinesRouted == \A m \in Machines : MachineRouted(mpc[m], mtck[m])
WorkersRouted  == \A w \in Workers : WorkerRouted(wpc[w], wtck[w], wout[w], w)

RouteInv ==
  TypeInv /\ LettersRouted /\ PetentsRouted /\ MachinesRouted /\ WorkersRouted

-------------------------------------------------------------------------------
\* Sending a letter, taking one out.
LEMMA SendRouted ==
  ASSUME NEW k, NEW t, Send(k, t), MsgsOK, t \in Tickets,
         LettersRouted, LetterOK(k, t)
  PROVE  LettersRouted'
<1>1. msgs' = [msgs EXCEPT ![k] = Append(@, t)]
  BY DEF Send
<1> SUFFICES ASSUME NEW j \in MsgTypes, NEW i \in 1..Len(msgs'[j])
             PROVE  LetterOK(j, msgs'[j][i])
  BY DEF LettersRouted
<1>2. msgs[j] \in Seq(Tickets)
  BY MsgsTyped
<1>3. CASE j # k
  <2>1. msgs'[j] = msgs[j]
    BY <1>1, <1>3 DEF MsgsOK
  <2> QED BY <2>1 DEF LettersRouted
<1>4. CASE j = k
  <2>1. msgs'[j] = Append(msgs[j], t)
    BY <1>1, <1>4 DEF MsgsOK
  <2>2. CASE i = Len(msgs[j]) + 1
    BY <1>2, <1>4, <2>1, <2>2
  <2>3. CASE i # Len(msgs[j]) + 1
    <3>1. i \in 1..Len(msgs[j]) /\ msgs'[j][i] = msgs[j][i]
      BY <1>2, <2>1, <2>3
    <3> QED BY <3>1 DEF LettersRouted
  <2> QED BY <2>2, <2>3
<1> QED BY <1>3, <1>4

LEMMA ReceiveRouted ==
  ASSUME NEW k \in MsgTypes, Receive(k), MsgsOK, LettersRouted
  PROVE  LettersRouted' /\ LetterOK(k, Head(msgs[k]))
<1>1. msgs' = [msgs EXCEPT ![k] = Tail(@)] /\ msgs[k] # <<>>
  BY DEF Receive, Pending
<1>2. \A j \in MsgTypes : msgs[j] \in Seq(Tickets)
  BY MsgsTyped
<1>3. Len(msgs[k]) \in Nat \ {0} /\ Head(msgs[k]) = msgs[k][1]
  BY <1>1, <1>2
<1>4. LetterOK(k, Head(msgs[k]))
  BY <1>3 DEF LettersRouted
<1>5. ASSUME NEW j \in MsgTypes, NEW i \in 1..Len(msgs'[j])
      PROVE  LetterOK(j, msgs'[j][i])
  <2>1. CASE j # k
    <3>1. msgs'[j] = msgs[j]
      BY <1>1, <2>1 DEF MsgsOK
    <3> QED BY <3>1 DEF LettersRouted
  <2>2. CASE j = k
    <3>1. msgs'[j] = Tail(msgs[j])
      BY <1>1, <2>2 DEF MsgsOK
    <3>2. i + 1 \in 1..Len(msgs[j]) /\ msgs'[j][i] = msgs[j][i + 1]
      <4>1. msgs[j] \in Seq(Tickets) /\ msgs[j] # <<>>
        BY <1>1, <1>2, <2>2
      <4>2. Len(Tail(msgs[j])) = Len(msgs[j]) - 1
        BY <4>1
      <4>3. i \in 1..(Len(msgs[j]) - 1)
        BY <3>1, <4>2
      <4> QED BY <3>1, <4>1, <4>3
    <3> QED BY <3>2 DEF LettersRouted
  <2> QED BY <2>1, <2>2
<1> QED BY <1>4, <1>5 DEF LettersRouted

\* The types of the clerks' queues, told apart by arithmetic.
LEMMA TypesApart ==
  /\ \A f \in Faculties : TypesTo(f) \cap CashierTypes = {}
  /\ \A f, g \in Faculties : TypesTo(f) \cap TypesTo(g) # {} => f = g
  /\ \A f \in Faculties : -1 \notin TypesTo(f) /\ 0 \notin TypesTo(f)
                          /\ D_MSG_TICKET \notin TypesTo(f)
  /\ TypesTo(CASHIER_POINT) = CashierTypes
  /\ \A f \in Faculties : TypesTo(f) \subseteq WorkerMsgTypes
  /\ CashierTypes \subseteq WorkerMsgTypes
<1> USE DEF TypesTo, CashierTypes, CASHIER_POINT, D_MSG_WORKER_OFFSET,
            D_MSG_WORKER_PRIORITY_OFFSET, D_MSG_TICKET
<1>0. \A f \in Faculties : f \in 1..5
  BY FacultyRange
<1>1. \A f \in Faculties : TypesTo(f) \cap CashierTypes = {}
  BY <1>0
<1>2. \A f, g \in Faculties : TypesTo(f) \cap TypesTo(g) # {} => f = g
  BY <1>0
<1>3. \A f \in Faculties : -1 \notin TypesTo(f) /\ 0 \notin TypesTo(f)
                           /\ 1 \notin TypesTo(f)
  BY <1>0
<1>4. TypesTo(6) = CashierTypes
  OBVIOUS
<1>5. \A f \in Faculties : TypesTo(f) \subseteq WorkerMsgTypes
  BY DEF WorkerMsgTypes
<1>6. CashierTypes \subseteq WorkerMsgTypes
  BY DEF WorkerMsgTypes
<1> QED BY <1>1, <1>2, <1>3, <1>4, <1>5, <1>6

LEMMA ForwardTo == \A w, f : Forward(w, f) \in TypesTo(f)
BY DEF Forward, TypesTo

\* A ticket that is nobody's concern any more, or not yet somebody's.
LEMMA RoutedNowhere ==
  ASSUME NEW t, t.queueid \in {-1, 0, D_MSG_TICKET}, ~PaymentDue(t)
  PROVE  Routed(t)
<1>1. t.queueid \notin CashierTypes
  BY NoCashierType DEF D_MSG_TICKET
<1>2. \A f \in Faculties : t.queueid \notin TypesTo(f)
  BY TypesApart
<1> QED BY <1>1, <1>2 DEF Routed

\* A ticket on its way to the faculty f it is for.
LEMMA RoutedTo ==
  ASSUME NEW f \in Faculties, NEW t, t.queueid \in TypesTo(f),
         t.facultytype = f, ~PaymentDue(t)
  PROVE  Accepted(t)
<1>1. t.queueid \notin CashierTypes /\ t.queueid \in WorkerMsgTypes
  BY TypesApart
<1>2. \A g \in Faculties : t.queueid \in TypesTo(g) => g = f
  BY TypesApart
<1> QED BY <1>1, <1>2 DEF Routed, Onward, Accepted

\* Who is not at the cashier's has nothing to pay.
LEMMA NothingDue ==
  ASSUME NEW f \in Faculties, NEW t, t.queueid \in TypesTo(f), Routed(t)
  PROVE  t.facultytype = f /\ ~PaymentDue(t)
<1>1. t.queueid \notin CashierTypes
  BY TypesApart
<1> QED BY <1>1 DEF Routed

-------------------------------------------------------------------------------
LEMMA PetentRoutes ==
  ASSUME NEW p \in Petents, PetentStep(p), RouteInv
  PROVE  LettersRouted' /\ PetentsRouted'
<1>t. TypeInv /\ LettersRouted /\ PetentsRouted /\ MsgsOK
  BY DEF RouteInv, TypeInv
<1>m. pc \in [Petents -> PetentLabels] /\ tck \in [Petents -> Tickets]
  BY <1>t DEF TypeInv, CapacityInv, PetentsOK
<1>p. PetentRouted(pc[p], tck[p], p)
  BY <1>t DEF PetentsRouted
<1>b. ASSUME UNCHANGED msgs PROVE LettersRouted'
  BY <1>b, <1>t DEF LettersRouted
\* The petent moves to l, with the ticket it has or with another one.
<1>c. ASSUME UNCHANGED tck, NEW l, Goto(p, l), PetentRouted(l, tck[p], p)
      PROVE  PetentsRouted'
  BY <1>c, <1>m, <1>t DEF PetentsRouted, Goto
<1>d. ASSUME NEW t \in Tickets, tck' = [tck EXCEPT ![p] = t],
             NEW l, Goto(p, l), PetentRouted(l, t, p)
      PROVE  PetentsRouted'
  BY <1>d, <1>m, <1>t DEF PetentsRouted, Goto
\* On the way out, or to a place where the ticket is not looked at.
<1>e. ASSUME NEW l, l \notin HasTicket \cup {"frustrated"}
      PROVE  PetentRouted(l, tck[p], p)
  BY <1>e, <1>p DEF PetentRouted, HasTicket, AskForOne
<1>f. \A l : PetentRouted(pc[p], tck[p], p) /\ l \in {"send", "waitWorker"}
               /\ pc[p] \in {"queue", "send"} => PetentRouted(l, tck[p], p)
  BY DEF PetentRouted, HasTicket, AskForOne
\* Where a petent goes from here whose ticket is t.
<1>n. ASSUME NEW t, t.requester = p, t.ticketid # -1 => Routed(t),
             \/ t.queueid = -1
             \/ Onward(t) /\ t.ticketid # -1
      PROVE  PetentRouted(NextVisit(p, t), t, p)
  <2>1. CASE t.facultytype = 0
    BY <1>n, <2>1 DEF NextVisit, PetentRouted, HasTicket, AskForOne
  <2>2. CASE t.facultytype # 0
    <3>1. NextVisit(p, t) \in {"gone", "queue", "send"}
      BY <2>2 DEF NextVisit
    <3>2. t.queueid = -1 \/ (t.queueid \in WorkerMsgTypes /\ t.ticketid # -1)
      BY <1>n, <2>2 DEF Onward
    <3> QED BY <1>n, <3>1, <3>2 DEF PetentRouted, HasTicket, AskForOne
  <2> QED BY <2>1, <2>2
<1> USE DEF shmVars, semVars
<1>1. CASE Register(p)
  <2>1. PICK l \in {"configured", "gone"} : Goto(p, l)
    BY <1>1 DEF Register
  <2> QED BY <1>1, <1>b, <1>c, <1>e, <2>1 DEF Register, HasTicket
<1>2. CASE PassConfigured(p)
  BY <1>2, <1>b, <1>c, <1>e DEF PassConfigured, HasTicket
<1>3. CASE Arrive(p)
  <2>1. PICK l \in {"gone", "opened"} : Goto(p, l)
    BY <1>3 DEF Arrive
  <2> QED BY <1>3, <1>b, <1>c, <1>e, <2>1 DEF Arrive, HasTicket
<1>4. CASE LockOpened(p)
  BY <1>4, <1>b, <1>c, <1>e DEF LockOpened, HasTicket
<1>5. CASE UnlockOpened(p)
  BY <1>5, <1>b, <1>c, <1>e DEF UnlockOpened, HasTicket
<1>6. CASE EnterBuilding(p)
  BY <1>6, <1>b, <1>c, <1>e DEF EnterBuilding, HasTicket
<1>7. CASE Entered(p)
  <2>1. ASSUME Goto(p, "leave"), UNCHANGED tck PROVE PetentsRouted'
    BY <2>1, <1>c, <1>e DEF HasTicket
  <2>2. ASSUME Goto(p, "tickets"), tck' = [tck EXCEPT ![p] = NewTicket(p)]
        PROVE  PetentsRouted'
    <3>1. NewTicket(p) \in Tickets /\ NewTicket(p).queueid = D_MSG_TICKET
      BY <1>t, NewTicketOK DEF TypeInv, Sound
    <3>2. /\ ~PaymentDue(NewTicket(p)) /\ NewTicket(p).requester = p
          /\ NewTicket(p).ticketid = 0
      BY DEF NewTicket, PaymentDue, PAYMENT_NOT_NEEDED, PAYMENT_NEEDED
    <3>3. Routed(NewTicket(p))
      BY <3>1, <3>2, RoutedNowhere
    <3>4. PetentRouted("tickets", NewTicket(p), p)
      BY <3>2, <3>3 DEF PetentRouted
    <3> QED BY <2>2, <3>1, <3>4, <1>d
  <2> QED BY <1>7, <1>b, <2>1, <2>2 DEF Entered
<1>8. CASE LockTickets(p)
  <2>1. PetentRouted("sendTicket", tck[p], p)
    BY <1>8, <1>p DEF LockTickets, At, PetentRouted, HasTicket, AskForOne
  <2> QED BY <1>8, <1>b, <1>c, <2>1 DEF LockTickets
<1>9. CASE SendTicketRequest(p)
  <2>1. /\ PetentRouted("waitTicket", tck[p], p)
        /\ tck[p].ticketid # -1 /\ Routed(tck[p])
    BY <1>9, <1>p DEF SendTicketRequest, At, PetentRouted, HasTicket, AskForOne
  <2>2. LetterOK(D_MSG_TICKET, tck[p])
    BY <2>1, PetentTypesIn DEF LetterOK, RequestTypes
  <2>3. LettersRouted'
    BY <1>9, <1>m, <1>t, <2>2, SendRouted DEF SendTicketRequest
  <2> QED BY <1>9, <1>c, <2>1, <2>3 DEF SendTicketRequest
<1>10. CASE ReceiveTicket(p)
  <2> DEFINE t == Head(msgs[p])
  <2>1. LettersRouted' /\ LetterOK(p, t)
    BY <1>10, <1>t, PetentTypesIn, ReceiveRouted DEF ReceiveTicket
  <2>2. t \in Tickets
    BY <1>10, <1>t, PetentTypesIn, ReceiveOK DEF ReceiveTicket, Letters
  <2>3. t.requester = p /\ (t.ticketid # -1 => Routed(t) /\ Onward(t))
    BY <2>1 DEF LetterOK, Accepted
  <2>4. ASSUME t.ticketid # -1 PROVE PetentRouted(NextVisit(p, t), t, p)
    BY <2>3, <2>4, <1>n
  <2>5. ASSUME t.ticketid = -1 PROVE PetentRouted("leaveTickets", t, p)
    BY <2>5 DEF PetentRouted, HasTicket, AskForOne
  <2>6. PICK l : Goto(p, l) /\ PetentRouted(l, t, p)
    BY <1>10, <2>4, <2>5 DEF ReceiveTicket
  <2>7. tck' = [tck EXCEPT ![p] = t]
    BY <1>10 DEF ReceiveTicket
  <2> QED BY <2>1, <2>2, <2>6, <2>7, <1>d
<1>11. CASE LockQueue(p)
  BY <1>11, <1>b, <1>c, <1>f, <1>p DEF LockQueue, At
<1>12. CASE SendToWorker(p)
  <2>0. pc[p] = "send" /\ tck' = tck
    BY <1>12 DEF SendToWorker, At
  <2>1. CASE Goto(p, "leaveQueue") /\ UNCHANGED msgs
    BY <2>0, <2>1, <1>b, <1>c, <1>e DEF HasTicket
  <2>2. CASE /\ tck[p].queueid # -1 /\ Send(tck[p].queueid, tck[p])
             /\ Goto(p, "waitWorker")
    <3>1. PetentsRouted'
      BY <2>0, <2>2, <1>c, <1>f, <1>p
    <3>2. /\ tck[p].queueid \in WorkerMsgTypes
          /\ tck[p].ticketid # -1 /\ Routed(tck[p])
      BY <2>0, <2>2, <1>p DEF PetentRouted
    <3>3. tck[p].queueid \notin Petents
      BY <3>2, PetentTypesIn DEF RequestTypes
    <3>4. LetterOK(tck[p].queueid, tck[p])
      BY <3>2, <3>3 DEF LetterOK
    <3>5. LettersRouted'
      BY <2>2, <3>4, <1>m, <1>t, SendRouted
    <3> QED BY <3>1, <3>5
  <2> QED BY <1>12, <2>1, <2>2 DEF SendToWorker
<1>13. CASE ReceiveFromWorker(p)
  <2> DEFINE t == Head(msgs[p])
  <2>1. LettersRouted' /\ LetterOK(p, t)
    BY <1>13, <1>t, PetentTypesIn, ReceiveRouted DEF ReceiveFromWorker
  <2>2. t \in Tickets
    BY <1>13, <1>t, PetentTypesIn, ReceiveOK DEF ReceiveFromWorker, Letters
  <2>3. t.requester = p /\ (t.ticketid # -1 => Routed(t) /\ Onward(t))
    BY <2>1 DEF LetterOK, Accepted
  <2>4. ASSUME t.ticketid # -1 PROVE PetentRouted(NextVisit(p, t), t, p)
    BY <2>3, <2>4, <1>n
  <2>5. ASSUME t.ticketid = -1
        PROVE  /\ t.queueid = -1 => PetentRouted("frustrated", t, p)
               /\ PetentRouted("leave", t, p)
    BY <2>3, <2>5 DEF PetentRouted, HasTicket, AskForOne
  <2>6. PICK l : Goto(p, l) /\ PetentRouted(l, t, p)
    BY <1>13, <2>4, <2>5 DEF ReceiveFromWorker
  <2>7. tck' = [tck EXCEPT ![p] = t]
    BY <1>13 DEF ReceiveFromWorker
  <2> QED BY <2>1, <2>2, <2>6, <2>7, <1>d
<1>14. CASE WakeFrustrated(p)
  <2>1. /\ pc[p] = "frustrated" /\ tck[p].queueid = -1
        /\ tck[p].ticketid # -1 => Routed(tck[p])
        /\ tck[p].requester = p
    BY <1>14, <1>p DEF WakeFrustrated, At, PetentRouted
  <2>2. PetentRouted(NextVisit(p, tck[p]), tck[p], p)
    BY <2>1, <1>n
  <2> QED BY <1>14, <1>b, <1>c, <2>2 DEF WakeFrustrated
<1>g. /\ \A l : AfterLeave(p, l) \notin HasTicket \cup {"frustrated"}
      /\ \A l \in LeaveLabels : GiveLabel(l) \notin HasTicket \cup {"frustrated"}
  BY DEF AfterLeave, LeaveLabels, GiveLabel, HasTicket
<1>15. CASE LeaveBuilding(p)
  <2>1. PICK l : Goto(p, l) /\ l \notin HasTicket \cup {"frustrated"}
    BY <1>15, <1>g DEF LeaveBuilding
  <2> QED BY <1>15, <1>b, <1>c, <1>e, <2>1 DEF LeaveBuilding
<1>16. CASE GivePlaces(p)
  <2>1. PICK l : Goto(p, l) /\ l \notin HasTicket \cup {"frustrated"}
    BY <1>16, <1>g DEF GivePlaces
  <2> QED BY <1>16, <1>b, <1>c, <1>e, <2>1 DEF GivePlaces
<1>17. CASE FreeTickets(p)
  BY <1>17, <1>b, <1>c, <1>e DEF FreeTickets, HasTicket
<1>18. CASE FreeQueue(p)
  BY <1>18, <1>b, <1>c, <1>e DEF FreeQueue, HasTicket
<1>19. CASE ExitOnRemovedIpc(p)
  BY <1>19, <1>b, <1>c, <1>e DEF ExitOnRemovedIpc, HasTicket
<1> QED
  BY <1>1, <1>2, <1>3, <1>4, <1>5, <1>6, <1>7, <1>8, <1>9, <1>10, <1>11,
     <1>12, <1>13, <1>14, <1>15, <1>16, <1>17, <1>18, <1>19 DEF PetentStep
-------------------------------------------------------------------------------
LEMMA MachineRoutes ==
  ASSUME NEW m \in Machines, MachineStep(m), RouteInv
  PROVE  LettersRouted' /\ MachinesRouted'
<1>t. TypeInv /\ LettersRouted /\ MachinesRouted /\ MsgsOK
  BY DEF RouteInv, TypeInv
<1>m. mpc \in [Machines -> MachineLabels] /\ mtck \in [Machines -> Tickets]
  BY <1>t DEF TypeInv, LockInv, MachinesOK
<1> DEFINE busy == {"serve", "reply", "report"}
<1>h. /\ MachineRouted(mpc[m], mtck[m])
      /\ mpc[m] \in busy => Sound(mtck[m]) /\ Live(mtck[m])
  BY <1>t DEF MachinesRouted, TypeInv, MachinesOK
<1>b. ASSUME UNCHANGED msgs PROVE LettersRouted'
  BY <1>b, <1>t DEF LettersRouted
<1>c. ASSUME NEW t \in Tickets, mtck' = [mtck EXCEPT ![m] = t],
             NEW l, MGoto(m, l), MachineRouted(l, t)
      PROVE  MachinesRouted'
  BY <1>c, <1>m, <1>t DEF MachinesRouted, MGoto
<1>d. ASSUME UNCHANGED mtck, NEW l, MGoto(m, l), l \in busy => mpc[m] \in busy
      PROVE  MachinesRouted'
  BY <1>d, <1>h, <1>m, <1>t DEF MachinesRouted, MachineRouted, MGoto
<1> USE DEF shmVars, semVars
<1>1. CASE MachineLockOpened(m)
  BY <1>1, <1>b, <1>d DEF MachineLockOpened
<1>2. CASE MachineUnlockOpened(m)
  BY <1>2, <1>b, <1>d DEF MachineUnlockOpened
<1>3. CASE MachineCheck(m)
  <2>1. PICK l : MGoto(m, l) /\ l \in {"done", "poll", "check"}
    BY <1>3 DEF MachineCheck
  <2> QED BY <1>3, <2>1, <1>b, <1>d DEF MachineCheck
<1>4. CASE MachinePoll(m)
  <2>1. ASSUME Receive(D_MSG_TICKET), MGoto(m, "serve"),
               mtck' = [mtck EXCEPT ![m] = Head(msgs[D_MSG_TICKET])]
        PROVE  LettersRouted' /\ MachinesRouted'
    <3> DEFINE t == Head(msgs[D_MSG_TICKET])
    <3>1. LettersRouted' /\ LetterOK(D_MSG_TICKET, t) /\ t \in Tickets
      BY <2>1, <1>t, RequestTypesIn, ReceiveRouted, ReceiveOK
         DEF RequestTypes, Letters
    <3>2. t.queueid = D_MSG_TICKET
      BY <2>1, <1>t, RequestTypesIn, ReceiveOK DEF RequestTypes, Letters
    <3>3. MachineRouted("serve", t)
      BY <3>1, <3>2 DEF LetterOK, RequestTypes, MachineRouted
    <3> QED BY <2>1, <3>1, <3>3, <1>c
  <2>2. ASSUME MGoto(m, "lockCheck"), UNCHANGED <<msgs, mtck>>
        PROVE  LettersRouted' /\ MachinesRouted'
    BY <2>2, <1>b, <1>d
  <2> QED BY <1>4, <2>1, <2>2 DEF MachinePoll
<1>5. CASE MachineServe(m)
  BY <1>5, <1>b, <1>d DEF MachineServe
<1>6. CASE MachineReply(m)
  <2> DEFINE t == mtck[m]
             r == t.requester
             u == MachineAnswer(t, mstatus[m])
  <2>1. /\ Sound(t) /\ Live(t) /\ t.ticketid # -1 /\ Routed(t)
        /\ r \in Petents /\ t \in Tickets /\ t.queueid = D_MSG_TICKET
    BY <1>6, <1>h DEF MachineReply, MachineRouted, Sound
  <2>2. ~PaymentDue(t)
    BY <2>1, NoCashierType DEF Routed, D_MSG_TICKET
  <2>3. /\ u \in Tickets /\ u.requester = r /\ u.facultytype = t.facultytype
        /\ u.payment = t.payment /\ u.queueid \in TypesTo(t.facultytype)
    <3>1. u \in Tickets
      BY <2>1, MachineAnswerOK DEF Sound
    <3>2. /\ u.requester = r /\ u.facultytype = t.facultytype
          /\ u.payment = t.payment
          /\ u.queueid = t.facultytype + (IF t.redirected_from = 1
               THEN D_MSG_WORKER_PRIORITY_OFFSET ELSE D_MSG_WORKER_OFFSET)
      BY <2>1 DEF MachineAnswer, Tickets
    <3> QED BY <3>1, <3>2 DEF TypesTo
  <2>4. Accepted(u)
    BY <2>1, <2>2, <2>3, RoutedTo DEF Live, PaymentDue
  <2>5. LetterOK(r, u)
    BY <2>1, <2>3, <2>4, PetentTypesIn DEF LetterOK
  <2>6. LettersRouted'
    BY <1>6, <1>t, <2>3, <2>5, SendRouted DEF MachineReply
  <2>7. ASSUME mtck' = [mtck EXCEPT ![m] = NoTicket], MGoto(m, "lockCheck")
        PROVE  MachinesRouted'
    BY <2>7, <1>c, NoTicketOK DEF MachineRouted
  <2>8. MachinesRouted'
    BY <1>6, <2>7, <1>d DEF MachineReply
  <2> QED BY <2>6, <2>8
<1>7. CASE MachineReport(m)
  <2> DEFINE t == [mtck[m] EXCEPT !.queueid = 1]
  <2>1. t \in Tickets /\ LetterOK(D_MSG_REJECTED, t)
    BY <1>7, <1>h, <1>m, RejectedNoRequest, SetsAssumption
       DEF MachineReport, LetterOK, Tickets, D_MSG_REJECTED, D_MSG_TICKET
  <2>2. LettersRouted'
    BY <1>7, <1>t, <2>1, SendRouted DEF MachineReport
  <2> QED BY <1>7, <2>2, <1>c, NoTicketOK DEF MachineReport, MachineRouted
<1>8. CASE MachineLockCheck(m)
  BY <1>8, <1>b, <1>d DEF MachineLockCheck
<1> QED
  BY <1>1, <1>2, <1>3, <1>4, <1>5, <1>6, <1>7, <1>8 DEF MachineStep

-------------------------------------------------------------------------------
\* Every branch of WorkerServe answers whom it was asked by, and sends the
\* ticket on only to where it belongs.
LEMMA ServeRoutes ==
  ASSUME NEW w \in Workers, wtck \in [Workers -> Tickets],
         wout \in [Workers -> Tickets], Live(wtck[w]),
         WorkerRouted("serve", wtck[w], NoTicket, w),
         Redirect(w) \/ RequirePayment(w) \/ TakePayment(w) \/ Settle(w)
  PROVE  /\ wout'[w].requester = wtck[w].requester
         /\ wout'[w].ticketid # -1 => Accepted(wout'[w])
<1> DEFINE t == wtck[w]
<1>1. /\ t \in Tickets /\ t.ticketid # -1 /\ Routed(t)
      /\ t.queueid \in TypesTo(WorkerType[w])
  BY DEF WorkerRouted, Holding
<1>2. WorkerType[w] \in Faculties =>
        t.facultytype = WorkerType[w] /\ ~PaymentDue(t)
  BY <1>1, NothingDue
<1>3. Desks \subseteq Faculties /\ FACULTY_SA \in Faculties
      /\ CASHIER_POINT \notin Faculties
  BY FacultyRange DEF Faculties, CASHIER_POINT
<1>4. CASE Redirect(w)
  <2>1. PICK f \in Desks :
          LET r == [t EXCEPT !.facultytype = f, !.redirected_from = FACULTY_SA] IN
          \/ wout' = [wout EXCEPT ![w] = [r EXCEPT !.queueid = Forward(w, f)]]
          \/ wout' = [wout EXCEPT ![w] =
                         [r EXCEPT !.ticketid = -1, !.queueid = 0]]
    BY <1>4 DEF Redirect
  <2> DEFINE u == [[t EXCEPT !.facultytype = f, !.redirected_from = FACULTY_SA]
                     EXCEPT !.queueid = Forward(w, f)]
             v == [[t EXCEPT !.facultytype = f, !.redirected_from = FACULTY_SA]
                     EXCEPT !.ticketid = -1, !.queueid = 0]
  <2>2. wout'[w] = u \/ wout'[w] = v
    BY <2>1
  <2>3. ~PaymentDue(t)
    BY <1>2, <1>3, <1>4 DEF Redirect
  <2>4. /\ u.requester = t.requester /\ u.payment = t.payment
        /\ u.facultytype = f /\ u.queueid = Forward(w, f)
    BY <1>1 DEF Tickets
  <2>5. v.requester = t.requester /\ v.ticketid = -1
    BY <1>1 DEF Tickets
  <2>6. Accepted(u)
    <3> HIDE DEF u
    <3>1. f \in Faculties /\ u.queueid \in TypesTo(f) /\ ~PaymentDue(u)
      BY <2>3, <2>4, <1>3, ForwardTo DEF PaymentDue
    <3> QED BY <2>4, <3>1, RoutedTo
  <2> QED BY <2>2, <2>4, <2>5, <2>6
<1>5. CASE RequirePayment(w)
  <2> DEFINE u == [t EXCEPT !.payment = PAYMENT_NEEDED,
                            !.redirected_from = t.facultytype,
                            !.queueid = Forward(w, CASHIER_POINT)]
  <2>1. wout'[w] = u
    BY <1>5 DEF RequirePayment
  <2>2. /\ u.requester = t.requester /\ u.facultytype = t.facultytype
        /\ u.redirected_from = t.facultytype
        /\ u.queueid = Forward(w, CASHIER_POINT)
    BY <1>1 DEF Tickets
  <2>3. u.queueid \in CashierTypes /\ u.queueid \in WorkerMsgTypes
    BY <2>2, ForwardTo, TypesApart
  <2>4. \A f \in Faculties : u.queueid \notin TypesTo(f)
    BY <2>3, TypesApart
  <2>5. u.facultytype # 0
    BY <2>2, FacultyRange DEF Live
  <2> QED BY <2>1, <2>2, <2>3, <2>4, <2>5 DEF Routed, Onward, Accepted
<1>6. CASE TakePayment(w)
  <2> DEFINE f == t.redirected_from
             u == [t EXCEPT !.payment = PAYMENT_SUCCESS, !.facultytype = f,
                            !.queueid = f + D_MSG_WORKER_PRIORITY_OFFSET]
  <2>1. wout'[w] = u
    BY <1>6 DEF TakePayment
  <2>2. /\ u.requester = t.requester /\ u.facultytype = f
        /\ u.payment = PAYMENT_SUCCESS
        /\ u.queueid = f + D_MSG_WORKER_PRIORITY_OFFSET
    BY <1>1 DEF Tickets
  <2>3. t.queueid \in CashierTypes
    BY <1>1, <1>6, TypesApart DEF TakePayment
  <2>4. f \in Faculties
    BY <1>1, <2>3 DEF Routed, Live
  <2>5. u.queueid \in TypesTo(f) /\ ~PaymentDue(u)
    BY <2>2 DEF TypesTo, PaymentDue, PAYMENT_SUCCESS, PAYMENT_NEEDED
  <2>6. Accepted(u)
    BY <2>2, <2>4, <2>5, RoutedTo
  <2> QED BY <2>1, <2>2, <2>6
<1>7. CASE Settle(w)
  <2> DEFINE u == [t EXCEPT !.facultytype = 0, !.queueid = 0]
  <2>1. wout'[w] = u
    BY <1>7 DEF Settle
  <2>2. /\ u.requester = t.requester /\ u.facultytype = 0 /\ u.queueid = 0
        /\ u.payment = t.payment
    BY <1>1 DEF Tickets
  <2>3. ~PaymentDue(t)
    BY <1>2, <1>7, TypeRange DEF Settle
  <2>4. Routed(u)
    <3> HIDE DEF u
    <3>1. ~PaymentDue(u)
      BY <2>2, <2>3 DEF PaymentDue
    <3> QED BY <2>2, <3>1, RoutedNowhere
  <2> QED BY <2>1, <2>2, <2>4 DEF Onward, Accepted
<1> QED BY <1>4, <1>5, <1>6, <1>7

LEMMA WorkerRoutes ==
  ASSUME NEW w \in Workers, WorkerStep(w), RouteInv
  PROVE  LettersRouted' /\ WorkersRouted'
<1>t. TypeInv /\ LettersRouted /\ WorkersRouted /\ MsgsOK
  BY DEF RouteInv, TypeInv
<1>m. /\ wpc \in [Workers -> WorkerLabels]
      /\ wtck \in [Workers -> Tickets] /\ wout \in [Workers -> Tickets]
  BY <1>t DEF TypeInv, ShutInv, WorkersOK
<1>h. /\ WorkerRouted(wpc[w], wtck[w], wout[w], w)
      /\ wpc[w] \in Holding => Sound(wtck[w]) /\ Live(wtck[w])
      /\ wpc[w] \in {"number", "reply", "report"} => Sound(wout[w])
  BY <1>t DEF WorkersRouted, TypeInv, WorkersOK
<1>b. ASSUME UNCHANGED msgs PROVE LettersRouted'
  BY <1>b, <1>t DEF LettersRouted
<1>c. ASSUME NEW t, NEW u, NEW l, wtck' = [wtck EXCEPT ![w] = t],
             wout' = [wout EXCEPT ![w] = u], WGoto(w, l), WorkerRouted(l, t, u, w)
      PROVE  WorkersRouted'
  BY <1>c, <1>m, <1>t DEF WorkersRouted, WGoto
<1>d. ASSUME UNCHANGED <<wtck, wout>>, NEW l, WGoto(w, l),
             WorkerRouted(l, wtck[w], wout[w], w)
      PROVE  WorkersRouted'
  BY <1>d, <1>m, <1>t DEF WorkersRouted, WGoto
<1>e. ASSUME NEW l, l \notin Holding, NEW t, NEW u PROVE WorkerRouted(l, t, u, w)
  BY <1>e DEF WorkerRouted, Holding
<1> USE DEF shmVars, semVars
<1>1. CASE WorkerLockOpened(w)
  BY <1>1, <1>b, <1>d, <1>e DEF WorkerLockOpened, Holding
<1>2. CASE WorkerUnlockOpened(w)
  BY <1>2, <1>b, <1>d, <1>e DEF WorkerUnlockOpened, Holding
<1>3. CASE WorkerCheck(w)
  <2>1. PICK l : WGoto(w, l) /\ l \in {"drainPrio", "pollPrio"}
    BY <1>3 DEF WorkerCheck
  <2> QED BY <1>3, <2>1, <1>b, <1>d, <1>e DEF WorkerCheck, Holding
<1>4. CASE WorkerPoll(w)
  <2>1. PICK k \in {PriorityType(w), NormalType(w)}, vip \in BOOLEAN,
             l \in {"serve", "drainReport"},
             empty \in {"poll", "check", "drain", "done"} :
          Take(w, k, vip, l, empty)
    BY <1>4 DEF WorkerPoll
  <2>2. k \in MsgTypes /\ k \in RequestTypes /\ k \in TypesTo(WorkerType[w])
    BY WorkerQueue DEF RequestTypes, MsgTypes, TypesTo, PriorityType, NormalType
  <2> DEFINE t == Head(msgs[k])
  <2>3. ASSUME Receive(k), wtck' = [wtck EXCEPT ![w] = t], WGoto(w, l)
        PROVE  LettersRouted' /\ WorkersRouted'
    <3>1. LettersRouted' /\ LetterOK(k, t) /\ t \in Letters(k)
      BY <2>2, <2>3, <1>t, ReceiveRouted, ReceiveOK
    <3>2. t.ticketid # -1 /\ Routed(t) /\ t.queueid \in TypesTo(WorkerType[w])
      BY <2>2, <3>1 DEF LetterOK, Letters
    <3>3. WorkerRouted(l, t, wout[w], w)
      BY <2>1, <3>2 DEF WorkerRouted
    <3>4. wout' = [wout EXCEPT ![w] = wout[w]]
      BY <1>4, <1>m DEF WorkerPoll
    <3> QED BY <2>3, <3>1, <3>3, <3>4, <1>c
  <2>4. ASSUME WGoto(w, empty), UNCHANGED <<msgs, wtck>>
        PROVE  LettersRouted' /\ WorkersRouted'
    BY <1>4, <2>4, <1>b, <1>d, <1>e DEF WorkerPoll, Holding
  <2> QED BY <2>1, <2>3, <2>4 DEF Take
<1>5. CASE WorkerServe(w)
  <2>1. wpc[w] = "serve" /\ wtck' = wtck
    BY <1>5 DEF WorkerServe
  <2>2. WorkerRouted("serve", wtck[w], NoTicket, w) /\ Live(wtck[w])
    BY <2>1, <1>h DEF WorkerRouted, Holding
  <2>3. /\ wout'[w].requester = wtck[w].requester
        /\ wout'[w].ticketid # -1 => Accepted(wout'[w])
    BY <1>5, <1>m, <2>2, ServeRoutes DEF WorkerServe
  <2>4. wout' = [wout EXCEPT ![w] = wout'[w]] /\ wtck' = [wtck EXCEPT ![w] = wtck[w]]
    BY <1>5, <1>m DEF WorkerServe, Redirect, RequirePayment, TakePayment, Settle
  <2>5. PICK l \in {"reply", "number"} :
          WGoto(w, l) /\ (l = "number" => wout'[w].ticketid # -1)
    BY <1>5 DEF WorkerServe
  <2>6. WorkerRouted(l, wtck[w], wout'[w], w)
    BY <2>2, <2>3, <2>5 DEF WorkerRouted, Holding
  <2>7. WorkersRouted'
    BY <2>4, <2>5, <2>6, <1>c
  <2> QED BY <1>5, <1>b, <2>7 DEF WorkerServe
<1>6. CASE WorkerNumber(w)
  <2> DEFINE u == [wout[w] EXCEPT !.ticketid = 1]
  <2>1. wpc[w] = "number" /\ wtck' = [wtck EXCEPT ![w] = wtck[w]]
        /\ wout' = [wout EXCEPT ![w] = u]
    BY <1>6, <1>m DEF WorkerNumber
  <2>2. /\ u.requester = wout[w].requester /\ u.facultytype = wout[w].facultytype
        /\ u.queueid = wout[w].queueid /\ u.payment = wout[w].payment
        /\ u.redirected_from = wout[w].redirected_from
    BY <1>m DEF Tickets
  <2>3. Accepted(wout[w]) => Accepted(u)
    BY <2>2 DEF Accepted, Routed, Onward, PaymentDue
  <2>4. WorkerRouted("reply", wtck[w], u, w)
    BY <1>h, <2>1, <2>2, <2>3 DEF WorkerRouted, Holding
  <2> QED BY <1>6, <2>1, <2>4, <1>b, <1>c DEF WorkerNumber
<1>7. CASE WorkerReply(w)
  <2>1. wpc[w] = "reply" /\ wtck[w].requester \in Petents
    BY <1>7, <1>h DEF WorkerReply, Holding, Sound
  <2>2. LetterOK(wout[w].requester, wout[w])
    BY <1>h, <2>1, PetentTypesIn DEF LetterOK, WorkerRouted
  <2>3. LettersRouted'
    BY <1>7, <1>m, <1>t, <2>2, SendRouted DEF WorkerReply
  <2>4. PICK l \in {"report", "lockCheck"} : WGoto(w, l)
    BY <1>7 DEF WorkerReply, AfterReply
  <2>5. WorkerRouted(l, wtck[w], wout[w], w)
    BY <1>h, <2>1, <2>4 DEF WorkerRouted, Holding
  <2> QED BY <1>7, <2>3, <2>4, <2>5, <1>d DEF WorkerReply
<1>r. ASSUME NEW t \in Tickets PROVE LetterOK(D_MSG_REJECTED, t)
  BY RejectedNoRequest, SetsAssumption DEF LetterOK, D_MSG_REJECTED
<1>8. CASE WorkerReport(w)
  <2>1. wpc[w] = "report" /\ wtck[w] \in Tickets /\ wout[w] \in Tickets
    BY <1>8, <1>m DEF WorkerReport
  <2>2. Refusal(w) \in Tickets
    BY <2>1, TypeRange DEF Refusal, Tickets
  <2>3. LettersRouted'
    BY <1>8, <1>r, <1>t, <2>2, SendRouted DEF WorkerReport
  <2> QED BY <1>8, <2>3, <1>d, <1>e DEF WorkerReport, Holding
<1>9. CASE WorkerLockCheck(w)
  BY <1>9, <1>b, <1>c, <1>e DEF WorkerLockCheck, EmptyHand, Holding
<1>10. CASE WorkerDrainReport(w)
  <2> DEFINE t == [wtck[w] EXCEPT !.queueid = WorkerType[w]]
  <2>1. t \in Tickets
    <3>1. WorkerType[w] \in Faculties \cup {CASHIER_POINT}
      BY TypeRange
    <3>2. wtck[w] \in Tickets
      BY <1>m
    <3> QED BY <3>1, <3>2 DEF Tickets
  <2>2. LettersRouted'
    BY <1>10, <1>r, <1>t, <2>1, SendRouted DEF WorkerDrainReport
  <2>3. WorkerRouted("drainReply", wtck[w], wout[w], w)
    BY <1>10, <1>h DEF WorkerDrainReport, WorkerRouted, Holding
  <2> QED BY <1>10, <2>2, <2>3, <1>d DEF WorkerDrainReport
<1>11. CASE WorkerDrainReply(w)
  <2> DEFINE t == [wtck[w] EXCEPT !.ticketid = -1, !.queueid = -1]
             r == wtck[w].requester
  <2>1. t \in Tickets /\ t.requester = r /\ t.ticketid = -1
    BY <1>m DEF Tickets
  <2>2. r \in Petents
    BY <1>11, <1>h DEF WorkerDrainReply, Holding, Sound
  <2>3. LetterOK(r, t)
    BY <2>1, <2>2, PetentTypesIn DEF LetterOK
  <2>4. LettersRouted'
    BY <1>11, <1>t, <2>1, <2>3, SendRouted DEF WorkerDrainReply
  <2>5. PICK l : WGoto(w, l) /\ l \notin Holding
    BY <1>11 DEF WorkerDrainReply, DrainLoop, Holding
  <2> QED BY <1>11, <2>4, <2>5, <1>c, <1>e DEF WorkerDrainReply, EmptyHand
<1> QED
  BY <1>1, <1>2, <1>3, <1>4, <1>5, <1>6, <1>7, <1>8, <1>9, <1>10, <1>11
     DEF WorkerStep

-------------------------------------------------------------------------------
\* A signal changes no ticket: a petent it interrupts is on the way out, and a
\* clerk goes on with what it has.
LEMMA DirectorRoutes ==
  ASSUME DirectorStep, RouteInv
  PROVE  PetentsRouted' /\ WorkersRouted'
<1>t. TypeInv /\ PetentsRouted /\ WorkersRouted
  BY DEF RouteInv
<1>0. UNCHANGED <<tck, wtck, wout>>
  BY DirectorFrame
<1>m. /\ pc \in [Petents -> PetentLabels] /\ wpc \in [Workers -> WorkerLabels]
      /\ petent_pids \in [1..PidsLimit -> Petents \cup {NoPid}]
  BY <1>t DEF TypeInv, CapacityInv, ShutInv, SharedOK
<1>p. ASSUME UNCHANGED pc PROVE PetentsRouted'
  BY <1>p, <1>0, <1>t DEF PetentsRouted
<1>w. ASSUME UNCHANGED wpc PROVE WorkersRouted'
  BY <1>w, <1>0, <1>t DEF WorkersRouted
<1>1. ASSUME NEW next, ScanPids(next) PROVE PetentsRouted'
  <2>1. ASSUME NEW p \in Petents, Blocked(p), Goto(p, OnInterrupt(pc[p]))
        PROVE  PetentsRouted'
    <3>1. OnInterrupt(pc[p]) \notin HasTicket \cup {"frustrated"}
      BY <2>1 DEF Blocked, OnInterrupt, HasTicket
    <3>2. PetentRouted(OnInterrupt(pc[p]), tck[p], p)
      BY <1>t, <3>1 DEF PetentsRouted, PetentRouted, HasTicket, AskForOne
    <3> QED BY <2>1, <3>2, <1>0, <1>m, <1>t DEF PetentsRouted, Goto
  <2>2. \/ UNCHANGED pc
        \/ \E p \in Petents : Blocked(p) /\ Goto(p, OnInterrupt(pc[p]))
    BY <1>1, <1>m DEF ScanPids, Signal2
  <2> QED BY <1>p, <2>1, <2>2
<1>2. ASSUME NEW S, Signal1(S) PROVE WorkersRouted'
  <2>1. SUFFICES ASSUME NEW w \in Workers
                 PROVE  WorkerRouted(wpc'[w], wtck[w], wout[w], w)
    BY <1>0 DEF WorkersRouted
  <2>2. WorkerRouted(wpc[w], wtck[w], wout[w], w)
    BY <1>t DEF WorkersRouted
  <2>3. wpc'[w] \in {wpc[w], AfterFailure(w)}
    BY <1>2 DEF Signal1
  <2>4. \/ AfterFailure(w) = wpc[w]
        \/ AfterFailure(w) \in {"report", "drainReply"} /\ wpc[w] \in Holding
        \/ AfterFailure(w) \notin Holding
    BY DEF AfterFailure, AfterReply, DrainLoop, Holding
  <2>5. WorkerRouted(AfterFailure(w), wtck[w], wout[w], w)
    BY <2>2, <2>4 DEF WorkerRouted, Holding
  <2> QED BY <2>2, <2>3, <2>5
<1>3. CASE SendSignal1
  BY <1>3, <1>2, <1>p DEF SendSignal1
<1>4. CASE Evacuate \/ KillRemaining
  BY <1>4, <1>1, <1>w DEF Evacuate, KillRemaining
<1>5. CASE UNCHANGED <<pc, wpc>>
  BY <1>5, <1>p, <1>w
<1>6. SendSignal1 \/ Evacuate \/ KillRemaining \/ UNCHANGED <<pc, wpc>>
  BY DEF DirectorStep, Configure, OpenOffice, SetOpened, SetBuilding, TimeUp,
     Event1, Event2, CloseOpened, CloseFlag, CloseBuilding, WriteReport,
     StopThread, JoinThread, unsignalled
<1> QED BY <1>3, <1>4, <1>5, <1>6

LEMMA RouteInit == Init => RouteInv
<1> SUFFICES ASSUME Init PROVE RouteInv
  OBVIOUS
<1>1. LettersRouted
  BY DEF Init, LettersRouted
<1>2. Routed(NoTicket)
  BY RoutedNowhere
     DEF NoTicket, PaymentDue, PAYMENT_NOT_NEEDED, PAYMENT_NEEDED
<1>3. PetentsRouted
  BY <1>2 DEF Init, PetentsRouted, PetentRouted, HasTicket, AskForOne
<1>4. MachinesRouted /\ WorkersRouted
  BY DEF Init, MachinesRouted, MachineRouted, WorkersRouted, WorkerRouted, Holding
<1> QED BY <1>1, <1>3, <1>4, TypeInit DEF RouteInv

LEMMA RouteStep == RouteInv /\ [Next]_vars => RouteInv'
<1> SUFFICES ASSUME RouteInv, [Next]_vars PROVE RouteInv'
  OBVIOUS
<1>0. /\ TypeInv /\ TypeInv' /\ LettersRouted
      /\ PetentsRouted /\ MachinesRouted /\ WorkersRouted
  BY TypeStep DEF RouteInv
<1>b. UNCHANGED msgs => LettersRouted'
  BY <1>0 DEF LettersRouted
<1>p. UNCHANGED petentVars => PetentsRouted'
  BY <1>0 DEF petentVars, PetentsRouted
<1>m. UNCHANGED machineVars => MachinesRouted'
  BY <1>0 DEF machineVars, MachinesRouted
<1>w. UNCHANGED workerVars => WorkersRouted'
  BY <1>0 DEF workerVars, WorkersRouted
<1>1. ASSUME NEW p \in Petents, PetentStep(p) PROVE RouteInv'
  BY <1>0, <1>1, <1>m, <1>w, PetentRoutes, PetentFrame DEF RouteInv
<1>2. ASSUME NEW m \in Machines, MachineStep(m) PROVE RouteInv'
  BY <1>0, <1>2, <1>p, <1>w, MachineRoutes, MachineFrame DEF RouteInv
<1>3. ASSUME NEW w \in Workers, WorkerStep(w) PROVE RouteInv'
  BY <1>0, <1>3, <1>p, <1>m, WorkerRoutes, WorkerFrame DEF RouteInv
<1>4. CASE DirectorStep
  BY <1>0, <1>4, <1>b, <1>m, DirectorRoutes, DirectorFrame DEF RouteInv
<1>5. CASE ThreadStep
  <2>1. LettersRouted'
    BY <1>5, <1>0, <1>b, ReceiveRouted
       DEF ThreadStep, ThreadReceive, ThreadStop, MsgTypes, TypeInv
  <2> QED BY <1>0, <1>5, <2>1, <1>p, <1>m, <1>w, ThreadFrame DEF RouteInv
<1>6. CASE RemoveIpc
  BY <1>0, <1>6, <1>b, <1>p, <1>m, <1>w DEF RemoveIpc, RouteInv
<1>7. CASE UNCHANGED vars
  BY <1>0, <1>7, <1>b, <1>p, <1>m, <1>w DEF vars, RouteInv
<1> QED
  BY <1>1, <1>2, <1>3, <1>4, <1>5, <1>6, <1>7 DEF Next, Rest

\* No matter is settled, redirected or started again while a payment the clerk
\* asked for is missing: a ticket with a payment due is found nowhere but on
\* its way to the cashier, for any number of clerks, desks and petents.
THEOREM Payment == Spec => []PaidBeforeSettled
<1>1. RouteInv => PaidBeforeSettled
  <2> SUFFICES ASSUME RouteInv PROVE PaidBeforeSettled
    OBVIOUS
  <2>1. ASSUME NEW p \in Petents, PaymentDue(tck[p]), tck[p].ticketid # -1
        PROVE  tck[p].facultytype # 0 /\ tck[p].queueid \in CashierTypes
    BY <2>1 DEF RouteInv, PetentsRouted, PetentRouted, Routed
  <2>2. ASSUME NEW k \in MsgTypes \ (CashierTypes \cup Petents \cup {D_MSG_REJECTED}),
               NEW i \in 1..Len(msgs[k])
        PROVE  ~PaymentDue(msgs[k][i])
    <3>1. k \in RequestTypes /\ k \in MsgTypes
      BY DEF MsgTypes, RequestTypes
    <3>2. Routed(msgs[k][i])
      BY <3>1 DEF RouteInv, LettersRouted, LetterOK
    <3>3. msgs[k] \in Seq(Letters(k))
      BY <3>1 DEF RouteInv, TypeInv, MsgsOK
    <3>4. msgs[k][i] \in Letters(k)
      BY <3>3
    <3> QED BY <3>1, <3>2, <3>4 DEF Routed, Letters
  <2> QED BY <2>1, <2>2 DEF PaidBeforeSettled
<1> QED BY RouteInit, RouteStep, <1>1, PTL DEF Spec
===============================================================================
