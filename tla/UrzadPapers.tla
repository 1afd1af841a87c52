------------------------------ MODULE UrzadPapers ------------------------------
(***************************************************************************)
(* What is written on a ticket while it goes round, for any number of      *)
(* processes: the copy on its way never forgets the payment or the desk    *)
(* its petent has on its own ticket, and who was counted against the limit *)
(* of a desk is not counted there again. This is what a petent relies on   *)
(* when it replaces its ticket by the answer it gets, and it rests on      *)
(* there being one copy only (UrzadTickets).                               *)
(***************************************************************************)
EXTENDS UrzadTickets

\* The copy u as against the ticket t its petent holds.
Keeps(u, t) ==
  /\ t.payment = PAYMENT_SUCCESS => u.payment = PAYMENT_SUCCESS
  /\ t.facultytype \in Desks => u.facultytype \in {t.facultytype, 0}

\* A petent counted against the limit of a desk is on its way to that one.
Within(p, g) == \A f \in Desks : p \in issued[f] => g \in {f, 0}

Fits(u) ==
  Keeps(u, tck[u.requester]) /\ Within(u.requester, u.facultytype)

FitLetters  == \A k \in Underway : \A u \in Letter(k) : Fits(u)
FitMachines == \A m \in Machines : mpc[m] \in Asked => Fits(mtck[m])
FitClerks   == \A w \in Workers : wpc[w] \in Working => Fits(Paper(w))
FitPetents  ==
  \A p \in Petents :
    /\ pc[p] \in AtQueue => Within(p, tck[p].facultytype)
    /\ pc[p] \in Early => tck[p] = NoTicket

\* Nobody is counted before a machine has looked at the request.
NotYet ==
  \A f \in Faculties : \A p \in issued[f] :
    /\ pc[p] \notin Early \cup AskForOne
    /\ p \notin Queued(D_MSG_TICKET)
    /\ \A m \in Machines : mpc[m] = "serve" => mtck[m].requester # p

PapersOK  == FitLetters /\ FitMachines /\ FitClerks /\ FitPetents /\ NotYet
PapersInv == FlowInv /\ PapersOK /\ LimitsHonoured

-------------------------------------------------------------------------------
LEMMA TicketTypeIn ==
  /\ D_MSG_TICKET \in Underway /\ D_MSG_TICKET \in MsgTypes
  /\ D_MSG_TICKET \notin WorkerMsgTypes /\ D_MSG_TICKET \notin Petents
  /\ D_MSG_REJECTED \in MsgTypes /\ D_MSG_REJECTED # D_MSG_TICKET
  /\ WorkerMsgTypes \subseteq Underway
<1>1. \A f \in Faculties \cup {CASHIER_POINT} : f \in 1..6
  BY FacultyRange DEF CASHIER_POINT
<1>2. D_MSG_TICKET \notin WorkerMsgTypes
  BY <1>1 DEF D_MSG_TICKET, WorkerMsgTypes, D_MSG_WORKER_OFFSET,
     D_MSG_WORKER_PRIORITY_OFFSET
<1>3. D_MSG_TICKET \notin Petents
  BY SetsAssumption DEF D_MSG_TICKET
<1> QED
  BY <1>2, <1>3, RequestsUnderway, RejectedNoRequest
     DEF RequestTypes, Underway, MsgTypes

\* Whose copies they are.
LEMMA Carriers ==
  ASSUME RouteInv
  PROVE  /\ \A k \in Underway : \A u \in Letter(k) :
              <<"queue", k>> \in Spots /\ u.requester \in Carried(<<"queue", k>>)
         /\ \A m \in Machines : mpc[m] \in Asked =>
              /\ <<"machine", m>> \in Spots
              /\ mtck[m].requester \in Carried(<<"machine", m>>)
         /\ \A w \in Workers : wpc[w] \in Working =>
              /\ <<"clerk", w>> \in Spots
              /\ Paper(w).requester = wtck[w].requester
              /\ Paper(w).requester \in Carried(<<"clerk", w>>)
<1>1. \A k \in Underway : \A u \in Letter(k) : u.requester \in Queued(k)
  BY DEF Letter, Queued
<1>2. \A m \in Machines : mpc[m] \in Asked => mtck[m].requester \in AtMachine(m)
  BY DEF AtMachine
<1>3. \A w \in Workers : wpc[w] \in Working =>
        /\ Paper(w).requester = wtck[w].requester
        /\ Paper(w).requester \in AtClerk(w)
  BY DEF AtClerk, Paper, RouteInv, WorkersRouted, WorkerRouted
<1> QED BY <1>1, <1>2, <1>3, SpotsOf

\* No copy of a ticket that is nowhere.
LEMMA NoCopy ==
  ASSUME RouteInv, NEW p, \A z \in Spots : p \notin Carried(z)
  PROVE  /\ \A k \in Underway : \A u \in Letter(k) : u.requester # p
         /\ \A m \in Machines : mpc[m] \in Asked => mtck[m].requester # p
         /\ \A w \in Workers : wpc[w] \in Working => Paper(w).requester # p
BY Carriers

\* What a copy says still fits while its petent keeps its ticket and is not
\* counted once more.
LEMMA FitsStays ==
  ASSUME NEW u, Fits(u), tck'[u.requester] = tck[u.requester],
         \A f \in Desks : u.requester \in issued'[f] => u.requester \in issued[f]
  PROVE  Fits(u)'
BY DEF Fits, Within

LEMMA FitsAlike ==
  ASSUME NEW u, NEW v, Fits(u), u.requester = v.requester,
         u.payment = v.payment, u.facultytype = v.facultytype
  PROVE  Fits(v)
BY DEF Fits, Keeps

\* Nobody asks for a ticket again, and no machine takes a request.
LEMMA NotYetStays ==
  ASSUME NotYet, UNCHANGED issued, issued \in [Faculties -> SUBSET Petents],
         \A q \in Petents : pc'[q] \in Early \cup AskForOne =>
                              pc[q] \in Early \cup AskForOne,
         \A q \in Petents : q \in Queued(D_MSG_TICKET)' =>
           q \in Queued(D_MSG_TICKET) \/ \A f \in Faculties : q \notin issued[f],
         \A m \in Machines : mpc'[m] = "serve" =>
           /\ mpc[m] = "serve" /\ mtck'[m] = mtck[m]
           \/ mtck'[m].requester \in Queued(D_MSG_TICKET)
  PROVE  NotYet'
<1> SUFFICES ASSUME NEW f \in Faculties, NEW q \in issued[f]
             PROVE  /\ pc'[q] \notin Early \cup AskForOne
                    /\ q \notin Queued(D_MSG_TICKET)'
                    /\ \A m \in Machines : mpc'[m] = "serve" =>
                                             mtck'[m].requester # q
  BY DEF NotYet
<1>1. /\ q \in Petents /\ pc[q] \notin Early \cup AskForOne
      /\ q \notin Queued(D_MSG_TICKET)
      /\ \A m \in Machines : mpc[m] = "serve" => mtck[m].requester # q
  BY DEF NotYet
<1> QED BY <1>1

LEMMA PetentPapers ==
  ASSUME NEW p \in Petents, PetentStep(p), PapersInv
  PROVE  PapersOK' /\ LimitsHonoured'
<1>t. /\ FlowInv /\ FitLetters /\ FitMachines /\ FitClerks /\ FitPetents
      /\ NotYet /\ LimitsHonoured /\ RouteInv /\ AllSingle /\ Apart /\ Owned
      /\ TypeInv /\ MsgsOK /\ PetentRouted(pc[p], tck[p], p)
  BY DEF PapersInv, PapersOK, FlowInv, RouteInv, TypeInv, PetentsRouted
<1>m. tck \in [Petents -> Tickets]
  BY <1>t DEF TypeInv, PetentsOK
<1>f. UNCHANGED <<mpc, mtck, wpc, wtck, wout, issued, limit, saLimit>>
  BY PetentFrame DEF machineVars, workerVars, history
<1>i. issued' = issued /\ issued \in [Faculties -> SUBSET Petents]
  BY <1>f, <1>t DEF history, TypeInv, SharedOK
<1>l. LimitsHonoured'
  BY <1>f, <1>t DEF LimitsHonoured, SaIssued
<1>p. \A q \in Petents \ {p} : pc'[q] = pc[q]
  BY <1>t, PetentMoves DEF TypeInv
<1>u. \A w \in Workers : Paper(w)' = Paper(w)
  BY <1>f DEF Paper
<1>o. /\ p \in Underway /\ p \in MsgTypes /\ D_MSG_TICKET # p
  BY <1>t, OwnQueue, PetentTypesIn, TicketTypeIn
<1>1. CASE /\ UNCHANGED <<msgs, tck>>
           /\ pc'[p] \in Early => pc[p] \in Early
           /\ pc'[p] \in AskForOne => pc[p] \in AskForOne
           /\ pc'[p] \in AtQueue => pc[p] \in AtQueue
  <2>1. FitLetters' /\ FitMachines' /\ FitClerks'
    BY <1>1, <1>f, <1>t, <1>u, FitsStays
       DEF FitLetters, FitMachines, FitClerks, Letter
  <2>2. FitPetents'
    BY <1>1, <1>f, <1>p, <1>t DEF FitPetents, Within
  <2>3. NotYet'
    <3>1. Queued(D_MSG_TICKET)' = Queued(D_MSG_TICKET)
      BY <1>1 DEF Queued
    <3> QED BY <1>1, <1>f, <1>i, <1>p, <1>t, <3>1, NotYetStays
  <2> QED BY <1>l, <2>1, <2>2, <2>3 DEF PapersOK
<1>2. CASE /\ UNCHANGED msgs /\ pc[p] = "entered" /\ pc'[p] = "tickets"
           /\ tck' = [tck EXCEPT ![p] = NewTicket(p)]
  <2>1. \A z \in Spots : p \notin Carried(z)
    BY <1>2, <1>t DEF Owned, Waiting, Parting
  <2>2. FitLetters' /\ FitMachines' /\ FitClerks'
    <3>1. ASSUME NEW u, Fits(u), u.requester # p PROVE Fits(u)'
      BY <1>2, <1>f, <3>1 DEF Fits, Within
    <3> QED
      BY <1>2, <1>f, <1>t, <1>u, <2>1, <3>1, NoCopy
         DEF FitLetters, FitMachines, FitClerks, Letter
  <2>3. FitPetents'
    BY <1>2, <1>f, <1>m, <1>p, <1>t
       DEF FitPetents, Within, AtQueue, Early
  <2>4. NotYet'
    <3>1. Queued(D_MSG_TICKET)' = Queued(D_MSG_TICKET)
      BY <1>2 DEF Queued
    <3>2. pc[p] \in Early
      BY <1>2 DEF Early
    <3> QED BY <1>f, <1>i, <1>p, <1>t, <3>1, <3>2, NotYetStays
  <2> QED BY <1>l, <2>2, <2>3, <2>4 DEF PapersOK
\* The petent writes its own ticket, for which it then waits.
<1>a. ASSUME NEW k \in Underway, Send(k, tck[p]), UNCHANGED tck,
             tck[p].requester = p, Within(p, tck[p].facultytype),
             pc'[p] \in {"waitTicket", "waitWorker"},
             k = D_MSG_TICKET => \A f \in Faculties : p \notin issued[f]
      PROVE  PapersOK'
  <2>0. k \in MsgTypes /\ tck[p] \in Tickets
    BY <1>m DEF Underway
  <2>1. Fits(tck[p])
    BY <1>a DEF Fits, Keeps
  <2>2. /\ Letter(k)' = Letter(k) \cup {tck[p]}
        /\ \A j \in MsgTypes \ {k} : Letter(j)' = Letter(j)
    BY <1>a, <1>t, <2>0, SendLetter
  <2>3. \A j \in Underway : \A u \in Letter(j)' : Fits(u)
    BY <1>t, <2>1, <2>2 DEF FitLetters, Underway
  <2>4. FitLetters' /\ FitMachines' /\ FitClerks'
    BY <1>a, <1>f, <1>t, <1>u, <2>3, FitsStays
       DEF FitLetters, FitMachines, FitClerks
  <2>5. FitPetents'
    BY <1>a, <1>f, <1>p, <1>t DEF FitPetents, Within, AtQueue, Early
  <2>6. /\ Queued(k)' = Queued(k) \cup {p}
        /\ \A j \in MsgTypes \ {k} : Queued(j)' = Queued(j)
    BY <1>a, <1>t, <2>0, SendQueued
  <2>7. pc'[p] \notin Early \cup AskForOne
    BY <1>a DEF Early, AskForOne
  <2>8. NotYet'
    BY <1>a, <1>f, <1>i, <1>p, <1>t, <2>6, <2>7, NotYetStays, TicketTypeIn
  <2> QED BY <2>4, <2>5, <2>8 DEF PapersOK
<1>3. CASE /\ Send(D_MSG_TICKET, tck[p]) /\ UNCHANGED tck
           /\ pc[p] = "sendTicket" /\ pc'[p] = "waitTicket"
  <2>1. \A f \in Faculties : p \notin issued[f]
    BY <1>3, <1>t DEF NotYet, AskForOne
  <2>2. tck[p].requester = p
    BY <1>3, <1>t DEF PetentRouted, HasTicket
  <2>3. Within(p, tck[p].facultytype)
    BY <2>1 DEF Within, Faculties
  <2> QED BY <1>3, <1>a, <1>l, <2>1, <2>2, <2>3, TicketTypeIn
<1>4. CASE /\ \E k \in WorkerMsgTypes : Send(k, tck[p])
           /\ UNCHANGED tck /\ pc[p] = "send" /\ pc'[p] = "waitWorker"
  <2>1. PICK k \in WorkerMsgTypes : Send(k, tck[p])
    BY <1>4
  <2>2. tck[p].requester = p
    BY <1>4, <1>t DEF PetentRouted, HasTicket
  <2>3. Within(p, tck[p].facultytype)
    BY <1>4, <1>t DEF FitPetents, AtQueue
  <2> QED BY <1>4, <1>a, <1>l, <2>1, <2>2, <2>3, TicketTypeIn
<1>5. CASE /\ Receive(p) /\ Waiting(p)
           /\ tck' = [tck EXCEPT ![p] = Head(msgs[p])]
           /\ pc'[p] \notin Early \cup AskForOne
  <2> DEFINE x == <<"queue", p>>
  <2>1. /\ Head(msgs[p]) \in Letter(p) /\ Letter(p)' \subseteq Letter(p)
        /\ \A j \in MsgTypes \ {p} : Letter(j)' = Letter(j)
    BY <1>5, <1>o, <1>t, ReceiveLetter
  <2>2. /\ p \in Queued(p) /\ Queued(p)' = Queued(p) \ {p}
        /\ \A j \in MsgTypes \ {p} : Queued(j)' = Queued(j)
        /\ Head(msgs[p]).requester = p
    <3>1. Queued(p) \subseteq {p}
      BY <1>t, OwnQueue
    <3> QED BY <1>5, <1>o, <1>t, <3>1, ReceiveQueued DEF AllSingle
  <2>3. \A z \in Spots \ {x} : p \notin Carried(z)
    <3>1. x \in Spots /\ p \in Carried(x)
      BY <1>o, <2>2, SpotsOf
    <3> QED BY <1>t, <3>1 DEF Apart
  <2>4. \A k \in Underway : \A u \in Letter(k)' : u.requester # p
    <3> SUFFICES ASSUME NEW k \in Underway, NEW u \in Letter(k)'
                 PROVE  u.requester # p
      OBVIOUS
    <3>1. u.requester \in Queued(k)'
      BY DEF Letter, Queued
    <3>2. CASE k = p
      BY <2>2, <3>1, <3>2
    <3>3. CASE k # p
      <4>1. Queued(k)' = Carried(<<"queue", k>>) /\ <<"queue", k>> \in Spots
        BY <2>2, <3>3, SpotsOf DEF Underway
      <4>2. <<"queue", k>> # x
        BY <3>3
      <4> QED BY <2>3, <3>1, <4>1, <4>2
    <3> QED BY <3>2, <3>3
  <2>5. /\ \A m \in Machines : mpc[m] \in Asked => mtck[m].requester # p
        /\ \A w \in Workers : wpc[w] \in Working => Paper(w).requester # p
    <3>1. \A m : <<"machine", m>> # x
      OBVIOUS
    <3>2. \A w : <<"clerk", w>> # x
      OBVIOUS
    <3> QED BY <1>t, <2>3, <3>1, <3>2, Carriers
  <2>6. ASSUME NEW u, Fits(u), u.requester # p PROVE Fits(u)'
    BY <1>5, <1>f, <2>6 DEF Fits, Within
  <2>7. FitLetters'
    <3>1. \A k \in Underway : Letter(k)' \subseteq Letter(k)
      BY <2>1 DEF Underway
    <3> QED BY <1>t, <2>4, <2>6, <3>1 DEF FitLetters
  <2>8. FitMachines' /\ FitClerks'
    BY <1>f, <1>t, <1>u, <2>5, <2>6 DEF FitMachines, FitClerks
  <2>9. Fits(Head(msgs[p]))
    BY <1>o, <1>t, <2>1 DEF FitLetters
  <2>10. FitPetents'
    BY <1>5, <1>f, <1>m, <1>p, <1>t, <2>2, <2>9 DEF FitPetents, Fits, Within
  <2>11. NotYet'
    BY <1>5, <1>f, <1>i, <1>o, <1>p, <1>t, <2>2, NotYetStays, TicketTypeIn
  <2> QED BY <1>l, <2>7, <2>8, <2>10, <2>11 DEF PapersOK
<1> QED BY <1>t, <1>1, <1>2, <1>3, <1>4, <1>5, PetentMail

-------------------------------------------------------------------------------
\* One petent more is counted against a limit that was not used up.
LEMMA CountedOnce ==
  ASSUME LimitsHonoured, SharedOK, NEW f \in Faculties, NEW p \in Petents,
         p \notin issued[f], issued' = [issued EXCEPT ![f] = @ \cup {p}],
         \/ /\ f \in Desks /\ limit[f] > 0 /\ UNCHANGED saLimit
            /\ limit' = [limit EXCEPT ![f] = @ - 1]
         \/ /\ f = FACULTY_SA /\ UNCHANGED limit
            /\ \E c \in 1..2 : saLimit[c] > 0
                               /\ saLimit' = [saLimit EXCEPT ![c] = @ - 1]
  PROVE  LimitsHonoured'
<1>t. /\ issued \in [Faculties -> SUBSET Petents]
      /\ limit \in [Desks -> Nat] /\ saLimit \in [1..2 -> Nat]
      /\ LimitInit \in [Desks -> Nat] /\ SaLimitInit \in [1..2 -> Nat]
  BY NumbersAssumption DEF SharedOK
<1>d. Desks \subseteq Faculties /\ FACULTY_SA \notin Desks
      /\ FACULTY_SA \in Faculties
  BY SetsAssumption DEF Faculties, FACULTY_SA
<1>1. Cardinality(issued'[f]) = Cardinality(issued[f]) + 1
  <2>1. IsFiniteSet(issued[f])
    BY <1>t, SetsAssumption, FS_Subset
  <2>2. issued'[f] = issued[f] \cup {p}
    BY <1>t
  <2> QED BY <2>1, <2>2, FS_AddElement
<1>2. \A g \in Faculties \ {f} : issued'[g] = issued[g]
  BY <1>t
<1>3. CASE /\ f \in Desks /\ limit[f] > 0 /\ UNCHANGED saLimit
           /\ limit' = [limit EXCEPT ![f] = @ - 1]
  <2>1. \A g \in Desks : Cardinality(issued'[g]) = LimitInit[g] - limit'[g]
    <3> SUFFICES ASSUME NEW g \in Desks
                 PROVE  Cardinality(issued'[g]) = LimitInit[g] - limit'[g]
      OBVIOUS
    <3>1. Cardinality(issued[g]) = LimitInit[g] - limit[g]
      BY DEF LimitsHonoured
    <3>2. CASE g = f
      <4>1. limit'[f] = limit[f] - 1 /\ limit[f] \in Nat /\ LimitInit[f] \in Nat
        BY <1>3, <1>t
      <4>2. Cardinality(issued'[f]) = LimitInit[f] - limit[f] + 1
        BY <1>1, <3>1, <3>2
      <4> QED BY <3>2, <4>1, <4>2
    <3>3. CASE g # f
      BY <1>2, <1>3, <1>d, <1>t, <3>1, <3>3
    <3> QED BY <3>2, <3>3
  <2>2. Cardinality(issued'[FACULTY_SA]) = SaIssued'
    BY <1>2, <1>3, <1>d DEF LimitsHonoured, SaIssued
  <2> QED BY <2>1, <2>2 DEF LimitsHonoured
<1>4. CASE /\ f = FACULTY_SA /\ UNCHANGED limit
           /\ \E c \in 1..2 : saLimit[c] > 0
                              /\ saLimit' = [saLimit EXCEPT ![c] = @ - 1]
  <2>1. \A g \in Desks : Cardinality(issued'[g]) = LimitInit[g] - limit'[g]
    BY <1>2, <1>4, <1>d DEF LimitsHonoured
  <2>2. SaIssued' = SaIssued + 1
    <3>1. PICK c \in 1..2 : saLimit' = [saLimit EXCEPT ![c] = @ - 1]
      BY <1>4
    <3>2. saLimit'[1] + saLimit'[2] = saLimit[1] + saLimit[2] - 1
      <4>1. CASE c = 1
        BY <1>t, <3>1, <4>1
      <4>2. CASE c = 2
        BY <1>t, <3>1, <4>2
      <4> QED BY <4>1, <4>2
    <3>3. /\ saLimit[1] \in Nat /\ saLimit[2] \in Nat
          /\ SaLimitInit[1] \in Nat /\ SaLimitInit[2] \in Nat
      BY <1>t
    <3> QED BY <3>2, <3>3 DEF SaIssued
  <2>3. Cardinality(issued'[FACULTY_SA]) = SaIssued'
    BY <1>1, <1>4, <2>2 DEF LimitsHonoured
  <2> QED BY <2>1, <2>3 DEF LimitsHonoured
<1> QED BY <1>3, <1>4

\* Nothing is counted, and no petent moves or writes on its own ticket.
LEMMA NothingCounted ==
  ASSUME PapersInv, UNCHANGED <<issued, limit, saLimit, tck, pc>>
  PROVE  /\ LimitsHonoured' /\ FitPetents'
         /\ \A u : Fits(u) => Fits(u)'
<1>1. LimitsHonoured'
  BY DEF PapersInv, LimitsHonoured, SaIssued
<1>2. FitPetents'
  BY DEF PapersInv, PapersOK, FitPetents, Within
<1> QED BY <1>1, <1>2, FitsStays

\* p, whose only copy is u, is counted against the limit of the faculty f.
LEMMA CountedPapers ==
  ASSUME PapersInv, UNCHANGED <<tck, pc>>, NEW f \in Faculties,
         NEW x \in Spots, NEW p \in Carried(x),
         issued' = [issued EXCEPT ![f] = @ \cup {p}]
  PROVE  /\ FitPetents'
         /\ \A u : Fits(u) /\ u.requester # p => Fits(u)'
         /\ \A k \in Underway : <<"queue", k>> # x =>
              \A u \in Letter(k) : u.requester # p
         /\ \A m \in Machines : <<"machine", m>> # x /\ mpc[m] \in Asked =>
              mtck[m].requester # p
         /\ \A w \in Workers : <<"clerk", w>> # x /\ wpc[w] \in Working =>
              Paper(w).requester # p
<1>t. /\ RouteInv /\ Apart /\ Owned /\ FitPetents
      /\ issued \in [Faculties -> SUBSET Petents]
  BY DEF PapersInv, PapersOK, FlowInv, RouteInv, TypeInv, SharedOK
<1>1. \A z \in Spots \ {x} : p \notin Carried(z)
  BY <1>t DEF Apart
<1>2. p \in Petents /\ pc[p] \notin AtQueue \cup Early
  BY <1>t DEF Owned, Waiting, Parting, AtQueue, Early
<1>3. \A g \in Faculties : \A q : q # p /\ q \in issued'[g] => q \in issued[g]
  BY <1>t
<1>d. Desks \subseteq Faculties
  BY DEF Faculties
<1>4. FitPetents'
  BY <1>2, <1>3, <1>d, <1>t DEF FitPetents, Within
<1>5. ASSUME NEW u, Fits(u), u.requester # p PROVE Fits(u)'
  BY <1>3, <1>5, <1>d, FitsStays
<1>6. ASSUME NEW k \in Underway, <<"queue", k>> # x, NEW u \in Letter(k)
      PROVE  u.requester # p
  BY <1>1, <1>6, <1>t, Carriers
<1>7. ASSUME NEW m \in Machines, <<"machine", m>> # x, mpc[m] \in Asked
      PROVE  mtck[m].requester # p
  BY <1>1, <1>7, <1>t, Carriers
<1>8. ASSUME NEW w \in Workers, <<"clerk", w>> # x, wpc[w] \in Working
      PROVE  Paper(w).requester # p
  BY <1>1, <1>8, <1>t, Carriers
<1> QED BY <1>4, <1>5, <1>6, <1>7, <1>8

\* A machine passes a request on as it came, and counts whom it accepts.
LEMMA MachinePapers ==
  ASSUME NEW m \in Machines, MachineStep(m), PapersInv
  PROVE  PapersOK' /\ LimitsHonoured'
<1>t. /\ FlowInv /\ FitLetters /\ FitMachines /\ FitClerks /\ FitPetents
      /\ NotYet /\ LimitsHonoured /\ RouteInv /\ AllSingle /\ Apart /\ Owned
      /\ TypeInv /\ MsgsOK /\ SharedOK
  BY DEF PapersInv, PapersOK, FlowInv, RouteInv, TypeInv
<1>m. /\ mpc \in [Machines -> MachineLabels] /\ mtck \in [Machines -> Tickets]
      /\ issued \in [Faculties -> SUBSET Petents]
      /\ limit \in [Desks -> Nat] /\ saLimit \in [1..2 -> Nat]
      /\ mpc[m] \in {"serve", "reply"} => Sound(mtck[m]) /\ Live(mtck[m])
  BY <1>t DEF TypeInv, LockInv, MachinesOK, SharedOK
<1>f. UNCHANGED <<pc, tck, wpc, wtck, wout>>
  BY MachineFrame DEF petentVars, workerVars
<1>n. \A n \in Machines \ {m} : mpc'[n] = mpc[n] /\ mtck'[n] = mtck[n]
  BY <1>m DEF MachineStep, MachineLockOpened, MachineUnlockOpened, MachineCheck,
     MachinePoll, MachineServe, MachineReply, MachineReport, MachineLockCheck,
     MGoto
<1>u. \A w \in Workers : Paper(w)' = Paper(w)
  BY <1>f DEF Paper
\* Nobody is counted, and the letters and the machine have what fits.
<1>a. ASSUME UNCHANGED <<issued, limit, saLimit>>,
             \A k \in Underway : \A v \in Letter(k)' : Fits(v),
             NEW t, mtck'[m] = t, mpc'[m] \in Asked => Fits(t),
             \A q \in Petents : q \in Queued(D_MSG_TICKET)' =>
                                  q \in Queued(D_MSG_TICKET),
             mpc'[m] = "serve" => mtck'[m].requester \in Queued(D_MSG_TICKET)
      PROVE  PapersOK' /\ LimitsHonoured'
  <2>1. /\ LimitsHonoured' /\ FitPetents'
        /\ \A v : Fits(v) => Fits(v)'
    BY <1>a, <1>f, NothingCounted
  <2>2. FitLetters'
    BY <1>a, <2>1 DEF FitLetters
  <2>3. FitMachines'
    <3> SUFFICES ASSUME NEW n \in Machines, NEW v, v = mtck'[n], mpc'[n] \in Asked
                 PROVE  Fits(v)'
      BY DEF FitMachines
    <3>1. CASE n = m
      BY <1>a, <2>1, <3>1
    <3>2. CASE n # m
      BY <1>n, <1>t, <2>1, <3>2 DEF FitMachines
    <3> QED BY <3>1, <3>2
  <2>4. FitClerks'
    BY <1>f, <1>t, <1>u, <2>1 DEF FitClerks
  <2>5. NotYet'
    BY <1>a, <1>f, <1>m, <1>n, <1>t, NotYetStays
  <2> QED BY <2>1, <2>2, <2>3, <2>4, <2>5 DEF PapersOK
<1>b. ASSUME UNCHANGED <<msgs, issued, limit, saLimit>>, mpc'[m] \notin Asked
      PROVE  PapersOK' /\ LimitsHonoured'
  <2>1. \A k \in Underway : \A v \in Letter(k)' : Fits(v)
    BY <1>b, <1>t DEF FitLetters, Letter
  <2>2. Queued(D_MSG_TICKET)' = Queued(D_MSG_TICKET)
    BY <1>b DEF Queued
  <2> QED BY <1>a, <1>b, <2>1, <2>2 DEF Asked
<1> USE DEF shmVars, semVars, limitVars, history
<1>1. CASE MachineLockOpened(m)
  BY <1>1, <1>b, <1>m DEF MachineLockOpened, MGoto, Asked
<1>2. CASE MachineUnlockOpened(m)
  BY <1>2, <1>b, <1>m DEF MachineUnlockOpened, MGoto, Asked
<1>3. CASE MachineCheck(m)
  <2>1. mpc'[m] \in {"done", "poll", "check"}
    BY <1>3, <1>m DEF MachineCheck, MGoto
  <2> QED BY <1>3, <1>b, <2>1 DEF MachineCheck, Asked
<1>4. CASE MachinePoll(m)
  <2>1. UNCHANGED <<issued, limit, saLimit>>
    BY <1>4 DEF MachinePoll
  <2>2. CASE UNCHANGED msgs /\ MGoto(m, "lockCheck")
    BY <1>b, <1>m, <2>1, <2>2 DEF MGoto, Asked
  <2>3. CASE /\ Receive(D_MSG_TICKET) /\ MGoto(m, "serve")
             /\ mtck' = [mtck EXCEPT ![m] = Head(msgs[D_MSG_TICKET])]
    <3> DEFINE t == Head(msgs[D_MSG_TICKET])
    <3>1. /\ t \in Letter(D_MSG_TICKET)
          /\ Letter(D_MSG_TICKET)' \subseteq Letter(D_MSG_TICKET)
          /\ \A j \in MsgTypes \ {D_MSG_TICKET} : Letter(j)' = Letter(j)
      BY <1>t, <2>3, ReceiveLetter, TicketTypeIn
    <3>2. \A k \in Underway : \A v \in Letter(k)' : Fits(v)
      BY <1>t, <3>1 DEF FitLetters, Underway
    <3>3. /\ t.requester \in Queued(D_MSG_TICKET)
          /\ Queued(D_MSG_TICKET)' \subseteq Queued(D_MSG_TICKET)
      BY <1>t, <2>3, ReceiveQueued, TicketTypeIn DEF AllSingle
    <3>4. mtck'[m] = t /\ Fits(t)
      BY <1>m, <1>t, <2>3, <3>1, TicketTypeIn DEF FitLetters
    <3> HIDE DEF t
    <3> QED BY <1>a, <2>1, <3>2, <3>3, <3>4
  <2> QED BY <1>4, <2>2, <2>3 DEF MachinePoll
<1>5. CASE MachineServe(m)
  <2> DEFINE f == mtck[m].facultytype
             p == mtck[m].requester
             x == <<"machine", m>>
  <2>0. /\ mpc[m] = "serve" /\ mpc'[m] = "reply" /\ mtck' = mtck /\ msgs' = msgs
        /\ f \in Faculties /\ p \in Petents
    BY <1>5, <1>m DEF MachineServe, MGoto, Sound, Live
  <2>1. PICK status \in {0, -1} :
          /\ TakeFromLimit(f, status)
          /\ issued' = IF status = 0 THEN [issued EXCEPT ![f] = @ \cup {p}]
                                     ELSE issued
    BY <1>5 DEF MachineServe
  <2>2. Queued(D_MSG_TICKET)' = Queued(D_MSG_TICKET)
    BY <2>0 DEF Queued
  <2>3. \A k \in Underway : Letter(k)' = Letter(k)
    BY <2>0 DEF Letter
  <2>4. CASE status = -1
    <3>1. UNCHANGED <<limit, saLimit>>
      <4>1. CASE f # FACULTY_SA
        BY <1>m, <2>1, <2>4, <4>1 DEF TakeFromLimit
      <4>2. CASE f = FACULTY_SA
        BY <1>m, <2>1, <2>4, <4>2 DEF TakeFromLimit
      <4> QED BY <4>1, <4>2
    <3>2. Fits(mtck[m])
      BY <1>t, <2>0 DEF FitMachines, Asked
    <3>3. issued' = issued
      BY <2>1, <2>4
    <3>4. \A k \in Underway : \A v \in Letter(k)' : Fits(v)
      BY <1>t, <2>3 DEF FitLetters
    <3> QED BY <1>a, <2>0, <2>2, <3>1, <3>2, <3>3, <3>4
  <2>5. CASE status = 0
    <3>0. /\ x \in Spots /\ p \in Carried(x)
          /\ issued' = [issued EXCEPT ![f] = @ \cup {p}]
      BY <1>t, <2>0, <2>1, <2>5, Carriers DEF Asked
    <3>1. p \notin issued[f]
      BY <1>t, <2>0 DEF NotYet
    <3>2. LimitsHonoured'
      <4>1. CASE f # FACULTY_SA
        <5>1. f \in Desks
          BY <2>0, <4>1 DEF Faculties
        <5>2. /\ limit[f] > 0 /\ UNCHANGED saLimit
              /\ limit' = [limit EXCEPT ![f] = @ - 1]
          BY <1>m, <2>1, <2>5, <4>1, <5>1 DEF TakeFromLimit
        <5> QED BY <1>t, <2>0, <3>0, <3>1, <5>1, <5>2, CountedOnce
      <4>2. CASE f = FACULTY_SA
        <5>1. PICK s \in 1..2 :
                LET c == IF saLimit[s] > 0 THEN s ELSE 3 - s IN
                /\ 0 = (IF saLimit[c] > 0 THEN 0 ELSE -1)
                /\ saLimit' = [saLimit EXCEPT ![c] =
                                 @ + (IF 0 = 0 THEN -1 ELSE 0)]
                /\ UNCHANGED limit
          BY <2>1, <2>5, <4>2 DEF TakeFromLimit
        <5>2. PICK c \in 1..2 : c = IF saLimit[s] > 0 THEN s ELSE 3 - s
          OBVIOUS
        <5>3. /\ saLimit[c] > 0 /\ saLimit' = [saLimit EXCEPT ![c] = @ - 1]
              /\ UNCHANGED limit
          <6>1. /\ 0 = (IF saLimit[c] > 0 THEN 0 ELSE -1)
                /\ saLimit' = [saLimit EXCEPT ![c] = @ + (-1)]
                /\ UNCHANGED limit
            BY <5>1, <5>2
          <6>2. saLimit[c] > 0
            BY <6>1
          <6>3. saLimit[c] \in Nat
            BY <1>m
          <6>4. saLimit[c] + (-1) = saLimit[c] - 1
            BY <6>3
          <6> QED BY <6>1, <6>2, <6>4
        <5> QED BY <1>t, <2>0, <3>0, <3>1, <4>2, <5>3, CountedOnce
      <4> QED BY <4>1, <4>2
    <3>3. /\ FitPetents'
          /\ \A v : Fits(v) /\ v.requester # p => Fits(v)'
          /\ \A k \in Underway : \A v \in Letter(k) : v.requester # p
          /\ \A n \in Machines \ {m} : mpc[n] \in Asked => mtck[n].requester # p
          /\ \A w \in Workers : wpc[w] \in Working => Paper(w).requester # p
      <4>1. /\ \A k : <<"queue", k>> # x
            /\ \A n : n # m => <<"machine", n>> # x
            /\ \A w : <<"clerk", w>> # x
        OBVIOUS
      <4>2. PICK y \in Spots : y = x
        BY <3>0
      <4>3. PICK g \in Faculties : g = f
        BY <2>0
      <4>4. PICK r \in Carried(y) : r = p
        BY <3>0, <4>2
      <4> HIDE DEF f, p, x
      <4>5. issued' = [issued EXCEPT ![g] = @ \cup {r}]
        BY <3>0, <4>3, <4>4
      <4> QED BY <1>f, <4>1, <4>2, <4>4, <4>5, CountedPapers
    <3>4. FitLetters'
      BY <1>t, <2>3, <3>3 DEF FitLetters
    <3>5. FitMachines'
      <4> SUFFICES ASSUME NEW n \in Machines, NEW v, v = mtck'[n],
                          mpc'[n] \in Asked
                   PROVE  Fits(v)'
        BY DEF FitMachines
      <4>1. CASE n # m
        BY <1>n, <1>t, <3>3, <4>1 DEF FitMachines
      <4>2. CASE n = m
        <5>1. v = mtck[m] /\ Fits(v) /\ v.facultytype = f /\ v.requester = p
          BY <1>t, <2>0, <4>2 DEF FitMachines, Asked
        <5>2. ASSUME NEW g \in Desks, p \in issued'[g] PROVE f \in {g, 0}
          <6>1. g \in Faculties
            BY DEF Faculties
          <6>2. g = f \/ p \in issued[g]
            BY <1>m, <3>0, <5>2, <6>1
          <6> QED BY <5>1, <6>2 DEF Fits, Within
        <5> QED BY <1>f, <5>1, <5>2 DEF Fits, Within
      <4> QED BY <4>1, <4>2
    <3>6. FitClerks'
      BY <1>f, <1>t, <1>u, <3>3 DEF FitClerks
    <3>7. NotYet'
      <4> SUFFICES ASSUME NEW g \in Faculties, NEW q \in issued'[g]
                   PROVE  /\ pc'[q] \notin Early \cup AskForOne
                          /\ q \notin Queued(D_MSG_TICKET)'
                          /\ \A n \in Machines : mpc'[n] = "serve" =>
                                                   mtck'[n].requester # q
        BY DEF NotYet
      <4>1. CASE q = p
        <5>1. pc[p] \notin Early \cup AskForOne
          BY <1>t, <3>0 DEF Owned, Waiting, Parting, Early, AskForOne
        <5>2. p \notin Queued(D_MSG_TICKET)
          BY <3>3, TicketTypeIn DEF Queued, Letter
        <5>3. \A n \in Machines \ {m} : mpc[n] = "serve" => mtck[n].requester # p
          BY <3>3 DEF Asked
        <5> QED BY <1>f, <1>n, <2>0, <2>2, <4>1, <5>1, <5>2, <5>3
      <4>2. CASE q # p
        <5>1. q \in issued[g]
          BY <1>m, <3>0, <4>2
        <5> QED BY <1>f, <1>n, <1>t, <2>0, <2>2, <5>1 DEF NotYet
      <4> QED BY <4>1, <4>2
    <3> QED BY <3>2, <3>3, <3>4, <3>5, <3>6, <3>7 DEF PapersOK
  <2> QED BY <2>1, <2>4, <2>5
<1>6. CASE MachineReply(m)
  <2> DEFINE v == MachineAnswer(mtck[m], mstatus[m])
  <2>0. mpc[m] = "reply" /\ Sound(mtck[m]) /\ Live(mtck[m])
    BY <1>6, <1>m DEF MachineReply
  <2>1. PICK p \in Petents : p = mtck[m].requester
    BY <2>0 DEF Sound
  <2>2. v \in Tickets
    BY <1>t, <2>0, MachineAnswerOK DEF Sound, TypeInv, MachinesOK
  <2>3. /\ v.requester = p /\ v.payment = mtck[m].payment
        /\ v.facultytype = mtck[m].facultytype
    BY <1>m, <2>1 DEF MachineAnswer, Tickets
  <2>4. Send(p, v) /\ p \in MsgTypes /\ p # D_MSG_TICKET
    BY <1>6, <2>1, PetentTypesIn, TicketTypeIn DEF MachineReply
  <2> HIDE DEF v
  <2>5. Fits(v)
    <3>1. Fits(mtck[m])
      BY <1>t, <2>0 DEF FitMachines, Asked
    <3> QED BY <2>1, <2>3, <3>1, FitsAlike
  <2>6. \A k \in Underway : \A t \in Letter(k)' : Fits(t)
    BY <1>t, <2>2, <2>4, <2>5, SendLetter DEF FitLetters, Underway
  <2>7. Queued(D_MSG_TICKET)' = Queued(D_MSG_TICKET)
    BY <1>t, <2>2, <2>4, SendQueued, TicketTypeIn
  <2>8. mpc'[m] \notin Asked
    BY <1>6, <1>m DEF MachineReply, MGoto, Asked
  <2>9. UNCHANGED <<issued, limit, saLimit>>
    BY <1>6 DEF MachineReply
  <2> QED BY <1>a, <2>6, <2>7, <2>8, <2>9 DEF Asked
<1>7. CASE MachineReport(m)
  <2> DEFINE v == [mtck[m] EXCEPT !.queueid = 1]
  <2>1. v \in Tickets
    BY <1>m DEF Tickets, D_MSG_TICKET
  <2>2. Send(D_MSG_REJECTED, v)
    BY <1>7 DEF MachineReport
  <2> HIDE DEF v
  <2>3. \A k \in Underway : Letter(k)' = Letter(k)
    BY <1>t, <2>1, <2>2, SendLetter, TicketTypeIn DEF Underway
  <2>4. Queued(D_MSG_TICKET)' = Queued(D_MSG_TICKET)
    BY <1>t, <2>1, <2>2, SendQueued, TicketTypeIn
  <2>5. mpc'[m] \notin Asked
    BY <1>7, <1>m DEF MachineReport, MGoto, Asked
  <2>6. UNCHANGED <<issued, limit, saLimit>>
    BY <1>7 DEF MachineReport
  <2>7. \A k \in Underway : \A t \in Letter(k)' : Fits(t)
    BY <1>t, <2>3 DEF FitLetters
  <2> QED BY <1>a, <2>4, <2>5, <2>6, <2>7 DEF Asked
<1>8. CASE MachineLockCheck(m)
  BY <1>8, <1>b, <1>m DEF MachineLockCheck, MGoto, Asked
<1> QED
  BY <1>1, <1>2, <1>3, <1>4, <1>5, <1>6, <1>7, <1>8 DEF MachineStep

-------------------------------------------------------------------------------
\* A clerk forgets no payment and sends nobody on from a desk but to the cashier
\* and back; an SA clerk counts a petent that was counted for no desk.
LEMMA ServeFits ==
  ASSUME NEW w \in Workers, wtck \in [Workers -> Tickets],
         wout \in [Workers -> Tickets], Live(wtck[w]), Fits(wtck[w]),
         WorkerRouted("serve", wtck[w], NoTicket, w),
         Redirect(w) \/ RequirePayment(w) \/ TakePayment(w) \/ Settle(w),
         NEW u, u = wout'[w], NEW p, p = wtck[w].requester
  PROVE  \/ Fits(u) /\ UNCHANGED <<limit, issued>>
         \/ \E f \in Desks :
              /\ \A g \in Desks : p \notin issued[g]
              /\ tck[p].facultytype \notin Desks
              /\ limit[f] > 0 /\ limit' = [limit EXCEPT ![f] = @ - 1]
              /\ issued' = [issued EXCEPT ![f] = @ \cup {p}]
              /\ u.requester = p /\ u.facultytype = f
              /\ u.payment = wtck[w].payment
<1> DEFINE t == wtck[w]
<1>1. /\ t \in Tickets /\ t.ticketid # -1 /\ Routed(t)
      /\ t.queueid \in TypesTo(WorkerType[w])
  BY DEF WorkerRouted, Holding
<1>2. WorkerType[w] \in Faculties =>
        t.facultytype = WorkerType[w] /\ ~PaymentDue(t)
  BY <1>1, NothingDue
<1>3. Desks \subseteq Faculties /\ FACULTY_SA \in Faculties \ Desks
      /\ 0 \notin Desks /\ FACULTY_SA # 0
  BY SetsAssumption DEF Faculties, FACULTY_SA
<1>4. CASE Redirect(w)
  <2>1. PICK f \in Desks :
          LET r == [t EXCEPT !.facultytype = f, !.redirected_from = FACULTY_SA] IN
          \/ /\ limit[f] > 0
             /\ limit' = [limit EXCEPT ![f] = @ - 1]
             /\ issued' = [issued EXCEPT ![f] = @ \cup {r.requester}]
             /\ wout' = [wout EXCEPT ![w] = [r EXCEPT !.queueid = Forward(w, f)]]
          \/ /\ limit[f] = 0
             /\ wout' = [wout EXCEPT ![w] =
                            [r EXCEPT !.ticketid = -1, !.queueid = 0]]
             /\ UNCHANGED <<limit, issued>>
    BY <1>4 DEF Redirect
  <2>2. t.facultytype = FACULTY_SA
    BY <1>2, <1>3, <1>4 DEF Redirect
  <2>3. (\A g \in Desks : p \notin issued[g]) /\ tck[p].facultytype \notin Desks
    BY <1>3, <2>2 DEF Fits, Keeps, Within
  <2> DEFINE r == [t EXCEPT !.facultytype = f, !.redirected_from = FACULTY_SA]
             r1 == [r EXCEPT !.queueid = Forward(w, f)]
             r0 == [r EXCEPT !.ticketid = -1, !.queueid = 0]
  <2>4. /\ r.requester = p
        /\ r1.requester = p /\ r1.facultytype = f /\ r1.payment = t.payment
        /\ r0.requester = p /\ r0.facultytype = f /\ r0.payment = t.payment
    BY <1>1 DEF Tickets
  <2>5. CASE /\ limit[f] > 0 /\ limit' = [limit EXCEPT ![f] = @ - 1]
             /\ issued' = [issued EXCEPT ![f] = @ \cup {p}]
             /\ wout' = [wout EXCEPT ![w] = r1]
    BY <2>3, <2>4, <2>5
  <2>6. CASE UNCHANGED <<limit, issued>> /\ wout' = [wout EXCEPT ![w] = r0]
    <3>1. u = r0
      BY <2>6
    <3> HIDE DEF r0
    <3>2. Fits(u)
      BY <2>3, <2>4, <3>1 DEF Fits, Keeps, Within
    <3> QED BY <2>6, <3>2
  <2> QED BY <2>1, <2>4, <2>5, <2>6
<1>5. CASE RequirePayment(w)
  <2> DEFINE r == [t EXCEPT !.payment = PAYMENT_NEEDED,
                            !.redirected_from = t.facultytype,
                            !.queueid = Forward(w, CASHIER_POINT)]
  <2>1. u = r /\ UNCHANGED <<limit, issued>> /\ t.payment = PAYMENT_NOT_NEEDED
    BY <1>5 DEF RequirePayment
  <2>2. r.requester = p /\ r.facultytype = t.facultytype
    BY <1>1 DEF Tickets
  <2> HIDE DEF r
  <2>3. tck[p].payment # PAYMENT_SUCCESS
    BY <2>1 DEF Fits, Keeps, PAYMENT_SUCCESS, PAYMENT_NOT_NEEDED
  <2> QED BY <2>1, <2>2, <2>3 DEF Fits, Keeps
<1>6. CASE TakePayment(w)
  <2> DEFINE f == t.redirected_from
             r == [t EXCEPT !.payment = PAYMENT_SUCCESS, !.facultytype = f,
                            !.queueid = f + D_MSG_WORKER_PRIORITY_OFFSET]
  <2>1. u = r /\ UNCHANGED <<limit, issued>>
    BY <1>6 DEF TakePayment
  <2>2. /\ r.requester = p /\ r.facultytype = f /\ r.payment = PAYMENT_SUCCESS
    BY <1>1 DEF Tickets
  <2>3. f = t.facultytype
    BY <1>1, <1>6, TypesApart DEF TakePayment, Routed
  <2> HIDE DEF f, r
  <2> QED BY <2>1, <2>2, <2>3 DEF Fits, Keeps
<1>7. CASE Settle(w)
  <2> DEFINE r == [t EXCEPT !.facultytype = 0, !.queueid = 0]
  <2>1. u = r /\ UNCHANGED <<limit, issued>>
    BY <1>7 DEF Settle
  <2>2. r.requester = p /\ r.facultytype = 0 /\ r.payment = t.payment
    BY <1>1 DEF Tickets
  <2> HIDE DEF r
  <2> QED BY <2>1, <2>2 DEF Fits, Keeps, Within
<1> QED BY <1>4, <1>5, <1>6, <1>7

LEMMA WorkerPapers ==
  ASSUME NEW w \in Workers, WorkerStep(w), PapersInv
  PROVE  PapersOK' /\ LimitsHonoured'
<1>t. /\ FlowInv /\ FitLetters /\ FitMachines /\ FitClerks /\ FitPetents
      /\ NotYet /\ LimitsHonoured /\ RouteInv /\ AllSingle /\ Apart /\ Owned
      /\ TypeInv /\ MsgsOK /\ SharedOK
      /\ WorkerRouted(wpc[w], wtck[w], wout[w], w)
  BY DEF PapersInv, PapersOK, FlowInv, RouteInv, TypeInv, WorkersRouted
<1>m. /\ wpc \in [Workers -> WorkerLabels]
      /\ wtck \in [Workers -> Tickets] /\ wout \in [Workers -> Tickets]
      /\ issued \in [Faculties -> SUBSET Petents]
      /\ wpc[w] \in Holding => Sound(wtck[w]) /\ Live(wtck[w])
  BY <1>t DEF TypeInv, ShutInv, WorkersOK, SharedOK
<1>f. UNCHANGED <<pc, tck, mpc, mtck>>
  BY WorkerFrame DEF petentVars, machineVars
<1>n. \A v \in Workers \ {w} :
        wpc'[v] = wpc[v] /\ wtck'[v] = wtck[v] /\ wout'[v] = wout[v]
  BY <1>m DEF WorkerStep, WorkerLockOpened, WorkerUnlockOpened, WorkerCheck,
     WorkerPoll, Take, WorkerServe, Redirect, RequirePayment, TakePayment,
     Settle, WorkerNumber, WorkerReply, WorkerReport,
     WorkerLockCheck, WorkerDrainReport, WorkerDrainReply, WGoto, EmptyHand
<1>u. \A v \in Workers \ {w} : Paper(v)' = Paper(v)
  BY <1>n DEF Paper
\* Nobody is counted, and the letters and the clerk have what fits.
<1>a. ASSUME UNCHANGED <<issued, limit, saLimit>>,
             \A k \in Underway : \A v \in Letter(k)' : Fits(v),
             NEW t, wpc'[w] \in Working => Paper(w)' = t /\ Fits(t),
             Queued(D_MSG_TICKET)' = Queued(D_MSG_TICKET)
      PROVE  PapersOK' /\ LimitsHonoured'
  <2>1. /\ LimitsHonoured' /\ FitPetents'
        /\ \A v : Fits(v) => Fits(v)'
    BY <1>a, <1>f, NothingCounted
  <2>2. FitLetters'
    BY <1>a, <2>1 DEF FitLetters
  <2>3. FitMachines'
    BY <1>f, <1>t, <2>1 DEF FitMachines
  <2>4. FitClerks'
    <3> SUFFICES ASSUME NEW v \in Workers, NEW r, r = Paper(v)',
                        wpc'[v] \in Working
                 PROVE  Fits(r)'
      BY DEF FitClerks
    <3>1. CASE v = w
      BY <1>a, <2>1, <3>1
    <3>2. CASE v # w
      BY <1>n, <1>t, <1>u, <2>1, <3>2 DEF FitClerks
    <3> QED BY <3>1, <3>2
  <2>5. NotYet'
    BY <1>a, <1>f, <1>m, <1>t, NotYetStays
  <2> QED BY <2>1, <2>2, <2>3, <2>4, <2>5 DEF PapersOK
\* No letter.
<1>b. ASSUME UNCHANGED <<msgs, issued, limit, saLimit>>, NEW t,
             wpc'[w] \in Working => Paper(w)' = t /\ Fits(t)
      PROVE  PapersOK' /\ LimitsHonoured'
  <2>1. \A k \in Underway : \A v \in Letter(k)' : Fits(v)
    BY <1>b, <1>t DEF FitLetters, Letter
  <2>2. Queued(D_MSG_TICKET)' = Queued(D_MSG_TICKET)
    BY <1>b DEF Queued
  <2> QED BY <1>a, <1>b, <2>1, <2>2
<1>c. ASSUME UNCHANGED <<msgs, issued, limit, saLimit>>, NEW l, WGoto(w, l),
             l \notin Working
      PROVE  PapersOK' /\ LimitsHonoured'
  BY <1>b, <1>c, <1>m DEF WGoto
\* A letter to a petent, or to the director.
<1>d. ASSUME UNCHANGED <<issued, limit, saLimit>>,
             NEW k \in Petents \cup {D_MSG_REJECTED}, NEW v \in Tickets, Send(k, v),
             k \in Underway => Fits(v), NEW t,
             wpc'[w] \in Working => Paper(w)' = t /\ Fits(t)
      PROVE  PapersOK' /\ LimitsHonoured'
  <2>1. k \in MsgTypes /\ k # D_MSG_TICKET
    BY PetentTypesIn, TicketTypeIn
  <2>2. \A j \in Underway : \A r \in Letter(j)' : Fits(r)
    BY <1>d, <1>t, <2>1, SendLetter DEF FitLetters, Underway
  <2>3. Queued(D_MSG_TICKET)' = Queued(D_MSG_TICKET)
    BY <1>d, <1>t, <2>1, SendQueued, TicketTypeIn
  <2> QED BY <1>a, <1>d, <2>2, <2>3
<1> USE DEF shmVars, semVars, limitVars, history
<1>1. CASE WorkerLockOpened(w)
  BY <1>1, <1>c DEF WorkerLockOpened, Working
<1>2. CASE WorkerUnlockOpened(w)
  BY <1>2, <1>c DEF WorkerUnlockOpened, Working
<1>3. CASE WorkerCheck(w)
  <2>1. PICK l \in {"drainPrio", "pollPrio"} : WGoto(w, l)
    BY <1>3 DEF WorkerCheck
  <2> QED BY <1>3, <1>c, <2>1 DEF WorkerCheck, Working
<1>4. CASE WorkerPoll(w)
  <2>1. PICK k \in {PriorityType(w), NormalType(w)}, vip \in BOOLEAN,
             l \in {"serve", "drainReport"},
             empty \in {"poll", "check", "drain", "done"} :
          Take(w, k, vip, l, empty)
    BY <1>4 DEF WorkerPoll
  <2>2. UNCHANGED <<issued, limit, saLimit>>
    BY <1>4 DEF WorkerPoll
  <2>3. k \in MsgTypes /\ k \in Underway /\ k # D_MSG_TICKET
    <3>1. k \in WorkerMsgTypes
      BY WorkerQueue
    <3> QED BY <3>1, TicketTypeIn DEF MsgTypes
  <2>4. CASE UNCHANGED msgs /\ WGoto(w, empty)
    BY <1>c, <2>2, <2>4 DEF Working
  <2>5. CASE /\ Receive(k) /\ WGoto(w, l)
             /\ wtck' = [wtck EXCEPT ![w] = Head(msgs[k])]
    <3> DEFINE t == Head(msgs[k])
    <3>1. /\ t \in Letter(k) /\ Letter(k)' \subseteq Letter(k)
          /\ \A j \in MsgTypes \ {k} : Letter(j)' = Letter(j)
      BY <1>t, <2>3, <2>5, ReceiveLetter
    <3>2. \A j \in Underway : \A v \in Letter(j)' : Fits(v)
      BY <1>t, <3>1 DEF FitLetters, Underway
    <3>3. Queued(D_MSG_TICKET)' = Queued(D_MSG_TICKET)
      BY <1>t, <2>3, <2>5, ReceiveQueued, TicketTypeIn
    <3>4. Paper(w)' = t
      BY <1>m, <2>5 DEF Paper, WGoto
    <3>5. Fits(t)
      BY <1>t, <2>3, <3>1 DEF FitLetters
    <3> HIDE DEF t
    <3> QED BY <1>a, <2>2, <3>2, <3>3, <3>4, <3>5
  <2> QED BY <2>1, <2>4, <2>5 DEF Take
<1>5. CASE WorkerServe(w)
  <2> DEFINE t == wtck[w]
             x == <<"clerk", w>>
  <2>0. /\ wpc[w] = "serve" /\ wpc'[w] \in {"reply", "number"}
        /\ msgs' = msgs /\ saLimit' = saLimit
    BY <1>5, <1>m DEF WorkerServe, WGoto
  <2>1. Live(t) /\ Fits(t) /\ WorkerRouted("serve", t, NoTicket, w)
    <3>1. Paper(w) = t
      BY <2>0 DEF Paper
    <3> QED BY <1>m, <1>t, <2>0, <3>1 DEF FitClerks, Working, WorkerRouted, Holding
  <2>p. PICK p : p = t.requester
    OBVIOUS
  <2>2. PICK u : u = wout'[w]
    OBVIOUS
  <2>3. Paper(w)' = u
    BY <2>0, <2>2 DEF Paper
  <2>4. \/ Fits(u) /\ UNCHANGED <<limit, issued>>
        \/ \E f \in Desks :
              /\ \A g \in Desks : p \notin issued[g]
              /\ tck[p].facultytype \notin Desks
              /\ limit[f] > 0 /\ limit' = [limit EXCEPT ![f] = @ - 1]
              /\ issued' = [issued EXCEPT ![f] = @ \cup {p}]
              /\ u.requester = p /\ u.facultytype = f
              /\ u.payment = t.payment
    <3>1. Redirect(w) \/ RequirePayment(w) \/ TakePayment(w) \/ Settle(w)
      BY <1>5 DEF WorkerServe
    <3>2. /\ wtck \in [Workers -> Tickets] /\ wout \in [Workers -> Tickets]
          /\ Live(wtck[w]) /\ Fits(wtck[w])
          /\ WorkerRouted("serve", wtck[w], NoTicket, w)
      BY <1>m, <2>1
    <3>3. u = wout'[w] /\ p = wtck[w].requester
      BY <2>2, <2>p
    <3> HIDE DEF t
    <3>4. \/ Fits(u) /\ UNCHANGED <<limit, issued>>
          \/ \E f \in Desks :
                /\ \A g \in Desks : p \notin issued[g]
                /\ tck[p].facultytype \notin Desks
                /\ limit[f] > 0 /\ limit' = [limit EXCEPT ![f] = @ - 1]
                /\ issued' = [issued EXCEPT ![f] = @ \cup {p}]
                /\ u.requester = p /\ u.facultytype = f
                /\ u.payment = wtck[w].payment
      BY ONLY <3>1, <3>2, <3>3, ServeFits
    <3> QED BY <3>4 DEF t
  <2>5. CASE Fits(u) /\ UNCHANGED <<limit, issued>>
    BY <1>b, <2>0, <2>3, <2>5
  <2>6. ASSUME NEW f \in Desks,
               \A g \in Desks : p \notin issued[g],
               tck[p].facultytype \notin Desks,
               limit[f] > 0, limit' = [limit EXCEPT ![f] = @ - 1],
               issued' = [issued EXCEPT ![f] = @ \cup {p}],
               u.requester = p, u.facultytype = f, u.payment = t.payment
        PROVE  PapersOK' /\ LimitsHonoured'
    <3>0. f \in Faculties /\ p \in Petents
      BY <1>m, <2>0, <2>p DEF Faculties, Holding, Sound
    <3>1. LimitsHonoured'
      BY <1>t, <2>0, <2>6, <3>0, CountedOnce
    <3>2. x \in Spots /\ p \in Carried(x)
      BY <1>t, <2>0, <2>p, Carriers DEF Working
    <3>3. /\ FitPetents'
          /\ \A v : Fits(v) /\ v.requester # p => Fits(v)'
          /\ \A k \in Underway : \A v \in Letter(k) : v.requester # p
          /\ \A n \in Machines : mpc[n] \in Asked => mtck[n].requester # p
          /\ \A v \in Workers \ {w} : wpc[v] \in Working => Paper(v).requester # p
      <4>1. /\ \A k : <<"queue", k>> # x
            /\ \A n : <<"machine", n>> # x
            /\ \A v : v # w => <<"clerk", v>> # x
        OBVIOUS
      <4>2. PICK y \in Spots : y = x
        BY <3>2
      <4>3. PICK r \in Carried(y) : r = p
        BY <3>2, <4>2
      <4>4. issued' = [issued EXCEPT ![f] = @ \cup {r}]
        BY <2>6, <4>3
      <4> HIDE DEF x
      <4> QED BY <1>f, <3>0, <4>1, <4>2, <4>3, <4>4, CountedPapers
    <3>4. FitLetters'
      <4>1. \A k \in Underway : Letter(k)' = Letter(k)
        BY <2>0 DEF Letter
      <4> QED BY <1>t, <3>3, <4>1 DEF FitLetters
    <3>5. FitMachines'
      BY <1>f, <1>t, <3>3 DEF FitMachines
    <3>6. FitClerks'
      <4> SUFFICES ASSUME NEW v \in Workers, NEW r, r = Paper(v)',
                          wpc'[v] \in Working
                   PROVE  Fits(r)'
        BY DEF FitClerks
      <4>1. CASE v # w
        BY <1>n, <1>t, <1>u, <3>3, <4>1 DEF FitClerks
      <4>2. CASE v = w
        <5>1. r.requester = p /\ r.facultytype = f /\ r.payment = t.payment
          BY <2>3, <2>6, <4>2
        <5>2. ASSUME NEW g \in Desks, p \in issued'[g] PROVE g = f
          BY <1>m, <2>6, <3>0, <5>2 DEF Faculties
        <5>3. Keeps(r, tck[p])
          BY <2>1, <2>6, <2>p, <5>1 DEF Fits, Keeps
        <5>4. Keeps(r, tck'[p])
          BY <1>f, <5>3
        <5>5. Within(p, f)'
          BY <5>2 DEF Within
        <5> QED BY <5>1, <5>4, <5>5 DEF Fits, Within
      <4> QED BY <4>1, <4>2
    <3>7. NotYet'
      <4> SUFFICES ASSUME NEW g \in Faculties, NEW q \in issued'[g]
                   PROVE  /\ pc[q] \notin Early \cup AskForOne
                          /\ q \notin Queued(D_MSG_TICKET)'
                          /\ \A n \in Machines : mpc[n] = "serve" =>
                                                   mtck[n].requester # q
        BY <1>f DEF NotYet
      <4>0. Queued(D_MSG_TICKET)' = Queued(D_MSG_TICKET)
        BY <2>0 DEF Queued
      <4>1. CASE q = p
        <5>1. pc[p] \notin Early \cup AskForOne
          BY <1>t, <3>2 DEF Owned, Waiting, Parting, Early, AskForOne
        <5>2. p \notin Queued(D_MSG_TICKET)
          BY <3>3, TicketTypeIn DEF Queued, Letter
        <5> QED BY <3>3, <4>0, <4>1, <5>1, <5>2 DEF Asked
      <4>2. CASE q # p
        <5>1. q \in issued[g]
          BY <1>m, <2>6, <4>2
        <5> QED BY <1>t, <4>0, <5>1 DEF NotYet
      <4> QED BY <4>1, <4>2
    <3> QED BY <3>1, <3>3, <3>4, <3>5, <3>6, <3>7 DEF PapersOK
  <2> QED BY <2>4, <2>5, <2>6
\* What the clerk has in hand, while it has something.
<1>p. /\ wpc[w] \in {"number", "reply"} => Fits(wout[w])
      /\ wpc[w] \in {"drainReport", "drainReply"} => Fits(wtck[w])
  BY <1>t DEF FitClerks, Paper, Working
<1>6. CASE WorkerNumber(w)
  <2> DEFINE u == [wout[w] EXCEPT !.ticketid = 1]
  <2>1. /\ wpc[w] = "number" /\ wpc'[w] = "reply" /\ wout'[w] = u
        /\ UNCHANGED <<msgs, issued, limit, saLimit>>
    BY <1>6, <1>m DEF WorkerNumber, WGoto
  <2>2. /\ u.requester = wout[w].requester /\ u.payment = wout[w].payment
        /\ u.facultytype = wout[w].facultytype
    BY <1>m DEF Tickets
  <2>3. Paper(w)' = u
    BY <2>1 DEF Paper
  <2> HIDE DEF u
  <2>4. Fits(u)
    BY <1>p, <2>1, <2>2, FitsAlike
  <2> QED BY <1>b, <2>1, <2>3, <2>4
<1>7. CASE WorkerReply(w)
  <2>1. /\ wpc[w] = "reply" /\ wpc'[w] \notin Working
        /\ UNCHANGED <<issued, limit, saLimit>>
        /\ Send(wout[w].requester, wout[w])
    BY <1>7, <1>m DEF WorkerReply, WGoto, AfterReply, Working
  <2>2. PICK p \in Petents : p = wout[w].requester
    BY <1>m, <1>t, <2>1 DEF Holding, Sound, WorkerRouted
  <2>3. PICK u \in Tickets : u = wout[w]
    BY <1>m
  <2>4. Send(p, u) /\ Fits(u)
    BY <1>p, <2>1, <2>2, <2>3
  <2> QED BY <1>d, <2>1, <2>4
<1>8. CASE WorkerReport(w)
  <2>1. Refusal(w) \in Tickets
    <3>1. WorkerType[w] \in Faculties \cup {CASHIER_POINT}
      BY TypeRange
    <3>2. wtck[w] \in Tickets /\ wout[w] \in Tickets
      BY <1>m
    <3> QED BY <3>1, <3>2 DEF Refusal, Tickets
  <2>2. PICK u \in Tickets : Send(D_MSG_REJECTED, u)
    BY <1>8, <2>1 DEF WorkerReport
  <2>3. wpc'[w] \notin Working /\ UNCHANGED <<issued, limit, saLimit>>
    BY <1>8, <1>m DEF WorkerReport, WGoto, Working
  <2> QED BY <1>d, <2>2, <2>3 DEF Underway
<1>9. CASE WorkerLockCheck(w)
  BY <1>9, <1>c DEF WorkerLockCheck, Working
<1>10. CASE WorkerDrainReport(w)
  <2> DEFINE v == [wtck[w] EXCEPT !.queueid = WorkerType[w]]
  <2>1. v \in Tickets
    <3>1. WorkerType[w] \in Faculties \cup {CASHIER_POINT}
      BY TypeRange
    <3>2. wtck[w] \in Tickets
      BY <1>m
    <3> QED BY <3>1, <3>2 DEF Tickets
  <2>2. PICK u \in Tickets : Send(D_MSG_REJECTED, u)
    BY <1>10, <2>1 DEF WorkerDrainReport
  <2>3. /\ wpc[w] = "drainReport" /\ wpc'[w] = "drainReply"
        /\ wtck' = wtck /\ UNCHANGED <<issued, limit, saLimit>>
    BY <1>10, <1>m DEF WorkerDrainReport, WGoto
  <2>4. PICK t : t = wtck[w]
    OBVIOUS
  <2>5. Paper(w)' = t /\ Fits(t)
    BY <1>p, <2>3, <2>4 DEF Paper
  <2> QED BY <1>d, <2>2, <2>3, <2>5 DEF Underway
<1>11. CASE WorkerDrainReply(w)
  <2> DEFINE v == [wtck[w] EXCEPT !.ticketid = -1, !.queueid = -1]
  <2>0. wpc[w] = "drainReply" /\ wtck[w] \in Tickets
    BY <1>11, <1>m DEF WorkerDrainReply
  <2>1. /\ v \in Tickets /\ v.requester = wtck[w].requester
        /\ v.payment = wtck[w].payment /\ v.facultytype = wtck[w].facultytype
    BY <2>0 DEF Tickets
  <2>2. PICK p \in Petents : p = wtck[w].requester
    BY <1>m, <2>0 DEF Holding, Sound
  <2>3. Send(p, v)
    BY <1>11, <2>2 DEF WorkerDrainReply
  <2> HIDE DEF v
  <2>4. Fits(v)
    BY <1>p, <2>0, <2>1, FitsAlike
  <2>5. PICK u \in Tickets : u = v
    BY <2>1
  <2>6. wpc'[w] \notin Working /\ UNCHANGED <<issued, limit, saLimit>>
    BY <1>11, <1>m DEF WorkerDrainReply, WGoto, DrainLoop, Working
  <2> QED BY <1>d, <2>3, <2>4, <2>5, <2>6
<1> QED
  BY <1>1, <1>2, <1>3, <1>4, <1>5, <1>6, <1>7, <1>8, <1>9, <1>10, <1>11
     DEF WorkerStep

-------------------------------------------------------------------------------
\* A signal writes on no ticket; whom it drives away asks for nothing any more.
LEMMA DirectorPapers ==
  ASSUME DirectorStep, PapersInv
  PROVE  PapersOK' /\ LimitsHonoured'
<1>t. /\ FitLetters /\ FitMachines /\ FitClerks /\ FitPetents /\ NotYet
      /\ LimitsHonoured /\ TypeInv
  BY DEF PapersInv, PapersOK, FlowInv, RouteInv
<1>m. /\ pc \in [Petents -> PetentLabels] /\ wpc \in [Workers -> WorkerLabels]
      /\ petent_pids \in [1..PidsLimit -> Petents \cup {NoPid}]
      /\ issued \in [Faculties -> SUBSET Petents]
  BY <1>t DEF TypeInv, CapacityInv, ShutInv, SharedOK
<1>f. UNCHANGED <<msgs, tck, mpc, mtck, wtck, wout, issued, limit, saLimit>>
  BY DirectorFrame DEF machineVars
<1> DEFINE Away(q) == /\ pc'[q] \in Early => pc[q] \in Early
                      /\ pc'[q] \in AskForOne => pc[q] \in AskForOne
                      /\ pc'[q] \in AtQueue => pc[q] \in AtQueue
           Hands(w) == wpc'[w] \in Working =>
                         wpc[w] \in Working /\ Paper(w)' = Paper(w)
<1>p. ASSUME UNCHANGED pc PROVE \A q \in Petents : Away(q)
  BY <1>p
<1>w. ASSUME UNCHANGED wpc PROVE \A w \in Workers : Hands(w)
  BY <1>w, <1>f DEF Paper
<1>1. ASSUME NEW next, ScanPids(next) PROVE \A q \in Petents : Away(q)
  <2>1. ASSUME NEW p \in Petents, Blocked(p), Goto(p, OnInterrupt(pc[p]))
        PROVE  \A q \in Petents : Away(q)
    <3>1. OnInterrupt(pc[p]) \notin Early \cup AskForOne \cup AtQueue
      BY <2>1 DEF Blocked, OnInterrupt, Early, AskForOne, AtQueue
    <3>2. /\ pc'[p] = OnInterrupt(pc[p])
          /\ \A q \in Petents \ {p} : pc'[q] = pc[q]
      BY <2>1, <1>m DEF Goto
    <3> QED BY <3>1, <3>2
  <2>2. \/ UNCHANGED pc
        \/ \E p \in Petents : Blocked(p) /\ Goto(p, OnInterrupt(pc[p]))
    BY <1>1, <1>m DEF ScanPids, Signal2
  <2> QED BY <1>p, <2>1, <2>2
<1>2. ASSUME NEW S, Signal1(S) PROVE \A w \in Workers : Hands(w)
  <2> SUFFICES ASSUME NEW w \in Workers PROVE Hands(w)
    OBVIOUS
  <2>1. wpc'[w] \in {wpc[w], AfterFailure(w)}
    BY <1>2 DEF Signal1
  <2>2. \/ AfterFailure(w) = wpc[w]
        \/ AfterFailure(w) \notin Working
        \/ wpc[w] = "drainReport" /\ AfterFailure(w) = "drainReply"
    BY DEF AfterFailure, AfterReply, DrainLoop, Working
  <2>3. CASE wpc'[w] = wpc[w]
    BY <1>f, <2>3 DEF Paper
  <2>4. CASE wpc[w] = "drainReport" /\ wpc'[w] = "drainReply"
    BY <1>f, <2>4 DEF Paper, Working
  <2> QED BY <2>1, <2>2, <2>3, <2>4
<1>3. (\A q \in Petents : Away(q)) /\ \A w \in Workers : Hands(w)
  <2>1. CASE SendSignal1
    BY <2>1, <1>2, <1>p DEF SendSignal1
  <2>2. CASE Evacuate \/ KillRemaining
    BY <2>2, <1>1, <1>w DEF Evacuate, KillRemaining
  <2>3. SendSignal1 \/ Evacuate \/ KillRemaining \/ UNCHANGED <<pc, wpc>>
    BY DEF DirectorStep, Configure, OpenOffice, SetOpened, SetBuilding, TimeUp,
       Event1, Event2, CloseOpened, CloseFlag, CloseBuilding, WriteReport,
       StopThread, JoinThread, unsignalled
  <2> QED BY <1>p, <1>w, <2>1, <2>2, <2>3
<1>4. \A u : Fits(u) => Fits(u)'
  BY <1>f, FitsStays
<1>5. FitLetters' /\ FitMachines'
  BY <1>f, <1>t, <1>4 DEF FitLetters, FitMachines, Letter
<1>6. FitClerks'
  <2> SUFFICES ASSUME NEW w \in Workers, NEW u, u = Paper(w)', wpc'[w] \in Working
               PROVE  Fits(u)'
    BY DEF FitClerks
  <2>1. wpc[w] \in Working /\ u = Paper(w)
    BY <1>3
  <2> QED BY <1>t, <1>4, <2>1 DEF FitClerks
<1>7. FitPetents'
  BY <1>3, <1>f, <1>t DEF FitPetents, Within
<1>8. NotYet'
  <2>1. Queued(D_MSG_TICKET)' = Queued(D_MSG_TICKET)
    BY <1>f DEF Queued
  <2> QED BY <1>3, <1>f, <1>m, <1>t, <2>1, NotYetStays
<1>9. LimitsHonoured'
  BY <1>f, <1>t DEF LimitsHonoured, SaIssued
<1> QED BY <1>5, <1>6, <1>7, <1>8, <1>9 DEF PapersOK

LEMMA PapersInit == Init => PapersInv
<1> SUFFICES ASSUME Init PROVE PapersInv
  OBVIOUS
<1>1. FitLetters
  BY DEF Init, FitLetters, Letter, Underway
<1>2. FitMachines /\ FitClerks /\ FitPetents
  BY DEF Init, FitMachines, FitClerks, FitPetents, Asked, Working, AtQueue
<1>3. \A f \in Faculties : issued[f] = {}
  BY DEF Init
<1>4. NotYet
  BY <1>3 DEF NotYet
<1>5. LimitsHonoured
  <2>1. /\ LimitInit \in [Desks -> Nat] /\ SaLimitInit \in [1..2 -> Nat]
        /\ limit = LimitInit /\ saLimit = SaLimitInit
    BY NumbersAssumption DEF Init
  <2>2. \A f \in Desks : LimitInit[f] - limit[f] = 0
    BY <2>1
  <2>3. SaIssued = 0
    BY <2>1 DEF SaIssued
  <2>4. \A f \in Faculties : Cardinality(issued[f]) = 0
    BY <1>3, FS_EmptySet
  <2> QED BY <2>2, <2>3, <2>4 DEF LimitsHonoured, Faculties
<1> QED BY FlowInit, <1>1, <1>2, <1>4, <1>5 DEF PapersInv, PapersOK

LEMMA PapersStep == PapersInv /\ [Next]_vars => PapersInv'
<1> SUFFICES ASSUME PapersInv, [Next]_vars PROVE PapersInv'
  OBVIOUS
<1>0. FlowInv /\ FlowInv' /\ MsgsOK /\ PapersOK
  BY FlowStep DEF PapersInv, FlowInv, RouteInv, TypeInv
<1> SUFFICES PapersOK' /\ LimitsHonoured'
  BY <1>0 DEF PapersInv
\* A step that touches no letter but the director's, and nobody's hands.
<1>a. ASSUME \A k \in Underway : msgs'[k] = msgs[k],
             UNCHANGED <<petentVars, machineVars, workerVars, limitVars, issued>>
      PROVE  PapersOK' /\ LimitsHonoured'
  <2>1. /\ LimitsHonoured' /\ FitPetents' /\ \A u : Fits(u) => Fits(u)'
    BY <1>a, NothingCounted DEF petentVars, limitVars
  <2>2. \A k \in Underway : Letter(k)' = Letter(k) /\ Queued(k)' = Queued(k)
    BY <1>a DEF Letter, Queued
  <2>3. FitLetters'
    BY <1>0, <2>1, <2>2 DEF PapersOK, FitLetters
  <2>4. FitMachines'
    BY <1>0, <1>a, <2>1 DEF PapersOK, FitMachines, machineVars
  <2>5. FitClerks'
    <3>1. \A w \in Workers : Paper(w)' = Paper(w) /\ wpc'[w] = wpc[w]
      BY <1>a DEF Paper, workerVars
    <3> QED BY <1>0, <2>1, <3>1 DEF PapersOK, FitClerks
  <2>6. NotYet'
    BY <1>0, <1>a, <2>2, TicketTypeIn
       DEF PapersOK, NotYet, petentVars, machineVars
  <2> QED BY <2>1, <2>3, <2>4, <2>5, <2>6 DEF PapersOK
<1>1. CASE \E p \in Petents : PetentStep(p)
  BY <1>1, PetentPapers
<1>2. CASE \E m \in Machines : MachineStep(m)
  BY <1>2, MachinePapers
<1>3. CASE \E w \in Workers : WorkerStep(w)
  BY <1>3, WorkerPapers
<1>4. CASE DirectorStep
  BY <1>4, DirectorPapers
<1>5. CASE ThreadStep
  <2>1. \A k \in Underway : msgs'[k] = msgs[k]
    BY <1>5, <1>0 DEF ThreadStep, ThreadReceive, ThreadStop, Receive, MsgsOK,
       Underway
  <2> QED BY <1>5, <2>1, <1>a, ThreadFrame DEF semVars, history
<1>6. CASE RemoveIpc \/ UNCHANGED vars
  BY <1>6, <1>a DEF RemoveIpc, vars, semVars, history
<1> QED BY <1>1, <1>2, <1>3, <1>4, <1>5, <1>6 DEF Next, Rest

-------------------------------------------------------------------------------
\* A ticket or a redirection is taken off the right daily limit once for each
\* petent and in no other case, for any number of machines and SA clerks that
\* race for it: what is gone from the limit is the number of those petents.
THEOREM Limits == Spec => []LimitsHonoured
<1>1. PapersInv => LimitsHonoured
  BY DEF PapersInv
<1> QED BY PapersInit, PapersStep, <1>1, PTL DEF Spec

\* What a petent puts in the place of its ticket keeps the payment and the desk.
LEMMA TicketKept ==
  ASSUME PapersInv, [Next]_vars, NEW p \in Petents
  PROVE  Keeps(tck'[p], tck[p])
<1>t. RouteInv /\ MsgsOK /\ FitLetters /\ FitPetents
      /\ tck \in [Petents -> Tickets]
  BY DEF PapersInv, PapersOK, FlowInv, RouteInv, TypeInv, PetentsOK
<1>0. UNCHANGED tck => Keeps(tck'[p], tck[p])
  BY DEF Keeps
<1>1. ASSUME NEW q \in Petents, PetentStep(q) PROVE Keeps(tck'[p], tck[p])
  <2>1. CASE pc[q] = "entered" /\ tck' = [tck EXCEPT ![q] = NewTicket(q)]
    <3>1. tck[q] = NoTicket
      BY <1>t, <2>1 DEF FitPetents, Early
    <3>2. Keeps(NewTicket(q), NoTicket)
      BY SetsAssumption
         DEF Keeps, NoTicket, PAYMENT_SUCCESS, PAYMENT_NOT_NEEDED
    <3> QED BY <1>t, <2>1, <3>1, <3>2 DEF Keeps
  <2>2. CASE Receive(q) /\ tck' = [tck EXCEPT ![q] = Head(msgs[q])]
    <3>0. q \in MsgTypes /\ q \in Underway
      BY <1>t, OwnQueue, PetentTypesIn
    <3>1. Head(msgs[q]) \in Letter(q)
      BY <1>t, <2>2, <3>0, ReceiveLetter
    <3>2. /\ Fits(Head(msgs[q]))
          /\ Head(msgs[q]).requester \in Queued(q)
      BY <1>t, <3>0, <3>1 DEF FitLetters, Letter, Queued
    <3>3. Head(msgs[q]).requester = q
      BY <1>t, <3>2, OwnQueue
    <3> QED BY <1>t, <2>2, <3>2, <3>3 DEF Fits, Keeps
  <2> QED BY <1>0, <1>1, <1>t, <2>1, <2>2, PetentMail
<1>2. (\E q \in Petents : PetentStep(q)) \/ UNCHANGED tck
  BY MachineFrame, WorkerFrame, DirectorFrame, ThreadFrame
     DEF Next, Rest, RemoveIpc, vars, petentVars
<1> QED BY <1>0, <1>1, <1>2

\* A petent that has paid is never asked to pay again.
THEOREM Paid == Spec => PaidOnce
<1>1. PapersInv /\ [Next]_vars =>
        [\A p \in Petents : tck[p].payment = PAYMENT_SUCCESS =>
                              tck'[p].payment = PAYMENT_SUCCESS]_vars
  BY TicketKept DEF Keeps
<1> QED BY PapersInit, PapersStep, <1>1, PTL DEF Spec, PaidOnce

\* A petent once sent to a desk is done there or stays with it: nobody sends
\* it back to SA, to another desk, or to a clerk it has been sent on from.
THEOREM Onwards == Spec => NeverSentBack
<1>1. PapersInv /\ [Next]_vars =>
        [\A p \in Petents :
           (tck[p].facultytype \in Desks /\ tck'[p].facultytype # 0) =>
             tck'[p].facultytype = tck[p].facultytype]_vars
  BY TicketKept DEF Keeps
<1> QED BY PapersInit, PapersStep, <1>1, PTL DEF Spec, NeverSentBack
===============================================================================
