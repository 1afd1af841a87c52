----------------------------- MODULE UrzadTickets -----------------------------
(***************************************************************************)
(* Every petent has at most one ticket on its way, wherever it is, for any *)
(* number of processes; and what follows from it: a petent that waits has  *)
(* one, nobody works on a ticket that was settled elsewhere, and whoever   *)
(* is refused is made known to the director.                               *)
(***************************************************************************)
EXTENDS UrzadTypes

\* The places where a copy of a ticket can be.
Spots == ({"queue"} \X Underway) \cup ({"machine"} \X Machines)
           \cup ({"clerk"} \X Workers)

\* The petents whose tickets are there.
Queued(k)    == {msgs[k][i].requester : i \in 1..Len(msgs[k])}
AtMachine(m) == IF mpc[m] \in Asked THEN {mtck[m].requester} ELSE {}
AtClerk(w)   == IF wpc[w] \in Working THEN {wtck[w].requester} ELSE {}
Carried(x)   == IF x[1] = "queue" THEN Queued(x[2])
                ELSE IF x[1] = "machine" THEN AtMachine(x[2])
                ELSE AtClerk(x[2])

Single(k) ==
  \A i, j \in 1..Len(msgs[k]) : msgs[k][i].requester = msgs[k][j].requester
                                  => i = j

AllSingle == \A k \in Underway : Single(k)
Apart     == \A x, y \in Spots : x # y => Carried(x) \cap Carried(y) = {}

\* Labels from which a petent does not write to anyone any more.
Parting == {"leaveTickets", "giveTickets", "freeTickets",
            "leaveQueue", "giveQueue", "freeQueue", "gone"}

\* Whose ticket is on its way waits for it, unless signal 2 took it away.
Owned ==
  \A x \in Spots : \A p \in Carried(x) :
    /\ p \in Petents
    /\ Waiting(p) \/ pc[p] \in Parting
    /\ ~sig2[p] /\ ~ipcRemoved => Waiting(p)

\* Who waits has a ticket on its way, unless signal 1 lost it.
Answered ==
  ~ipcRemoved /\ ~ignoredEintr =>
    \A p \in Petents : Waiting(p) => \E x \in Spots : p \in Carried(x)

FlowInv == RouteInv /\ AllSingle /\ Apart /\ Owned /\ Answered

-------------------------------------------------------------------------------
LEMMA SpotCases ==
  ASSUME NEW z \in Spots
  PROVE  \/ \E k \in Underway : /\ z = <<"queue", k>>
                                /\ Carried(z) = Queued(k)
                                /\ Carried(z)' = Queued(k)'
         \/ \E m \in Machines : /\ z = <<"machine", m>>
                                /\ Carried(z) = AtMachine(m)
                                /\ Carried(z)' = AtMachine(m)'
         \/ \E w \in Workers : /\ z = <<"clerk", w>>
                               /\ Carried(z) = AtClerk(w)
                               /\ Carried(z)' = AtClerk(w)'
BY DEF Spots, Carried

LEMMA SpotsOf ==
  /\ \A k \in Underway : /\ <<"queue", k>> \in Spots
                         /\ Carried(<<"queue", k>>) = Queued(k)
                         /\ Carried(<<"queue", k>>)' = Queued(k)'
  /\ \A m \in Machines : /\ <<"machine", m>> \in Spots
                         /\ Carried(<<"machine", m>>) = AtMachine(m)
                         /\ Carried(<<"machine", m>>)' = AtMachine(m)'
  /\ \A w \in Workers : /\ <<"clerk", w>> \in Spots
                        /\ Carried(<<"clerk", w>>) = AtClerk(w)
                        /\ Carried(<<"clerk", w>>)' = AtClerk(w)'
BY DEF Spots, Carried

\* What a step does to the tickets under way: nothing, one more, one less, or
\* one goes from x to y.
Kept        == \A z \in Spots : Carried(z)' = Carried(z)
Added(p, y) ==
  /\ y \in Spots /\ \A z \in Spots : p \notin Carried(z)
  /\ Carried(y)' = Carried(y) \cup {p}
  /\ \A z \in Spots \ {y} : Carried(z)' = Carried(z)
Removed(p, x) ==
  /\ x \in Spots /\ p \in Carried(x)
  /\ Carried(x)' = Carried(x) \ {p}
  /\ \A z \in Spots \ {x} : Carried(z)' = Carried(z)
Moved(p, x, y) ==
  /\ x \in Spots /\ y \in Spots /\ x # y /\ p \in Carried(x)
  /\ Carried(x)' = Carried(x) \ {p}
  /\ Carried(y)' = Carried(y) \cup {p}
  /\ \A z \in Spots \ {x, y} : Carried(z)' = Carried(z)

LEMMA StaysApart ==
  ASSUME Apart
  PROVE  /\ Kept => Apart'
         /\ \A p, y : Added(p, y) => Apart'
         /\ \A p, x : Removed(p, x) => Apart'
         /\ \A p, x, y : Moved(p, x, y) => Apart'
<1>1. Kept => Apart'
  BY DEF Kept, Apart
<1>2. ASSUME NEW p, NEW y, Added(p, y) PROVE Apart'
  BY <1>2 DEF Added, Apart
<1>3. ASSUME NEW p, NEW x, Removed(p, x) PROVE Apart'
  BY <1>3 DEF Removed, Apart
<1>4. ASSUME NEW p, NEW x, NEW y, Moved(p, x, y) PROVE Apart'
  <2>1. \A z \in Spots \ {x} : p \notin Carried(z)
    BY <1>4 DEF Moved, Apart
  <2>2. \A z \in Spots : Carried(z)' \subseteq Carried(z) \cup {p}
    BY <1>4 DEF Moved
  <2>3. \A z \in Spots \ {y} : p \notin Carried(z)'
    BY <1>4, <2>1 DEF Moved
  <2> SUFFICES ASSUME NEW a \in Spots, NEW b \in Spots, a # b, NEW q,
                      q \in Carried(a)', q \in Carried(b)'
               PROVE  FALSE
    BY DEF Apart
  <2>4. q # p
    BY <2>3
  <2> QED BY <2>2, <2>4 DEF Apart
<1> QED BY <1>1, <1>2, <1>3, <1>4

\* A ticket that moves is still under way, and no other one is.
LEMMA MovedCarried ==
  ASSUME NEW p, NEW x, NEW y, Moved(p, x, y), NEW q
  PROVE  (\E z \in Spots : q \in Carried(z)') <=> \E z \in Spots : q \in Carried(z)
BY DEF Moved

-------------------------------------------------------------------------------
\* One message more, one message less.
LEMMA SendQueued ==
  ASSUME NEW k \in MsgTypes, NEW t \in Tickets, Send(k, t), MsgsOK
  PROVE  /\ Queued(k)' = Queued(k) \cup {t.requester}
         /\ \A j \in MsgTypes \ {k} : msgs'[j] = msgs[j]
         /\ \A j \in MsgTypes \ {k} : Queued(j)' = Queued(j)
         /\ \A j \in MsgTypes \ {k} : Single(j) => Single(j)'
         /\ Single(k) /\ t.requester \notin Queued(k) => Single(k)'
<1>1. /\ msgs' = [msgs EXCEPT ![k] = Append(@, t)]
      /\ \A j \in MsgTypes : msgs[j] \in Seq(Tickets)
  BY MsgsTyped DEF Send
<1>2. \A j \in MsgTypes \ {k} : msgs'[j] = msgs[j]
  BY <1>1 DEF MsgsOK
<1>3. \A j \in MsgTypes \ {k} : Queued(j)' = Queued(j)
  BY <1>2 DEF Queued
<1>4. \A j \in MsgTypes \ {k} : Single(j) => Single(j)'
  BY <1>2 DEF Single
<1> DEFINE s == msgs[k]
           n == Len(s)
<1>5. msgs'[k] = Append(s, t) /\ s \in Seq(Tickets) /\ n \in Nat
  BY <1>1 DEF MsgsOK
<1>6. /\ Len(msgs'[k]) = n + 1 /\ msgs'[k][n + 1] = t
      /\ \A i \in 1..n : msgs'[k][i] = s[i]
  BY <1>5
<1>7. 1..(n + 1) = (1..n) \cup {n + 1}
  BY <1>5
<1>8. Queued(k)' = Queued(k) \cup {t.requester}
  BY <1>6, <1>7 DEF Queued
<1>9. ASSUME Single(k), t.requester \notin Queued(k) PROVE Single(k)'
  <2>1. \A i \in 1..n : s[i].requester # t.requester
    BY <1>9 DEF Queued
  <2> SUFFICES ASSUME NEW i \in 1..(n + 1), NEW j \in 1..(n + 1),
                      msgs'[k][i].requester = msgs'[k][j].requester
               PROVE  i = j
    BY <1>6 DEF Single
  <2>2. CASE i = n + 1 /\ j = n + 1
    BY <2>2
  <2>3. CASE i = n + 1 /\ j \in 1..n
    BY <1>6, <2>1, <2>3
  <2>4. CASE i \in 1..n /\ j = n + 1
    BY <1>6, <2>1, <2>4
  <2>5. CASE i \in 1..n /\ j \in 1..n
    BY <1>6, <1>9, <2>5 DEF Single
  <2> QED BY <1>7, <2>2, <2>3, <2>4, <2>5
<1> QED BY <1>2, <1>3, <1>4, <1>8, <1>9

LEMMA ReceiveQueued ==
  ASSUME NEW k \in MsgTypes, Receive(k), MsgsOK
  PROVE  /\ Head(msgs[k]).requester \in Queued(k)
         /\ Queued(k) \ {Head(msgs[k]).requester} \subseteq Queued(k)'
         /\ Single(k) => /\ Queued(k)' = Queued(k) \ {Head(msgs[k]).requester}
                         /\ Single(k)'
         /\ \A j \in MsgTypes \ {k} : msgs'[j] = msgs[j]
         /\ \A j \in MsgTypes \ {k} : Queued(j)' = Queued(j)
         /\ \A j \in MsgTypes \ {k} : Single(j) => Single(j)'
<1>1. /\ msgs' = [msgs EXCEPT ![k] = Tail(@)] /\ msgs[k] # <<>>
      /\ \A j \in MsgTypes : msgs[j] \in Seq(Tickets)
  BY MsgsTyped DEF Receive, Pending
<1>2. \A j \in MsgTypes \ {k} : msgs'[j] = msgs[j]
  BY <1>1 DEF MsgsOK
<1>3. \A j \in MsgTypes \ {k} : Queued(j)' = Queued(j)
  BY <1>2 DEF Queued
<1>4. \A j \in MsgTypes \ {k} : Single(j) => Single(j)'
  BY <1>2 DEF Single
<1> DEFINE s == msgs[k]
           n == Len(s)
           h == Head(s)
<1>5. msgs'[k] = Tail(s) /\ s \in Seq(Tickets) /\ s # <<>>
  BY <1>1 DEF MsgsOK
<1>6. n \in Nat \ {0} /\ h = s[1]
  BY <1>5
<1>7. /\ Len(msgs'[k]) = n - 1
      /\ \A i \in 1..(n - 1) : msgs'[k][i] = s[i + 1]
  BY <1>5
<1>8. h.requester \in Queued(k)
  BY <1>6 DEF Queued
<1>a. ASSUME NEW q \in Queued(k) \ {h.requester} PROVE q \in Queued(k)'
  <2>1. PICK i \in 1..n : q = s[i].requester
    BY <1>a DEF Queued
  <2>2. i # 1
    BY <1>6, <1>a, <2>1
  <2>3. i - 1 \in 1..(n - 1) /\ msgs'[k][i - 1] = s[i]
    BY <1>6, <1>7, <2>2
  <2> QED BY <1>7, <2>1, <2>3 DEF Queued
<1>9. ASSUME Single(k) PROVE Queued(k)' = Queued(k) \ {h.requester}
  <2> SUFFICES ASSUME NEW q \in Queued(k)' PROVE q \in Queued(k) \ {h.requester}
    BY <1>a
  <2>1. PICK i \in 1..(n - 1) : q = s[i + 1].requester
    BY <1>7 DEF Queued
  <2>2. i + 1 \in 1..n /\ i + 1 # 1 /\ 1 \in 1..n
    BY <1>6
  <2> QED BY <1>6, <1>9, <2>1, <2>2 DEF Queued, Single
<1>10. ASSUME Single(k) PROVE Single(k)'
  <2> SUFFICES ASSUME NEW i \in 1..(n - 1), NEW j \in 1..(n - 1),
                      s[i + 1].requester = s[j + 1].requester
               PROVE  i = j
    BY <1>7 DEF Single
  <2>1. i + 1 \in 1..n /\ j + 1 \in 1..n
    BY <1>6
  <2>2. i + 1 = j + 1
    BY <2>1, <1>10 DEF Single
  <2> QED BY <2>2
<1> QED BY <1>2, <1>3, <1>4, <1>8, <1>a, <1>9, <1>10

\* What lies in the queue of a petent's pid is its own.
LEMMA OwnQueue ==
  ASSUME NEW p \in Petents, RouteInv
  PROVE  Queued(p) \subseteq {p} /\ p \in Underway
<1>1. p \in MsgTypes /\ p \notin Int
  BY PetentTypesIn, SetsAssumption
<1>2. \A i \in 1..Len(msgs[p]) : msgs[p][i].requester = p
  BY <1>1 DEF RouteInv, LettersRouted, LetterOK
<1> QED BY <1>1, <1>2 DEF Queued, Underway, D_MSG_REJECTED

LEMMA RequestsUnderway == RequestTypes \subseteq Underway
BY RequestTypesIn, RejectedNoRequest DEF Underway

-------------------------------------------------------------------------------
\* Nothing at all happens to the tickets under way.
LEMMA KeptWhole ==
  ASSUME \A k \in Underway : Queued(k)' = Queued(k),
         \A m \in Machines : AtMachine(m)' = AtMachine(m),
         \A w \in Workers : AtClerk(w)' = AtClerk(w)
  PROVE  Kept
BY SpotCases DEF Kept

\* A machine takes a request, answers it, or leaves every ticket where it is.
LEMMA MachineFlow ==
  ASSUME NEW m \in Machines, MachineStep(m), RouteInv, AllSingle, Apart
  PROVE  /\ AllSingle'
         /\ Kept \/ \E p, x, y : Moved(p, x, y)
<1>t. TypeInv /\ MsgsOK
  BY DEF RouteInv, TypeInv
<1>m. mpc \in [Machines -> MachineLabels] /\ mtck \in [Machines -> Tickets]
  BY <1>t DEF TypeInv, LockInv, MachinesOK
<1>w. \A w \in Workers : AtClerk(w)' = AtClerk(w)
  BY MachineFrame DEF workerVars, AtClerk
<1>n. \A n \in Machines \ {m} : mpc'[n] = mpc[n] /\ mtck'[n] = mtck[n]
  BY <1>m DEF MachineStep, MachineLockOpened, MachineUnlockOpened, MachineCheck,
     MachinePoll, MachineServe, MachineReply, MachineReport, MachineLockCheck,
     MGoto
<1>o. \A n \in Machines \ {m} : AtMachine(n)' = AtMachine(n)
  BY <1>n DEF AtMachine
<1>a. ASSUME UNCHANGED msgs, AtMachine(m)' = AtMachine(m) PROVE AllSingle' /\ Kept
  <2>1. \A k \in Underway : Queued(k)' = Queued(k)
    BY <1>a DEF Queued
  <2>2. AllSingle'
    BY <1>a DEF AllSingle, Single
  <2>3. \A n \in Machines : AtMachine(n)' = AtMachine(n)
    BY <1>a, <1>o
  <2> QED BY <2>1, <2>2, <2>3, <1>w, KeptWhole
<1>b. ASSUME UNCHANGED <<msgs, mtck>>, NEW l, MGoto(m, l),
             l \in Asked <=> mpc[m] \in Asked
      PROVE  AllSingle' /\ Kept
  BY <1>a, <1>b, <1>m DEF AtMachine, MGoto
\* The machine has sent u, its answer, to p.
<1>c. ASSUME NEW u \in Tickets, NEW p \in Petents, u.requester = p, Send(p, u),
             AtMachine(m) = {p}, AtMachine(m)' = {}
      PROVE  AllSingle' /\ \E x, y : Moved(p, x, y)
  <2> DEFINE x == <<"machine", m>>
             y == <<"queue", p>>
  <2>1. p \in MsgTypes /\ p \in Underway
    BY OwnQueue, PetentTypesIn
  <2>2. p \in Carried(x) /\ x \in Spots /\ y \in Spots /\ x # y
    BY <1>c, <2>1, SpotsOf
  <2>3. p \notin Queued(p)
    BY <2>1, <2>2, SpotsOf DEF Apart
  <2>4. /\ Queued(p)' = Queued(p) \cup {p}
        /\ \A j \in Underway \ {p} : Queued(j)' = Queued(j)
        /\ AllSingle'
    BY <1>c, <1>t, <2>1, <2>3, SendQueued DEF AllSingle, Underway
  <2>5. \A z \in Spots \ {x, y} : Carried(z)' = Carried(z)
    BY <2>4, <1>o, <1>w, SpotCases
  <2>6. Carried(x)' = Carried(x) \ {p} /\ Carried(y)' = Carried(y) \cup {p}
    BY <1>c, <2>1, <2>4, SpotsOf
  <2>7. Moved(p, x, y)
    BY <2>2, <2>5, <2>6 DEF Moved
  <2> QED BY <2>4, <2>7
<1> USE DEF shmVars, semVars
<1>1. CASE MachineLockOpened(m)
  BY <1>1, <1>b DEF MachineLockOpened, Asked
<1>2. CASE MachineUnlockOpened(m)
  BY <1>2, <1>b DEF MachineUnlockOpened, Asked
<1>3. CASE MachineCheck(m)
  <2>1. PICK l : MGoto(m, l) /\ l \in {"done", "poll", "check"}
    BY <1>3 DEF MachineCheck
  <2> QED BY <1>3, <2>1, <1>b DEF MachineCheck, Asked
<1>4. CASE MachinePoll(m)
  <2> DEFINE k == D_MSG_TICKET
             p == Head(msgs[k]).requester
             x == <<"queue", k>>
             y == <<"machine", m>>
  <2>0. k \in MsgTypes /\ k \in Underway
    BY RequestTypesIn, RequestsUnderway DEF RequestTypes
  <2>1. CASE ~Pending(k)
    BY <1>4, <2>1, <1>b DEF MachinePoll, Receive, Asked
  <2>2. CASE /\ Receive(k) /\ MGoto(m, "serve")
             /\ mtck' = [mtck EXCEPT ![m] = Head(msgs[k])]
    <3>1. /\ p \in Queued(k) /\ Queued(k)' = Queued(k) \ {p}
          /\ \A j \in Underway \ {k} : Queued(j)' = Queued(j)
          /\ AllSingle'
      BY <1>t, <2>0, <2>2, ReceiveQueued DEF AllSingle, Underway
    <3>2. AtMachine(m) = {} /\ AtMachine(m)' = {p}
      BY <1>4, <2>2, <1>m DEF MachinePoll, AtMachine, MGoto, Asked
    <3>3. \A z \in Spots \ {x, y} : Carried(z)' = Carried(z)
      BY <3>1, <1>o, <1>w, SpotCases
    <3>4. /\ x \in Spots /\ y \in Spots /\ x # y
          /\ p \in Carried(x) /\ Carried(x)' = Carried(x) \ {p}
          /\ Carried(y)' = Carried(y) \cup {p}
      BY <2>0, <3>1, <3>2, SpotsOf
    <3>5. Moved(p, x, y)
      BY <3>3, <3>4 DEF Moved
    <3> QED BY <3>1, <3>5
  <2> QED BY <1>4, <2>1, <2>2 DEF MachinePoll
<1>5. CASE MachineServe(m)
  BY <1>5, <1>b DEF MachineServe, Asked
<1>6. CASE MachineReply(m)
  <2> DEFINE u == MachineAnswer(mtck[m], mstatus[m])
  <2>1. mpc[m] = "reply" /\ Sound(mtck[m]) /\ Live(mtck[m])
    BY <1>6, <1>t DEF MachineReply, TypeInv, MachinesOK
  <2>2. PICK p \in Petents : p = mtck[m].requester
    BY <2>1 DEF Sound
  <2>3. u \in Tickets
    BY <2>1, MachineAnswerOK DEF Sound
  <2>4. u.requester = p
    BY <1>m, <2>2 DEF MachineAnswer, Tickets
  <2>5. Send(p, u)
    BY <1>6, <2>2 DEF MachineReply
  <2>6. AtMachine(m) = {p} /\ AtMachine(m)' = {}
    BY <1>6, <2>1, <2>2, <1>m DEF MachineReply, AtMachine, MGoto, Asked
  <2> HIDE DEF u
  <2> QED BY <2>3, <2>4, <2>5, <2>6, <1>c
<1>7. CASE MachineReport(m)
  <2> DEFINE t == [mtck[m] EXCEPT !.queueid = 1]
  <2>1. t \in Tickets
    BY <1>m DEF Tickets, D_MSG_TICKET
  <2>2. /\ \A j \in Underway : Queued(j)' = Queued(j)
        /\ AllSingle'
    BY <1>7, <1>t, <2>1, SendQueued DEF MachineReport, AllSingle, Underway, MsgTypes
  <2>3. AtMachine(m)' = AtMachine(m)
    BY <1>7, <1>m DEF MachineReport, AtMachine, MGoto, Asked
  <2>4. \A n \in Machines : AtMachine(n)' = AtMachine(n)
    BY <2>3, <1>o
  <2> QED BY <2>2, <2>4, <1>w, KeptWhole
<1>8. CASE MachineLockCheck(m)
  BY <1>8, <1>b DEF MachineLockCheck, Asked
<1> QED
  BY <1>1, <1>2, <1>3, <1>4, <1>5, <1>6, <1>7, <1>8 DEF MachineStep

\* A clerk takes a ticket from one of its queues, answers it, or leaves every
\* ticket where it is.
LEMMA WorkerFlow ==
  ASSUME NEW w \in Workers, WorkerStep(w), RouteInv, AllSingle, Apart
  PROVE  /\ AllSingle'
         /\ Kept \/ \E p, x, y : Moved(p, x, y)
<1>t. TypeInv /\ MsgsOK /\ WorkerRouted(wpc[w], wtck[w], wout[w], w)
  BY DEF RouteInv, TypeInv, WorkersRouted
<1>m. /\ wpc \in [Workers -> WorkerLabels]
      /\ wtck \in [Workers -> Tickets] /\ wout \in [Workers -> Tickets]
  BY <1>t DEF TypeInv, ShutInv, WorkersOK
<1>h. wpc[w] \in Holding => wtck[w].requester \in Petents
  BY <1>t DEF TypeInv, WorkersOK, Sound
<1>w. \A n \in Machines : AtMachine(n)' = AtMachine(n)
  BY WorkerFrame DEF machineVars, AtMachine
<1>n. \A v \in Workers \ {w} : wpc'[v] = wpc[v] /\ wtck'[v] = wtck[v]
  BY <1>m DEF WorkerStep, WorkerLockOpened, WorkerUnlockOpened, WorkerCheck,
     WorkerPoll, Take, WorkerServe, WorkerNumber, WorkerReply, WorkerReport,
     WorkerLockCheck, WorkerDrainReport, WorkerDrainReply, WGoto, EmptyHand
<1>o. \A v \in Workers \ {w} : AtClerk(v)' = AtClerk(v)
  BY <1>n DEF AtClerk
<1>a. ASSUME UNCHANGED msgs, AtClerk(w)' = AtClerk(w) PROVE AllSingle' /\ Kept
  <2>1. \A k \in Underway : Queued(k)' = Queued(k)
    BY <1>a DEF Queued
  <2>2. AllSingle'
    BY <1>a DEF AllSingle, Single
  <2>3. \A v \in Workers : AtClerk(v)' = AtClerk(v)
    BY <1>a, <1>o
  <2> QED BY <2>1, <2>2, <2>3, <1>w, KeptWhole
<1>b. ASSUME UNCHANGED <<msgs, wtck>>, NEW l, WGoto(w, l),
             l \in Working <=> wpc[w] \in Working
      PROVE  AllSingle' /\ Kept
  BY <1>a, <1>b, <1>m DEF AtClerk, WGoto
\* The clerk has sent u, its answer or its report, and goes on empty-handed.
<1>c. ASSUME NEW u \in Tickets, NEW p \in Petents, u.requester = p, Send(p, u),
             AtClerk(w) = {p}, AtClerk(w)' = {}
      PROVE  AllSingle' /\ \E x, y : Moved(p, x, y)
  <2> DEFINE x == <<"clerk", w>>
             y == <<"queue", p>>
  <2>1. p \in MsgTypes /\ p \in Underway
    BY OwnQueue, PetentTypesIn
  <2>2. p \in Carried(x) /\ x \in Spots /\ y \in Spots /\ x # y
    BY <1>c, <2>1, SpotsOf
  <2>3. p \notin Queued(p)
    BY <2>1, <2>2, SpotsOf DEF Apart
  <2>4. /\ Queued(p)' = Queued(p) \cup {p}
        /\ \A j \in Underway \ {p} : Queued(j)' = Queued(j)
        /\ AllSingle'
    BY <1>c, <1>t, <2>1, <2>3, SendQueued DEF AllSingle, Underway
  <2>5. \A z \in Spots \ {x, y} : Carried(z)' = Carried(z)
    BY <2>4, <1>o, <1>w, SpotCases
  <2>6. Carried(x)' = Carried(x) \ {p} /\ Carried(y)' = Carried(y) \cup {p}
    BY <1>c, <2>1, <2>4, SpotsOf
  <2>7. Moved(p, x, y)
    BY <2>2, <2>5, <2>6 DEF Moved
  <2> QED BY <2>4, <2>7
<1>d. ASSUME NEW u \in Tickets, Send(D_MSG_REJECTED, u), AtClerk(w)' = AtClerk(w)
      PROVE  AllSingle' /\ Kept
  <2>1. (\A j \in Underway : Queued(j)' = Queued(j)) /\ AllSingle'
    BY <1>d, <1>t, SendQueued DEF AllSingle, Underway, MsgTypes
  <2>2. \A v \in Workers : AtClerk(v)' = AtClerk(v)
    BY <1>d, <1>o
  <2> QED BY <2>1, <2>2, <1>w, KeptWhole
<1> USE DEF shmVars, semVars
<1>1. CASE WorkerLockOpened(w)
  BY <1>1, <1>b DEF WorkerLockOpened, Working
<1>2. CASE WorkerUnlockOpened(w)
  BY <1>2, <1>b DEF WorkerUnlockOpened, Working
<1>3. CASE WorkerCheck(w)
  <2>1. PICK l : WGoto(w, l) /\ l \in {"drainPrio", "pollPrio"}
    BY <1>3 DEF WorkerCheck
  <2> QED BY <1>3, <2>1, <1>b DEF WorkerCheck, Working
<1>4. CASE WorkerPoll(w)
  <2>1. PICK k \in {PriorityType(w), NormalType(w)}, vip \in BOOLEAN,
             l \in {"serve", "drainReport"},
             empty \in {"poll", "check", "drain", "done"} :
          Take(w, k, vip, l, empty)
    BY <1>4 DEF WorkerPoll
  <2>2. wpc[w] \notin Working
    BY <1>4 DEF WorkerPoll, Working
  <2> DEFINE p == Head(msgs[k]).requester
             x == <<"queue", k>>
             y == <<"clerk", w>>
  <2>3. k \in MsgTypes /\ k \in Underway
    <3>1. k \in RequestTypes
      BY WorkerQueue DEF RequestTypes
    <3> QED BY <3>1, RequestTypesIn, RequestsUnderway
  <2>4. CASE WGoto(w, empty) /\ UNCHANGED <<msgs, wtck>>
    BY <2>2, <2>4, <1>b DEF Working
  <2>5. CASE Receive(k) /\ wtck' = [wtck EXCEPT ![w] = Head(msgs[k])] /\ WGoto(w, l)
    <3>1. /\ p \in Queued(k) /\ Queued(k)' = Queued(k) \ {p}
          /\ \A j \in Underway \ {k} : Queued(j)' = Queued(j)
          /\ AllSingle'
      BY <1>t, <2>3, <2>5, ReceiveQueued DEF AllSingle, Underway
    <3>2. AtClerk(w) = {} /\ AtClerk(w)' = {p}
      BY <2>1, <2>2, <2>5, <1>m DEF AtClerk, WGoto, Working
    <3>3. \A z \in Spots \ {x, y} : Carried(z)' = Carried(z)
      BY <3>1, <1>o, <1>w, SpotCases
    <3>4. /\ x \in Spots /\ y \in Spots /\ x # y
          /\ p \in Carried(x) /\ Carried(x)' = Carried(x) \ {p}
          /\ Carried(y)' = Carried(y) \cup {p}
      BY <2>3, <3>1, <3>2, SpotsOf
    <3>5. Moved(p, x, y)
      BY <3>3, <3>4 DEF Moved
    <3> QED BY <3>1, <3>5
  <2> QED BY <2>1, <2>4, <2>5 DEF Take
<1>5. CASE WorkerServe(w)
  <2>1. PICK l \in {"reply", "number"} : WGoto(w, l)
    BY <1>5 DEF WorkerServe
  <2> QED BY <1>5, <2>1, <1>b DEF WorkerServe, Working
<1>6. CASE WorkerNumber(w)
  BY <1>6, <1>b DEF WorkerNumber, Working
<1>7. CASE WorkerReply(w)
  <2>1. /\ wpc[w] = "reply" /\ wtck[w].requester \in Petents
        /\ wout[w].requester = wtck[w].requester /\ wout[w] \in Tickets
    BY <1>7, <1>h, <1>m, <1>t DEF WorkerReply, Holding, WorkerRouted
  <2>2. PICK l \in {"report", "lockCheck"} : WGoto(w, l)
    BY <1>7 DEF WorkerReply, AfterReply
  <2>3. AtClerk(w) = {wtck[w].requester} /\ AtClerk(w)' = {}
    BY <1>7, <1>m, <2>1, <2>2 DEF WorkerReply, AtClerk, WGoto, Working
  <2>4. Send(wtck[w].requester, wout[w])
    BY <1>7, <2>1 DEF WorkerReply
  <2> QED BY <2>1, <2>3, <2>4, <1>c
<1>8. CASE WorkerReport(w)
  <2>1. Refusal(w) \in Tickets
    <3>1. WorkerType[w] \in Faculties \cup {CASHIER_POINT}
      BY TypeRange
    <3>2. wtck[w] \in Tickets /\ wout[w] \in Tickets
      BY <1>m
    <3> QED BY <3>1, <3>2 DEF Refusal, Tickets
  <2>2. AtClerk(w)' = AtClerk(w)
    BY <1>8, <1>m DEF WorkerReport, AtClerk, WGoto, Working
  <2> QED BY <1>8, <2>1, <2>2, <1>d DEF WorkerReport
<1>9. CASE WorkerLockCheck(w)
  <2>1. AtClerk(w)' = AtClerk(w)
    BY <1>9, <1>m DEF WorkerLockCheck, AtClerk, WGoto, Working
  <2> QED BY <1>9, <2>1, <1>a DEF WorkerLockCheck
<1>10. CASE WorkerDrainReport(w)
  <2> DEFINE t == [wtck[w] EXCEPT !.queueid = WorkerType[w]]
  <2>1. t \in Tickets
    <3>1. WorkerType[w] \in Faculties \cup {CASHIER_POINT}
      BY TypeRange
    <3>2. wtck[w] \in Tickets
      BY <1>m
    <3> QED BY <3>1, <3>2 DEF Tickets
  <2>2. AtClerk(w)' = AtClerk(w)
    BY <1>10, <1>m DEF WorkerDrainReport, AtClerk, WGoto, Working
  <2> QED BY <1>10, <2>1, <2>2, <1>d DEF WorkerDrainReport
<1>11. CASE WorkerDrainReply(w)
  <2> DEFINE t == [wtck[w] EXCEPT !.ticketid = -1, !.queueid = -1]
             p == wtck[w].requester
  <2>0. wtck[w] \in Tickets /\ p \in Petents
    BY <1>11, <1>h, <1>m DEF WorkerDrainReply, Holding
  <2>1. t \in Tickets /\ t.requester = p
    BY <2>0 DEF Tickets
  <2>2. PICK l : WGoto(w, l) /\ l \in {"drain", "drainPrio"}
    BY <1>11 DEF WorkerDrainReply, DrainLoop
  <2>3. AtClerk(w) = {p} /\ AtClerk(w)' = {}
    BY <1>11, <1>m, <2>2 DEF WorkerDrainReply, AtClerk, WGoto, Working
  <2>4. Send(p, t)
    BY <1>11 DEF WorkerDrainReply
  <2> QED BY <2>0, <2>1, <2>3, <2>4, <1>c
<1> QED
  BY <1>1, <1>2, <1>3, <1>4, <1>5, <1>6, <1>7, <1>8, <1>9, <1>10, <1>11
     DEF WorkerStep
-------------------------------------------------------------------------------
\* Nobody's place or label changes: who waited waits, for the same ticket.
LEMMA FlowElsewhere ==
  ASSUME FlowInv, UNCHANGED <<pc, sig2, ipcRemoved, ignoredEintr>>,
         Kept \/ \E p, x, y : Moved(p, x, y)
  PROVE  Apart' /\ Owned' /\ Answered'
<1>0. Apart /\ Owned /\ Answered
  BY DEF FlowInv
<1>1. Apart'
  BY <1>0, StaysApart
<1>2. \A q : (\E z \in Spots : q \in Carried(z)')
               <=> \E z \in Spots : q \in Carried(z)
  BY MovedCarried DEF Kept
<1>3. \A q : Waiting(q)' <=> Waiting(q)
  BY DEF Waiting
<1>4. Owned'
  <2> SUFFICES ASSUME NEW x \in Spots, NEW p \in Carried(x)'
               PROVE  /\ p \in Petents /\ (Waiting(p) \/ pc[p] \in Parting)
                      /\ ~sig2[p] /\ ~ipcRemoved => Waiting(p)
    BY <1>3 DEF Owned
  <2>1. PICK z \in Spots : p \in Carried(z)
    BY <1>2
  <2> QED BY <1>0, <2>1 DEF Owned
<1>5. Answered'
  <2> SUFFICES ASSUME ~ipcRemoved, ~ignoredEintr,
                      NEW p \in Petents, Waiting(p)
               PROVE  \E x \in Spots : p \in Carried(x)'
    BY <1>3 DEF Answered
  <2> QED BY <1>0, <1>2 DEF Answered
<1> QED BY <1>1, <1>4, <1>5

WaitLabels == {"waitTicket", "waitWorker"}

\* A petent sends a request for which it then waits, takes its answer, or goes
\* on without a letter.
LEMMA PetentFlow ==
  ASSUME NEW p \in Petents, PetentStep(p), FlowInv
  PROVE  AllSingle' /\ Apart' /\ Owned' /\ Answered'
<1>t. /\ RouteInv /\ AllSingle /\ Apart /\ Owned /\ Answered
      /\ TypeInv /\ MsgsOK /\ PetentRouted(pc[p], tck[p], p)
  BY DEF FlowInv, RouteInv, TypeInv, PetentsRouted
<1>m. pc \in [Petents -> PetentLabels] /\ tck \in [Petents -> Tickets]
  BY <1>t DEF TypeInv, CapacityInv, PetentsOK
<1>f. /\ UNCHANGED <<sig2, ipcRemoved, ignoredEintr>>
      /\ \A m \in Machines : AtMachine(m)' = AtMachine(m)
      /\ \A w \in Workers : AtClerk(w)' = AtClerk(w)
  BY PetentFrame DEF machineVars, workerVars, AtMachine, AtClerk
<1>w. ASSUME NEW q PROVE Waiting(q) <=> pc[q] \in WaitLabels
  BY DEF Waiting, WaitLabels
<1>v. ASSUME NEW q PROVE Waiting(q)' <=> pc'[q] \in WaitLabels
  BY DEF Waiting, WaitLabels
\* No letter: p does not start to wait, and stops only when the queue is gone.
<1>a. ASSUME UNCHANGED msgs, NEW l, Goto(p, l), l \notin WaitLabels,
             pc[p] \in Parting => l \in Parting,
             pc[p] \in WaitLabels => ipcRemoved /\ l \in Parting
      PROVE  AllSingle' /\ Apart' /\ Owned' /\ Answered'
  <2>1. Kept
    <3>1. \A k \in Underway : Queued(k)' = Queued(k)
      BY <1>a DEF Queued
    <3> QED BY <1>f, <3>1, KeptWhole
  <2>2. AllSingle' /\ Apart'
    BY <1>a, <1>t, <2>1, StaysApart DEF AllSingle, Single
  <2>3. pc'[p] = l /\ \A q \in Petents \ {p} : pc'[q] = pc[q]
    BY <1>a, <1>m DEF Goto
  <2>4. ASSUME NEW x \in Spots, NEW q \in Carried(x)'
        PROVE  /\ q \in Petents /\ (Waiting(q)' \/ pc'[q] \in Parting)
               /\ ~sig2[q] /\ ~ipcRemoved => Waiting(q)'
    <3>1. /\ q \in Petents /\ (Waiting(q) \/ pc[q] \in Parting)
          /\ ~sig2[q] /\ ~ipcRemoved => Waiting(q)
      BY <1>t, <2>1, <2>4 DEF Kept, Owned
    <3> QED BY <1>a, <1>w, <1>v, <2>3, <3>1
  <2>5. Owned'
    BY <1>f, <2>4 DEF Owned
  <2>6. Answered'
    <3> SUFFICES ASSUME ~ipcRemoved, ~ignoredEintr,
                        NEW q \in Petents, Waiting(q)'
                 PROVE  \E x \in Spots : q \in Carried(x)'
      BY <1>f DEF Answered
    <3>1. Waiting(q)
      BY <1>a, <1>w, <1>v, <2>3
    <3> QED BY <1>t, <2>1, <3>1 DEF Kept, Answered
  <2> QED BY <2>2, <2>5, <2>6
\* A letter from p, for whose answer it waits.
<1>b. ASSUME NEW k \in Underway, Send(k, tck[p]), NEW l \in WaitLabels,
             Goto(p, l), pc[p] \in {"sendTicket", "send"}
      PROVE  AllSingle' /\ Apart' /\ Owned' /\ Answered'
  <2> DEFINE y == <<"queue", k>>
  <2>0. k \in MsgTypes /\ tck[p] \in Tickets /\ tck[p].requester = p
    BY <1>b, <1>m, <1>t DEF Underway, PetentRouted, HasTicket
  <2>1. \A z \in Spots : p \notin Carried(z)
    BY <1>b, <1>t DEF Owned, Waiting, Parting
  <2>2. y \in Spots /\ p \notin Queued(k)
    BY <2>1, SpotsOf
  <2>3. /\ Queued(k)' = Queued(k) \cup {p}
        /\ \A j \in Underway \ {k} : Queued(j)' = Queued(j)
        /\ AllSingle'
    BY <1>b, <1>t, <2>0, <2>2, SendQueued DEF AllSingle, Underway
  <2>4. \A z \in Spots \ {y} : Carried(z)' = Carried(z)
    BY <1>f, <2>3, SpotCases
  <2>5. Carried(y)' = Carried(y) \cup {p}
    BY <2>3, SpotsOf
  <2>6. Added(p, y)
    BY <2>1, <2>2, <2>4, <2>5 DEF Added
  <2>7. Apart'
    BY <1>t, <2>6, StaysApart
  <2>8. pc'[p] = l /\ \A q \in Petents \ {p} : pc'[q] = pc[q]
    BY <1>b, <1>m DEF Goto
  <2>9. ASSUME NEW x \in Spots, NEW q \in Carried(x)'
        PROVE  /\ q \in Petents /\ (Waiting(q)' \/ pc'[q] \in Parting)
               /\ ~sig2[q] /\ ~ipcRemoved => Waiting(q)'
    <3>1. CASE q = p
      BY <1>b, <1>v, <2>8, <3>1
    <3>2. CASE q # p
      <4>1. q \in Carried(x)
        BY <2>4, <2>5, <2>9, <3>2
      <4>2. /\ q \in Petents /\ (Waiting(q) \/ pc[q] \in Parting)
            /\ ~sig2[q] /\ ~ipcRemoved => Waiting(q)
        BY <1>t, <4>1 DEF Owned
      <4> QED BY <1>w, <1>v, <2>8, <3>2, <4>2
    <3> QED BY <3>1, <3>2
  <2>10. Owned'
    BY <1>f, <2>9 DEF Owned
  <2>11. Answered'
    <3> SUFFICES ASSUME ~ipcRemoved, ~ignoredEintr,
                        NEW q \in Petents, Waiting(q)'
                 PROVE  \E x \in Spots : q \in Carried(x)'
      BY <1>f DEF Answered
    <3>1. CASE q = p
      BY <2>2, <2>5, <3>1
    <3>2. CASE q # p
      <4>1. Waiting(q)
        BY <1>w, <1>v, <2>8, <3>2
      <4>2. PICK x \in Spots : q \in Carried(x)
        BY <1>t, <4>1 DEF Answered
      <4> QED BY <2>4, <2>5, <4>2
    <3> QED BY <3>1, <3>2
  <2> QED BY <2>3, <2>7, <2>10, <2>11
\* The answer p waits for.
<1>c. ASSUME Receive(p), NEW l, Goto(p, l), l \notin WaitLabels,
             pc[p] \in WaitLabels
      PROVE  AllSingle' /\ Apart' /\ Owned' /\ Answered'
  <2> DEFINE x == <<"queue", p>>
  <2>0. p \in MsgTypes /\ p \in Underway /\ Queued(p) \subseteq {p}
    BY <1>t, OwnQueue, PetentTypesIn
  <2>1. /\ p \in Queued(p) /\ Queued(p)' = Queued(p) \ {p}
        /\ \A j \in Underway \ {p} : Queued(j)' = Queued(j)
        /\ AllSingle'
    BY <1>c, <1>t, <2>0, ReceiveQueued DEF AllSingle, Underway
  <2>2. x \in Spots /\ p \in Carried(x) /\ Carried(x)' = Carried(x) \ {p}
    BY <2>0, <2>1, SpotsOf
  <2>3. \A z \in Spots \ {x} : Carried(z)' = Carried(z)
    BY <1>f, <2>1, SpotCases
  <2>4. Apart'
    <3>1. Removed(p, x)
      BY <2>2, <2>3 DEF Removed
    <3> QED BY <1>t, <3>1, StaysApart
  <2>5. \A z \in Spots : p \notin Carried(z)'
    BY <1>t, <2>2, <2>3 DEF Apart
  <2>6. pc'[p] = l /\ \A q \in Petents \ {p} : pc'[q] = pc[q]
    BY <1>c, <1>m DEF Goto
  <2>7. ASSUME NEW z \in Spots, NEW q \in Carried(z)'
        PROVE  /\ q \in Petents /\ (Waiting(q)' \/ pc'[q] \in Parting)
               /\ ~sig2[q] /\ ~ipcRemoved => Waiting(q)'
    <3>1. q # p /\ q \in Carried(z)
      BY <2>2, <2>3, <2>5, <2>7
    <3>2. /\ q \in Petents /\ (Waiting(q) \/ pc[q] \in Parting)
          /\ ~sig2[q] /\ ~ipcRemoved => Waiting(q)
      BY <1>t, <3>1 DEF Owned
    <3> QED BY <1>w, <1>v, <2>6, <3>1, <3>2
  <2>8. Owned'
    BY <1>f, <2>7 DEF Owned
  <2>9. Answered'
    <3> SUFFICES ASSUME ~ipcRemoved, ~ignoredEintr,
                        NEW q \in Petents, Waiting(q)'
                 PROVE  \E z \in Spots : q \in Carried(z)'
      BY <1>f DEF Answered
    <3>1. q # p /\ Waiting(q)
      BY <1>c, <1>w, <1>v, <2>6
    <3>2. PICK z \in Spots : q \in Carried(z)
      BY <1>t, <3>1 DEF Answered
    <3> QED BY <2>2, <2>3, <3>1, <3>2
  <2> QED BY <2>1, <2>4, <2>8, <2>9
<1> USE DEF shmVars, semVars
<1>n. \A u : NextVisit(p, u) \notin WaitLabels
  BY DEF NextVisit, WaitLabels
<1>1. CASE Register(p)
  <2>1. PICK l \in {"configured", "gone"} : Goto(p, l)
    BY <1>1 DEF Register
  <2> QED BY <1>1, <1>a, <2>1 DEF Register, At, WaitLabels, Parting
<1>2. CASE PassConfigured(p)
  BY <1>2, <1>a DEF PassConfigured, At, WaitLabels, Parting
<1>3. CASE Arrive(p)
  <2>1. PICK l \in {"gone", "opened"} : Goto(p, l)
    BY <1>3 DEF Arrive
  <2> QED BY <1>3, <1>a, <2>1 DEF Arrive, At, WaitLabels, Parting
<1>4. CASE LockOpened(p)
  BY <1>4, <1>a DEF LockOpened, At, WaitLabels, Parting
<1>5. CASE UnlockOpened(p)
  BY <1>5, <1>a DEF UnlockOpened, At, WaitLabels, Parting
<1>6. CASE EnterBuilding(p)
  BY <1>6, <1>a DEF EnterBuilding, At, WaitLabels, Parting
<1>7. CASE Entered(p)
  <2>1. PICK l \in {"leave", "tickets"} : Goto(p, l)
    BY <1>7 DEF Entered
  <2> QED BY <1>7, <1>a, <2>1 DEF Entered, At, WaitLabels, Parting
<1>8. CASE LockTickets(p)
  BY <1>8, <1>a DEF LockTickets, At, WaitLabels, Parting
<1>9. CASE SendTicketRequest(p)
  <2>1. D_MSG_TICKET \in Underway
    BY RequestsUnderway DEF RequestTypes
  <2> QED BY <1>9, <1>b, <2>1 DEF SendTicketRequest, At, WaitLabels
<1>10. CASE ReceiveTicket(p)
  <2>1. PICK l : Goto(p, l) /\ l \notin WaitLabels
    BY <1>10, <1>n DEF ReceiveTicket, WaitLabels
  <2> QED BY <1>10, <1>c, <2>1 DEF ReceiveTicket, At, WaitLabels
<1>11. CASE LockQueue(p)
  BY <1>11, <1>a DEF LockQueue, At, WaitLabels, Parting
<1>12. CASE SendToWorker(p)
  <2>0. pc[p] = "send"
    BY <1>12 DEF SendToWorker, At
  <2>1. CASE Goto(p, "leaveQueue") /\ UNCHANGED msgs
    BY <2>0, <2>1, <1>a DEF WaitLabels, Parting
  <2>2. CASE /\ tck[p].queueid # -1 /\ Send(tck[p].queueid, tck[p])
             /\ Goto(p, "waitWorker")
    <3>1. tck[p].queueid \in RequestTypes
      BY <1>t, <2>0, <2>2 DEF PetentRouted, RequestTypes
    <3> QED BY <1>b, <2>0, <2>2, <3>1, RequestsUnderway DEF WaitLabels
  <2> QED BY <1>12, <2>1, <2>2 DEF SendToWorker
<1>13. CASE ReceiveFromWorker(p)
  <2>1. PICK l : Goto(p, l) /\ l \notin WaitLabels
    BY <1>13, <1>n DEF ReceiveFromWorker, WaitLabels
  <2> QED BY <1>13, <1>c, <2>1 DEF ReceiveFromWorker, At, WaitLabels
<1>14. CASE WakeFrustrated(p)
  BY <1>14, <1>a, <1>n DEF WakeFrustrated, At, WaitLabels, Parting
<1>15. CASE LeaveBuilding(p)
  <2>1. PICK l \in {GiveLabel(pc[p]), AfterLeave(p, pc[p])} : Goto(p, l)
    BY <1>15 DEF LeaveBuilding
  <2>2. /\ l \notin WaitLabels /\ pc[p] \notin WaitLabels
        /\ pc[p] \in Parting => l \in Parting
    BY <1>15, <2>1 DEF LeaveBuilding, GiveLabel, AfterLeave, LeaveLabels,
       WaitLabels, Parting
  <2> QED BY <1>15, <1>a, <2>1, <2>2 DEF LeaveBuilding
<1>16. CASE GivePlaces(p)
  <2>1. /\ AfterLeave(p, pc[p]) \notin WaitLabels /\ pc[p] \notin WaitLabels
        /\ pc[p] \in Parting => AfterLeave(p, pc[p]) \in Parting
    BY <1>16 DEF GivePlaces, AfterLeave, GiveLabels, WaitLabels, Parting
  <2> QED BY <1>16, <1>a, <2>1 DEF GivePlaces
<1>17. CASE FreeTickets(p)
  BY <1>17, <1>a DEF FreeTickets, At, WaitLabels, Parting
<1>18. CASE FreeQueue(p)
  BY <1>18, <1>a DEF FreeQueue, At, WaitLabels, Parting
<1>19. CASE ExitOnRemovedIpc(p)
  BY <1>19, <1>a DEF ExitOnRemovedIpc, WaitLabels, Parting
<1> QED
  BY <1>1, <1>2, <1>3, <1>4, <1>5, <1>6, <1>7, <1>8, <1>9, <1>10, <1>11,
     <1>12, <1>13, <1>14, <1>15, <1>16, <1>17, <1>18, <1>19 DEF PetentStep

-------------------------------------------------------------------------------
\* Signal 2 drives a waiting petent away, signal 1 may take a letter from a
\* clerk that was about to send it; neither brings anyone a ticket.
LEMMA SignalledFlow ==
  ASSUME DirectorStep, RouteInv
  PROVE  /\ \A q \in Petents :
              /\ Waiting(q)' => Waiting(q)
              /\ sig2[q] => sig2'[q]
              /\ Waiting(q) /\ ~Waiting(q)' => sig2'[q] /\ pc'[q] \in Parting
              /\ pc[q] \in Parting => pc'[q] \in Parting
         /\ \A w \in Workers : /\ AtClerk(w)' \subseteq AtClerk(w)
                               /\ ~ignoredEintr' => AtClerk(w)' = AtClerk(w)
<1>t. TypeInv
  BY DEF RouteInv
<1>m. /\ pc \in [Petents -> PetentLabels] /\ wpc \in [Workers -> WorkerLabels]
      /\ petent_pids \in [1..PidsLimit -> Petents \cup {NoPid}]
      /\ sig2 \in [Petents -> BOOLEAN]
  BY <1>t DEF TypeInv, CapacityInv, ShutInv, SharedOK, PetentsOK
<1>0. wtck' = wtck
  BY DirectorFrame
<1> DEFINE Left(q) == /\ Waiting(q)' => Waiting(q)
                      /\ sig2[q] => sig2'[q]
                      /\ Waiting(q) /\ ~Waiting(q)' =>
                           sig2'[q] /\ pc'[q] \in Parting
                      /\ pc[q] \in Parting => pc'[q] \in Parting
           Lost(w) == /\ AtClerk(w)' \subseteq AtClerk(w)
                      /\ ~ignoredEintr' => AtClerk(w)' = AtClerk(w)
<1>p. ASSUME UNCHANGED <<pc, sig2>> PROVE \A q \in Petents : Left(q)
  BY <1>p DEF Waiting
<1>w. ASSUME UNCHANGED wpc PROVE \A w \in Workers : Lost(w)
  BY <1>w, <1>0 DEF AtClerk
<1>1. ASSUME NEW next, ScanPids(next) PROVE \A q \in Petents : Left(q)
  <2>1. ASSUME NEW p \in Petents, Signal2(p) PROVE \A q \in Petents : Left(q)
    <3>1. sig2' = [sig2 EXCEPT ![p] = TRUE]
      BY <2>1 DEF Signal2
    <3>2. CASE UNCHANGED pc
      BY <3>1, <3>2, <1>m DEF Waiting
    <3>3. CASE Blocked(p) /\ Goto(p, OnInterrupt(pc[p]))
      <4>1. /\ pc[p] \notin Parting
            /\ OnInterrupt(pc[p]) \notin {"waitTicket", "waitWorker"}
            /\ Waiting(p) => OnInterrupt(pc[p]) \in Parting
        BY <3>3 DEF Blocked, OnInterrupt, Parting, Waiting
      <4>2. /\ pc'[p] = OnInterrupt(pc[p]) /\ sig2'[p]
            /\ \A q \in Petents \ {p} : pc'[q] = pc[q] /\ sig2'[q] = sig2[q]
        BY <3>1, <3>3, <1>m DEF Goto
      <4>3. Left(p)
        BY <4>1, <4>2 DEF Waiting
      <4>4. \A q \in Petents \ {p} : Left(q)
        BY <4>2 DEF Waiting
      <4> QED BY <4>3, <4>4
    <3> QED BY <2>1, <3>2, <3>3 DEF Signal2
  <2>2. UNCHANGED <<pc, sig2>> \/ \E p \in Petents : Signal2(p)
    BY <1>1, <1>m DEF ScanPids
  <2> QED BY <1>p, <2>1, <2>2
<1>2. ASSUME NEW S, Signal1(S) PROVE \A w \in Workers : Lost(w)
  <2> SUFFICES ASSUME NEW w \in Workers PROVE Lost(w)
    OBVIOUS
  <2>1. /\ wpc'[w] \in {wpc[w], AfterFailure(w)}
        /\ ~ignoredEintr' => wpc'[w] = wpc[w]
    BY <1>2 DEF Signal1
  <2>2. AfterFailure(w) \in Working => wpc[w] \in Working
    BY DEF AfterFailure, AfterReply, DrainLoop, Working
  <2> QED BY <1>0, <2>1, <2>2 DEF AtClerk
<1>3. CASE SendSignal1
  BY <1>3, <1>2, <1>p DEF SendSignal1
<1>4. CASE Evacuate \/ KillRemaining
  BY <1>4, <1>1, <1>w DEF Evacuate, KillRemaining
<1>5. CASE UNCHANGED <<pc, sig2, wpc>>
  BY <1>5, <1>p, <1>w
<1>6. \/ SendSignal1 \/ Evacuate \/ KillRemaining
      \/ UNCHANGED <<pc, sig2, wpc>>
  BY DEF DirectorStep, Configure, OpenOffice, SetOpened, SetBuilding, TimeUp,
     Event1, Event2, CloseOpened, CloseFlag, CloseBuilding, WriteReport,
     StopThread, JoinThread, unsignalled
<1> QED BY <1>3, <1>4, <1>5, <1>6

LEMMA DirectorFlow ==
  ASSUME DirectorStep, FlowInv
  PROVE  AllSingle' /\ Apart' /\ Owned' /\ Answered'
<1>t. RouteInv /\ AllSingle /\ Apart /\ Owned /\ Answered
  BY DEF FlowInv
<1>f. /\ UNCHANGED <<msgs, ipcRemoved>>
      /\ \A m \in Machines : AtMachine(m)' = AtMachine(m)
      /\ ~ignoredEintr' => ~ignoredEintr
  BY DirectorFrame DEF machineVars, AtMachine
<1>1. \A k \in Underway : Queued(k)' = Queued(k)
  BY <1>f DEF Queued
<1>2. AllSingle'
  BY <1>f, <1>t DEF AllSingle, Single
<1>3. \A z \in Spots : /\ Carried(z)' \subseteq Carried(z)
                       /\ ~ignoredEintr' => Carried(z)' = Carried(z)
  BY <1>1, <1>f, <1>t, SignalledFlow, SpotCases
<1>4. Apart'
  BY <1>3, <1>t DEF Apart
<1>5. Owned'
  <2> SUFFICES ASSUME NEW x \in Spots, NEW p \in Carried(x)'
               PROVE  /\ p \in Petents /\ (Waiting(p)' \/ pc'[p] \in Parting)
                      /\ ~sig2'[p] /\ ~ipcRemoved' => Waiting(p)'
    BY DEF Owned
  <2>1. /\ p \in Petents /\ (Waiting(p) \/ pc[p] \in Parting)
        /\ ~sig2[p] /\ ~ipcRemoved => Waiting(p)
    BY <1>3, <1>t DEF Owned
  <2>2. /\ sig2[p] => sig2'[p]
        /\ Waiting(p) /\ ~Waiting(p)' => sig2'[p] /\ pc'[p] \in Parting
        /\ pc[p] \in Parting => pc'[p] \in Parting
    BY <1>t, <2>1, SignalledFlow
  <2> QED BY <1>f, <2>1, <2>2
<1>6. Answered'
  <2> SUFFICES ASSUME ~ipcRemoved, ~ignoredEintr',
                      NEW p \in Petents, Waiting(p)'
               PROVE  \E x \in Spots : p \in Carried(x)'
    BY <1>f DEF Answered
  <2>1. Waiting(p) /\ ~ignoredEintr
    BY <1>f, <1>t, SignalledFlow
  <2> QED BY <1>3, <1>t, <2>1 DEF Answered
<1> QED BY <1>2, <1>4, <1>5, <1>6

LEMMA FlowInit == Init => FlowInv
<1> SUFFICES ASSUME Init PROVE FlowInv
  OBVIOUS
<1>1. \A k \in MsgTypes : msgs[k] = <<>>
  BY DEF Init
<1>2. \A k \in Underway : Queued(k) = {} /\ Single(k)
  BY <1>1 DEF Underway, Queued, Single
<1>3. \A m \in Machines : AtMachine(m) = {}
  BY DEF Init, AtMachine, Asked
<1>4. \A w \in Workers : AtClerk(w) = {}
  BY DEF Init, AtClerk, Working
<1>5. \A z \in Spots : Carried(z) = {}
  BY <1>2, <1>3, <1>4 DEF Spots, Carried
<1>6. \A p \in Petents : ~Waiting(p)
  BY DEF Init, Waiting
<1> QED
  BY RouteInit, <1>2, <1>5, <1>6
     DEF FlowInv, AllSingle, Apart, Owned, Answered

LEMMA FlowStep == FlowInv /\ [Next]_vars => FlowInv'
<1> SUFFICES ASSUME FlowInv, [Next]_vars PROVE FlowInv'
  OBVIOUS
<1>0. /\ RouteInv /\ RouteInv' /\ AllSingle /\ Apart /\ Owned /\ Answered
  BY RouteStep DEF FlowInv
<1> SUFFICES AllSingle' /\ Apart' /\ Owned' /\ Answered'
  BY <1>0 DEF FlowInv
\* A step that touches no letter but the director's, and nobody's hands.
<1>a. ASSUME \A k \in Underway : msgs'[k] = msgs[k],
             UNCHANGED <<machineVars, workerVars>>
      PROVE  AllSingle' /\ Kept
  <2>1. /\ \A k \in Underway : Queued(k)' = Queued(k)
        /\ \A m \in Machines : AtMachine(m)' = AtMachine(m)
        /\ \A w \in Workers : AtClerk(w)' = AtClerk(w)
    BY <1>a DEF Queued, machineVars, workerVars, AtMachine, AtClerk
  <2>2. AllSingle'
    BY <1>0, <1>a DEF AllSingle, Single
  <2> QED BY <2>1, <2>2, KeptWhole
<1>1. CASE \E p \in Petents : PetentStep(p)
  BY <1>1, PetentFlow
<1>2. CASE \E m \in Machines : MachineStep(m)
  BY <1>0, <1>2, MachineFlow, FlowElsewhere, MachineFrame DEF petentVars
<1>3. CASE \E w \in Workers : WorkerStep(w)
  BY <1>0, <1>3, WorkerFlow, FlowElsewhere, WorkerFrame DEF petentVars
<1>4. CASE DirectorStep
  BY <1>4, DirectorFlow
<1>5. CASE ThreadStep
  <2>1. \A k \in Underway : msgs'[k] = msgs[k]
    BY <1>5, <1>0 DEF ThreadStep, ThreadReceive, ThreadStop, Receive, RouteInv,
       TypeInv, MsgsOK, Underway
  <2> QED
    BY <1>5, <2>1, <1>a, FlowElsewhere, ThreadFrame
       DEF petentVars, semVars, lockVars
<1>6. CASE RemoveIpc
  <2>1. AllSingle' /\ Kept /\ UNCHANGED <<pc, sig2>> /\ ipcRemoved'
    BY <1>6, <1>a DEF RemoveIpc, petentVars
  <2>2. Apart'
    BY <1>0, <2>1, StaysApart
  <2>3. Owned'
    BY <1>0, <2>1 DEF Owned, Kept, Waiting
  <2>4. Answered'
    BY <2>1 DEF Answered
  <2> QED BY <2>1, <2>2, <2>3, <2>4
<1>7. CASE UNCHANGED vars
  BY <1>7, <1>a, FlowElsewhere DEF vars, petentVars, semVars, lockVars
<1> QED
  BY <1>1, <1>2, <1>3, <1>4, <1>5, <1>6, <1>7 DEF Next, Rest

-------------------------------------------------------------------------------
\* A set with at most one element.
LEMMA AtMostOne ==
  ASSUME NEW S, \A a, b \in S : a = b
  PROVE  /\ Cardinality(S) = IF S = {} THEN 0 ELSE 1
<1>1. CASE S = {}
  BY <1>1, FS_EmptySet
<1>2. CASE S # {}
  <2>1. PICK a : S = {a}
    BY <1>2
  <2> QED BY <2>1, FS_Singleton
<1> QED BY <1>1, <1>2

\* A petent that sleeps in msgrcv has exactly one ticket on its way, and nobody
\* ever has two: no answer is lost and no two clerks or machines work on the
\* same petent, whatever the number of each, unless signal 1 breaks a send of a
\* clerk or signal 2 drives the petent away.
THEOREM OneTicket == Spec => []OneTicketPerPetent
<1>1. FlowInv => OneTicketPerPetent
  <2> SUFFICES ASSUME FlowInv, NEW p \in Petents
               PROVE  /\ ~sig2[p] /\ ~ipcRemoved /\ ~ignoredEintr =>
                           InFlight(p) = IF Waiting(p) THEN 1 ELSE 0
                      /\ InFlight(p) <= 1
    BY DEF OneTicketPerPetent
  <2>0. AllSingle /\ Apart /\ Owned /\ Answered
    BY DEF FlowInv
  <2> DEFINE A == UNION {{<<t, i>> : i \in {j \in 1..Len(msgs[t]) :
                                              msgs[t][j].requester = p}} :
                         t \in MsgTypes \ {D_MSG_REJECTED}}
             B == {m \in Machines : mpc[m] \in {"serve", "reply"}
                                    /\ mtck[m].requester = p}
             C == {w \in Workers :
                     /\ wpc[w] \in {"serve", "number", "reply", "drainReport",
                                    "drainReply"}
                     /\ wtck[w].requester = p}
  <2>1. InFlight(p) = Cardinality(A) + Cardinality(B) + Cardinality(C)
    BY DEF InFlight
  <2>2. ASSUME NEW a \in A
        PROVE  \E t \in Underway : \E i \in 1..Len(msgs[t]) :
                 a = <<t, i>> /\ msgs[t][i].requester = p
    BY <2>2 DEF Underway
  <2>3. ASSUME NEW t \in Underway, p \in Queued(t) PROVE A # {}
    <3>1. PICK i \in 1..Len(msgs[t]) : msgs[t][i].requester = p
      BY <2>3 DEF Queued
    <3>2. <<t, i>> \in A
      BY <3>1 DEF Underway
    <3> QED BY <3>2
  <2>a. ASSUME NEW a \in A
        PROVE  \E t \in Underway : <<"queue", t>> \in Spots
                                   /\ p \in Carried(<<"queue", t>>)
    <3>1. PICK t \in Underway : \E i \in 1..Len(msgs[t]) :
            msgs[t][i].requester = p
      BY <2>2
    <3>2. p \in Queued(t)
      BY <3>1 DEF Queued
    <3> QED BY <3>2, SpotsOf
  <2>b. ASSUME NEW m \in B
        PROVE  m \in Machines /\ <<"machine", m>> \in Spots
               /\ p \in Carried(<<"machine", m>>)
    BY SpotsOf DEF AtMachine, Asked
  <2>c. ASSUME NEW w \in C
        PROVE  w \in Workers /\ <<"clerk", w>> \in Spots
               /\ p \in Carried(<<"clerk", w>>)
    BY SpotsOf DEF AtClerk, Working
  <2>4. \A a, b \in A : a = b
    <3> SUFFICES ASSUME NEW a \in A, NEW b \in A PROVE a = b
      OBVIOUS
    <3>a. PICK t \in Underway : \E i \in 1..Len(msgs[t]) :
            a = <<t, i>> /\ msgs[t][i].requester = p
      BY <2>2
    <3>b. PICK u \in Underway : \E j \in 1..Len(msgs[u]) :
            b = <<u, j>> /\ msgs[u][j].requester = p
      BY <2>2
    <3>1. PICK i \in 1..Len(msgs[t]) : a = <<t, i>> /\ msgs[t][i].requester = p
      BY <3>a
    <3>2. PICK j \in 1..Len(msgs[u]) : b = <<u, j>> /\ msgs[u][j].requester = p
      BY <3>b
    <3>3. p \in Queued(t) /\ p \in Queued(u)
      BY <3>1, <3>2 DEF Queued
    <3>4. t = u
      <4>1. /\ <<"queue", t>> \in Spots /\ p \in Carried(<<"queue", t>>)
            /\ <<"queue", u>> \in Spots /\ p \in Carried(<<"queue", u>>)
        BY <3>3, SpotsOf
      <4>2. <<"queue", t>> = <<"queue", u>>
        BY <2>0, <4>1 DEF Apart
      <4> QED BY <4>2
    <3>5. i = j
      BY <2>0, <3>1, <3>2, <3>4 DEF AllSingle, Single
    <3> QED BY <3>1, <3>2, <3>4, <3>5
  <2>5. \A a, b \in B : a = b
    BY <2>0, <2>b DEF Apart
  <2>6. \A a, b \in C : a = b
    BY <2>0, <2>c DEF Apart
  <2>7. (A = {} \/ B = {}) /\ (A = {} \/ C = {}) /\ (B = {} \/ C = {})
    <3>1. ASSUME NEW a \in A, NEW b \in B PROVE FALSE
      <4>1. PICK t \in Underway : <<"queue", t>> \in Spots
                                  /\ p \in Carried(<<"queue", t>>)
        BY <2>a
      <4>2. <<"queue", t>> # <<"machine", b>>
        OBVIOUS
      <4> QED BY <2>0, <2>b, <4>1, <4>2 DEF Apart
    <3>2. ASSUME NEW a \in A, NEW c \in C PROVE FALSE
      <4>1. PICK t \in Underway : <<"queue", t>> \in Spots
                                  /\ p \in Carried(<<"queue", t>>)
        BY <2>a
      <4>2. <<"queue", t>> # <<"clerk", c>>
        OBVIOUS
      <4> QED BY <2>0, <2>c, <4>1, <4>2 DEF Apart
    <3>3. ASSUME NEW b \in B, NEW c \in C PROVE FALSE
      <4>1. <<"machine", b>> # <<"clerk", c>>
        OBVIOUS
      <4> QED BY <2>0, <2>b, <2>c, <4>1 DEF Apart
    <3> QED BY <3>1, <3>2, <3>3
  <2> HIDE DEF A, B, C
  <2>8. /\ Cardinality(A) = IF A = {} THEN 0 ELSE 1
        /\ Cardinality(B) = IF B = {} THEN 0 ELSE 1
        /\ Cardinality(C) = IF C = {} THEN 0 ELSE 1
    BY <2>4, <2>5, <2>6, AtMostOne
  <2>9. InFlight(p) <= 1
    BY <2>1, <2>7, <2>8
  <2>10. ASSUME ~sig2[p], ~ipcRemoved, ~ignoredEintr
         PROVE  InFlight(p) = IF Waiting(p) THEN 1 ELSE 0
    <3>1. ASSUME Waiting(p) PROVE A # {} \/ B # {} \/ C # {}
      <4>1. PICK z \in Spots : p \in Carried(z)
        BY <2>0, <2>10, <3>1 DEF Answered
      <4>2. CASE \E t \in Underway : p \in Queued(t)
        BY <4>2, <2>3
      <4>3. CASE \E m \in Machines : p \in AtMachine(m)
        BY <4>3 DEF AtMachine, Asked, B
      <4>4. CASE \E w \in Workers : p \in AtClerk(w)
        BY <4>4 DEF AtClerk, Working, C
      <4> QED BY <4>1, <4>2, <4>3, <4>4, SpotCases
    <3>2. ASSUME ~Waiting(p) PROVE A = {} /\ B = {} /\ C = {}
      <4>1. \A z \in Spots : p \notin Carried(z)
        BY <2>0, <2>10, <3>2 DEF Owned
      <4> QED BY <2>a, <2>b, <2>c, <4>1
    <3> QED BY <2>1, <2>7, <2>8, <3>1, <3>2
  <2> QED BY <2>9, <2>10
<1> QED BY FlowInit, FlowStep, <1>1, PTL DEF Spec

-------------------------------------------------------------------------------
\* The letters themselves.
Letter(k) == {msgs[k][i] : i \in 1..Len(msgs[k])}

LEMMA SendLetter ==
  ASSUME NEW k \in MsgTypes, NEW t \in Tickets, Send(k, t), MsgsOK
  PROVE  /\ Letter(k)' = Letter(k) \cup {t}
         /\ \A j \in MsgTypes \ {k} : Letter(j)' = Letter(j)
<1>1. msgs' = [msgs EXCEPT ![k] = Append(@, t)] /\ msgs[k] \in Seq(Tickets)
  BY MsgsTyped DEF Send
<1>2. \A j \in MsgTypes \ {k} : Letter(j)' = Letter(j)
  BY <1>1 DEF MsgsOK, Letter
<1> DEFINE s == msgs[k]
           n == Len(s)
<1>3. s \in Seq(Tickets) /\ msgs'[k] = Append(s, t)
  BY <1>1 DEF MsgsOK
<1>4. /\ Len(msgs'[k]) = n + 1 /\ msgs'[k][n + 1] = t /\ n \in Nat
      /\ \A i \in 1..n : msgs'[k][i] = s[i]
  BY <1>3
<1>5. 1..(n + 1) = (1..n) \cup {n + 1}
  BY <1>4
<1>6. Letter(k)' = Letter(k) \cup {t}
  <2>1. ASSUME NEW u \in Letter(k)' PROVE u \in Letter(k) \cup {t}
    <3>1. PICK i \in 1..(n + 1) : u = msgs'[k][i]
      BY <1>4, <2>1 DEF Letter
    <3> QED BY <1>4, <1>5, <3>1 DEF Letter
  <2>2. t \in Letter(k)'
    BY <1>4, <1>5 DEF Letter
  <2>3. ASSUME NEW u \in Letter(k) PROVE u \in Letter(k)'
    <3>1. PICK i \in 1..n : u = s[i]
      BY <2>3 DEF Letter
    <3>2. i \in 1..(n + 1) /\ u = msgs'[k][i]
      BY <1>4, <1>5, <3>1
    <3> QED BY <1>4, <3>2 DEF Letter
  <2> QED BY <2>1, <2>2, <2>3
<1> QED BY <1>2, <1>6

LEMMA ReceiveLetter ==
  ASSUME NEW k \in MsgTypes, Receive(k), MsgsOK
  PROVE  /\ Head(msgs[k]) \in Letter(k)
         /\ Letter(k)' \subseteq Letter(k)
         /\ \A j \in MsgTypes \ {k} : Letter(j)' = Letter(j)
<1>1. /\ msgs' = [msgs EXCEPT ![k] = Tail(@)] /\ msgs[k] # <<>>
      /\ msgs[k] \in Seq(Tickets)
  BY MsgsTyped DEF Receive, Pending
<1>2. \A j \in MsgTypes \ {k} : Letter(j)' = Letter(j)
  BY <1>1 DEF MsgsOK, Letter
<1> DEFINE s == msgs[k]
<1>3. s \in Seq(Tickets) /\ s # <<>> /\ msgs'[k] = Tail(s)
  BY <1>1 DEF MsgsOK
<1>4. /\ Head(s) = s[1] /\ Len(s) \in Nat \ {0}
      /\ Len(Tail(s)) = Len(s) - 1
      /\ \A i \in 1..(Len(s) - 1) : Tail(s)[i] = s[i + 1]
  BY <1>3
<1>5. Head(s) \in Letter(k)
  BY <1>4 DEF Letter
<1>6. ASSUME NEW t \in Letter(k)' PROVE t \in Letter(k)
  <2>1. PICK i \in 1..(Len(s) - 1) : t = s[i + 1]
    BY <1>3, <1>4, <1>6 DEF Letter
  <2>2. i + 1 \in 1..Len(s)
    BY <1>4
  <2> QED BY <2>1, <2>2 DEF Letter
<1> QED BY <1>2, <1>5, <1>6

-------------------------------------------------------------------------------
\* What the director has been told, or will find in his part of the queue.
Reported == Queued(D_MSG_REJECTED) \cup {t.requester : t \in collected}

LEMMA KnownWhere ==
  ASSUME NEW q
  PROVE  RefusalKnown(q) <=> \/ q \in Reported
                             \/ \E m \in Machines : mpc[m] = "report"
                                                    /\ mtck[m].requester = q
                             \/ \E w \in Workers : wpc[w] = "report"
                                                   /\ wtck[w].requester = q
BY DEF RefusalKnown, Reported, Queued

\* A refusal once known stays so if whoever is about to report it goes on
\* being so or has reported it.
LEMMA KnownStays ==
  ASSUME Reported \subseteq Reported',
         \A m \in Machines : mpc[m] = "report" =>
           \/ mpc'[m] = "report" /\ mtck'[m] = mtck[m]
           \/ mtck[m].requester \in Reported',
         \A w \in Workers : wpc[w] = "report" =>
           \/ wpc'[w] = "report" /\ wtck'[w] = wtck[w]
           \/ wtck[w].requester \in Reported',
         NEW q, RefusalKnown(q)
  PROVE  RefusalKnown(q)'
<1>1. RefusalKnown(q)' <=> \/ q \in Reported'
                           \/ \E m \in Machines : mpc'[m] = "report"
                                                  /\ mtck'[m].requester = q
                           \/ \E w \in Workers : wpc'[w] = "report"
                                                 /\ wtck'[w].requester = q
  BY DEF RefusalKnown, Reported, Queued
<1> QED BY <1>1, KnownWhere

RefusedIn(p) == \E t \in Letter(p) : t.ticketid = -1

\* Who is refused, or is going to read it, is known to the director; a clerk
\* that closes reports first and answers then; the refusal a clerk is about to
\* report is that of the petent it has answered.
Told ==
  ~ignoredEintr =>
    /\ \A p \in Petents : RefusedIn(p) \/ tck[p].ticketid = -1 => RefusalKnown(p)
    /\ \A w \in Workers : wpc[w] = "drainReply" => RefusalKnown(wtck[w].requester)

ReportsOwn ==
  \A w \in Workers : wpc[w] = "report" => wout[w].requester = wtck[w].requester

RefusalInv == RouteInv /\ Told /\ ReportsOwn

LEMMA SendRefused ==
  ASSUME NEW k \in MsgTypes, NEW t \in Tickets, Send(k, t), MsgsOK,
         NEW p \in Petents
  PROVE  RefusedIn(p)' => RefusedIn(p) \/ (k = p /\ t.ticketid = -1)
BY SendLetter, PetentTypesIn DEF RefusedIn

LEMMA ReceiveRefused ==
  ASSUME NEW k \in MsgTypes, Receive(k), MsgsOK, NEW p \in Petents
  PROVE  /\ RefusedIn(p)' => RefusedIn(p)
         /\ k = p /\ Head(msgs[p]).ticketid = -1 => RefusedIn(p)
BY ReceiveLetter, PetentTypesIn DEF RefusedIn

Early    == {"init", "configured", "arrive", "opened", "inOpened", "building",
             "entered"}
AtQueue  == {"queue", "send", "frustrated"}

\* The only letters of a petent: a request with its ticket, and its answer.
LEMMA PetentMail ==
  ASSUME NEW p \in Petents, PetentStep(p), RouteInv
  PROVE  \/ /\ UNCHANGED <<msgs, tck>>
            /\ pc'[p] \in Early => pc[p] \in Early
            /\ pc'[p] \in AskForOne => pc[p] \in AskForOne
            /\ pc'[p] \in AtQueue => pc[p] \in AtQueue
         \/ /\ UNCHANGED msgs
            /\ pc[p] = "entered" /\ pc'[p] = "tickets"
            /\ tck' = [tck EXCEPT ![p] = NewTicket(p)]
         \/ /\ Send(D_MSG_TICKET, tck[p]) /\ UNCHANGED tck
            /\ pc[p] = "sendTicket" /\ pc'[p] = "waitTicket"
         \/ /\ \E k \in WorkerMsgTypes : k = tck[p].queueid /\ Send(k, tck[p])
            /\ UNCHANGED tck /\ pc[p] = "send" /\ pc'[p] = "waitWorker"
         \/ /\ Receive(p) /\ Waiting(p)
            /\ tck' = [tck EXCEPT ![p] = Head(msgs[p])]
            /\ pc'[p] \notin Early \cup AskForOne
<1>m. pc \in [Petents -> PetentLabels]
  BY DEF RouteInv, TypeInv, CapacityInv
<1> USE DEF Goto, At
\* No letter: the petent goes from label h to label l.
<1>q. ASSUME UNCHANGED <<msgs, tck>>, NEW l, Goto(p, l),
             l \in Early => pc[p] \in Early,
             l \in AskForOne => pc[p] \in AskForOne,
             l \in AtQueue => pc[p] \in AtQueue
      PROVE  /\ UNCHANGED <<msgs, tck>>
             /\ pc'[p] \in Early => pc[p] \in Early
             /\ pc'[p] \in AskForOne => pc[p] \in AskForOne
             /\ pc'[p] \in AtQueue => pc[p] \in AtQueue
  BY <1>q, <1>m
<1> USE DEF Early, AskForOne, AtQueue
<1>1. CASE Register(p)       BY <1>1, <1>q DEF Register
<1>2. CASE PassConfigured(p) BY <1>2, <1>q DEF PassConfigured
<1>3. CASE Arrive(p)         BY <1>3, <1>q DEF Arrive
<1>4. CASE LockOpened(p)     BY <1>4, <1>q DEF LockOpened
<1>5. CASE UnlockOpened(p)   BY <1>5, <1>q DEF UnlockOpened
<1>6. CASE EnterBuilding(p)  BY <1>6, <1>q DEF EnterBuilding
<1>7. CASE Entered(p)
  <2>1. CASE Goto(p, "leave") /\ UNCHANGED tck
    BY <1>7, <2>1, <1>q DEF Entered
  <2>2. CASE Goto(p, "tickets") /\ tck' = [tck EXCEPT ![p] = NewTicket(p)]
    BY <1>7, <2>2, <1>m DEF Entered
  <2> QED BY <1>7, <2>1, <2>2 DEF Entered
<1>8. CASE LockTickets(p)    BY <1>8, <1>q DEF LockTickets
<1>9. CASE SendTicketRequest(p)
  BY <1>9, <1>m DEF SendTicketRequest
<1>10. CASE ReceiveTicket(p)
  BY <1>10, <1>m DEF ReceiveTicket, Waiting, NextVisit
<1>11. CASE LockQueue(p)     BY <1>11, <1>q DEF LockQueue
<1>12. CASE SendToWorker(p)
  <2>1. PetentRouted(pc[p], tck[p], p)
    BY DEF RouteInv, PetentsRouted
  <2>2. pc[p] = "send" /\ tck[p].queueid # -1 => tck[p].queueid \in WorkerMsgTypes
    BY <2>1 DEF PetentRouted
  <2>3. CASE Goto(p, "leaveQueue") /\ UNCHANGED msgs
    BY <1>12, <2>3, <1>q DEF SendToWorker
  <2>4. CASE /\ tck[p].queueid # -1 /\ Send(tck[p].queueid, tck[p])
             /\ Goto(p, "waitWorker")
    BY <1>12, <2>2, <2>4, <1>m DEF SendToWorker
  <2> QED BY <1>12, <2>3, <2>4 DEF SendToWorker
<1>13. CASE ReceiveFromWorker(p)
  BY <1>13, <1>m DEF ReceiveFromWorker, Waiting, NextVisit
<1>14. CASE WakeFrustrated(p)
  BY <1>14, <1>q DEF WakeFrustrated, NextVisit
<1>15. CASE LeaveBuilding(p)
  <2>1. PICK l \in {GiveLabel(pc[p]), AfterLeave(p, pc[p])} : Goto(p, l)
    BY <1>15 DEF LeaveBuilding
  <2>2. l \notin Early \cup AskForOne \cup AtQueue
    BY <1>15, <2>1 DEF LeaveBuilding, GiveLabel, AfterLeave, LeaveLabels
  <2> QED BY <1>15, <1>q, <2>1, <2>2 DEF LeaveBuilding
<1>16. CASE GivePlaces(p)
  <2>1. AfterLeave(p, pc[p]) \notin Early \cup AskForOne \cup AtQueue
    BY DEF AfterLeave
  <2> QED BY <1>16, <1>q, <2>1 DEF GivePlaces
<1>17. CASE FreeTickets(p)   BY <1>17, <1>q DEF FreeTickets
<1>18. CASE FreeQueue(p)     BY <1>18, <1>q DEF FreeQueue
<1>19. CASE ExitOnRemovedIpc(p) BY <1>19, <1>q DEF ExitOnRemovedIpc
<1> QED
  BY <1>1, <1>2, <1>3, <1>4, <1>5, <1>6, <1>7, <1>8, <1>9, <1>10, <1>11,
     <1>12, <1>13, <1>14, <1>15, <1>16, <1>17, <1>18, <1>19 DEF PetentStep

LEMMA PetentTold ==
  ASSUME NEW p \in Petents, PetentStep(p), RefusalInv
  PROVE  Told'
<1>t. RouteInv /\ Told /\ TypeInv /\ MsgsOK /\ tck \in [Petents -> Tickets]
  BY DEF RefusalInv, RouteInv, TypeInv, PetentsOK
<1>f. /\ ignoredEintr' = ignoredEintr /\ collected' = collected
      /\ mpc' = mpc /\ mtck' = mtck /\ wpc' = wpc /\ wtck' = wtck
  BY PetentFrame DEF machineVars, workerVars, directorVars
\* The letters of the director stay, and who was not refused is not.
<1> DEFINE Rest1 == /\ Queued(D_MSG_REJECTED)' = Queued(D_MSG_REJECTED)
                    /\ \A q \in Petents : RefusedIn(q)' \/ tck'[q].ticketid = -1
                         => RefusedIn(q) \/ tck[q].ticketid = -1
<1>0. D_MSG_REJECTED \in MsgTypes /\ D_MSG_REJECTED \notin Petents
  BY SetsAssumption DEF MsgTypes, D_MSG_REJECTED
<1>1. CASE UNCHANGED <<msgs, tck>>
  <2> Rest1 BY <1>1 DEF Queued, RefusedIn, Letter
  <2> QED BY <1>f, <1>t, KnownStays DEF Reported, Told
<1>2. CASE UNCHANGED msgs /\ tck' = [tck EXCEPT ![p] = NewTicket(p)]
  <2> Rest1 BY <1>2, <1>t DEF Queued, RefusedIn, Letter, NewTicket
  <2> QED BY <1>f, <1>t, KnownStays DEF Reported, Told
<1>3. CASE (\E k \in RequestTypes : Send(k, tck[p])) /\ UNCHANGED tck
  <2>1. PICK k \in RequestTypes : Send(k, tck[p])
    BY <1>3
  <2>2. k \in MsgTypes /\ k # D_MSG_REJECTED /\ k \notin Petents
    BY RequestTypesIn, RejectedNoRequest, PetentTypesIn
  <2>3. Queued(D_MSG_REJECTED)' = Queued(D_MSG_REJECTED)
    BY <1>0, <1>t, <2>1, <2>2, SendQueued
  <2>4. \A q \in Petents : RefusedIn(q)' => RefusedIn(q)
    BY <1>t, <2>1, <2>2, SendRefused
  <2> Rest1 BY <1>3, <2>3, <2>4
  <2> QED BY <1>f, <1>t, KnownStays DEF Reported, Told
<1>4. CASE Receive(p) /\ tck' = [tck EXCEPT ![p] = Head(msgs[p])]
  <2>1. p \in MsgTypes
    BY PetentTypesIn
  <2>2. Queued(D_MSG_REJECTED)' = Queued(D_MSG_REJECTED)
    BY <1>0, <1>4, <1>t, <2>1, ReceiveQueued
  <2>3. \A q \in Petents : RefusedIn(q)' => RefusedIn(q)
    BY <1>4, <1>t, <2>1, ReceiveRefused
  <2>4. Head(msgs[p]).ticketid = -1 => RefusedIn(p)
    BY <1>4, <1>t, <2>1, ReceiveRefused
  <2> Rest1 BY <1>4, <1>t, <2>2, <2>3, <2>4
  <2> QED BY <1>f, <1>t, KnownStays DEF Reported, Told
<1>5. /\ D_MSG_TICKET \in RequestTypes
      /\ \A k \in WorkerMsgTypes : k \in RequestTypes
  BY DEF RequestTypes
<1> QED BY <1>t, <1>1, <1>2, <1>3, <1>4, <1>5, PetentMail

\* A machine that refuses has its report ready before the answer is read.
LEMMA MachineTold ==
  ASSUME NEW m \in Machines, MachineStep(m), RefusalInv
  PROVE  Told'
<1>t. RouteInv /\ Told /\ TypeInv /\ MsgsOK
  BY DEF RefusalInv, RouteInv, TypeInv
<1>m. /\ mpc \in [Machines -> MachineLabels] /\ mtck \in [Machines -> Tickets]
      /\ mstatus \in [Machines -> {0, -1}]
  BY <1>t DEF TypeInv, LockInv, MachinesOK
<1>f. /\ ignoredEintr' = ignoredEintr /\ collected' = collected
      /\ tck' = tck /\ wpc' = wpc /\ wtck' = wtck
  BY MachineFrame DEF petentVars, workerVars, directorVars
<1>n. \A n \in Machines \ {m} : mpc'[n] = mpc[n] /\ mtck'[n] = mtck[n]
  BY <1>m DEF MachineStep, MachineLockOpened, MachineUnlockOpened, MachineCheck,
     MachinePoll, MachineServe, MachineReply, MachineReport, MachineLockCheck,
     MGoto
<1>0. D_MSG_REJECTED \in MsgTypes /\ D_MSG_REJECTED \notin Petents
  BY SetsAssumption DEF MsgTypes, D_MSG_REJECTED
<1>a. ASSUME Queued(D_MSG_REJECTED) \subseteq Queued(D_MSG_REJECTED)',
             mpc[m] = "report" => mtck[m].requester \in Queued(D_MSG_REJECTED)',
             \A q \in Petents :
               RefusedIn(q)' => RefusedIn(q) \/ RefusalKnown(q)'
      PROVE  Told'
  <2>1. \A n \in Machines : mpc[n] = "report" =>
           \/ mpc'[n] = "report" /\ mtck'[n] = mtck[n]
           \/ mtck[n].requester \in Reported'
    BY <1>a, <1>n DEF Reported
  <2>2. Reported \subseteq Reported'
    BY <1>a, <1>f DEF Reported
  <2>3. \A q : RefusalKnown(q) => RefusalKnown(q)'
    BY <1>f, <2>1, <2>2, KnownStays
  <2> QED BY <1>a, <1>f, <1>t, <2>3 DEF Told
<1>b. ASSUME UNCHANGED msgs, mpc[m] # "report" PROVE Told'
  BY <1>a, <1>b DEF Queued, RefusedIn, Letter
<1>4. CASE MachinePoll(m) /\ Receive(D_MSG_TICKET)
  <2>0. D_MSG_TICKET \in MsgTypes /\ D_MSG_TICKET # D_MSG_REJECTED
    BY RequestTypesIn, RejectedNoRequest DEF RequestTypes
  <2>1. Queued(D_MSG_REJECTED)' = Queued(D_MSG_REJECTED)
    BY <1>0, <1>4, <1>t, <2>0, ReceiveQueued
  <2>2. \A q \in Petents : RefusedIn(q)' => RefusedIn(q)
    BY <1>4, <1>t, <2>0, ReceiveRefused
  <2> QED BY <1>4, <1>a, <2>1, <2>2 DEF MachinePoll
<1>6. CASE MachineReply(m)
  <2> DEFINE u == MachineAnswer(mtck[m], mstatus[m])
  <2>1. mpc[m] = "reply" /\ Sound(mtck[m]) /\ Live(mtck[m])
    BY <1>6, <1>t DEF MachineReply, TypeInv, MachinesOK
  <2>2. PICK p \in Petents : p = mtck[m].requester
    BY <2>1 DEF Sound
  <2>3. u \in Tickets
    BY <2>1, MachineAnswerOK DEF Sound
  <2>4. u.ticketid = -1 => mstatus[m] = -1
    BY <1>m DEF MachineAnswer, Tickets
  <2>5. Send(p, u)
    BY <1>6, <2>2 DEF MachineReply
  <2>6. mstatus[m] = -1 => mpc'[m] = "report" /\ mtck'[m].requester = p
    BY <1>6, <1>m, <2>2 DEF MachineReply, MGoto
  <2>7. p \in MsgTypes /\ p # D_MSG_REJECTED
    BY <1>0, PetentTypesIn
  <2> HIDE DEF u
  <2>8. Queued(D_MSG_REJECTED)' = Queued(D_MSG_REJECTED)
    BY <1>0, <1>t, <2>3, <2>5, <2>7, SendQueued
  <2>9. mstatus[m] = -1 => RefusalKnown(p)'
    BY <2>6 DEF RefusalKnown
  <2>10. ASSUME NEW q \in Petents, RefusedIn(q)'
         PROVE  RefusedIn(q) \/ RefusalKnown(q)'
    <3>1. RefusedIn(q) \/ (p = q /\ u.ticketid = -1)
      BY <1>t, <2>3, <2>5, <2>7, <2>10, SendRefused
    <3> QED BY <2>4, <2>9, <3>1
  <2> QED BY <1>a, <2>1, <2>8, <2>10
<1>7. CASE MachineReport(m)
  <2> DEFINE t == [mtck[m] EXCEPT !.queueid = 1]
  <2>1. t \in Tickets /\ t.requester = mtck[m].requester
    BY <1>m DEF Tickets, D_MSG_TICKET
  <2>2. Send(D_MSG_REJECTED, t)
    BY <1>7 DEF MachineReport
  <2> HIDE DEF t
  <2>3. Queued(D_MSG_REJECTED)' = Queued(D_MSG_REJECTED) \cup {t.requester}
    BY <1>0, <1>t, <2>1, <2>2, SendQueued
  <2>4. \A q \in Petents : RefusedIn(q)' => RefusedIn(q)
    BY <1>0, <1>t, <2>1, <2>2, SendRefused
  <2> QED BY <1>a, <2>1, <2>3, <2>4
<1>8. \/ UNCHANGED msgs /\ mpc[m] # "report"
      \/ MachinePoll(m) /\ Receive(D_MSG_TICKET)
      \/ MachineReply(m) \/ MachineReport(m)
  BY DEF MachineStep, MachineLockOpened, MachineUnlockOpened, MachineCheck,
     MachinePoll, MachineServe, MachineLockCheck
<1> QED BY <1>b, <1>4, <1>6, <1>7, <1>8

\* So has a clerk that sends somebody away; one that closes reports first.
LEMMA WorkerTold ==
  ASSUME NEW w \in Workers, WorkerStep(w), RefusalInv
  PROVE  Told' /\ ReportsOwn'
<1>t. /\ RouteInv /\ Told /\ TypeInv /\ MsgsOK /\ ReportsOwn
      /\ WorkerRouted(wpc[w], wtck[w], wout[w], w)
  BY DEF RefusalInv, RouteInv, TypeInv, WorkersRouted
<1>m. /\ wpc \in [Workers -> WorkerLabels]
      /\ wtck \in [Workers -> Tickets] /\ wout \in [Workers -> Tickets]
  BY <1>t DEF TypeInv, ShutInv, WorkersOK
<1>h. wpc[w] \in Holding => wtck[w].requester \in Petents
  BY <1>t DEF TypeInv, WorkersOK, Sound
<1>f. /\ ignoredEintr' = ignoredEintr /\ collected' = collected
      /\ tck' = tck /\ mpc' = mpc /\ mtck' = mtck
  BY WorkerFrame DEF petentVars, machineVars, directorVars
<1>n. \A v \in Workers \ {w} :
        wpc'[v] = wpc[v] /\ wtck'[v] = wtck[v] /\ wout'[v] = wout[v]
  BY <1>m DEF WorkerStep, WorkerLockOpened, WorkerUnlockOpened, WorkerCheck,
     WorkerPoll, Take, WorkerServe, Redirect, RequirePayment, TakePayment,
     Settle, WorkerNumber, WorkerReply, WorkerReport,
     WorkerLockCheck, WorkerDrainReport, WorkerDrainReply, WGoto, EmptyHand
<1>0. D_MSG_REJECTED \in MsgTypes /\ D_MSG_REJECTED \notin Petents
  BY SetsAssumption DEF MsgTypes, D_MSG_REJECTED
<1>a. ASSUME Queued(D_MSG_REJECTED) \subseteq Queued(D_MSG_REJECTED)',
             wpc[w] = "report" => wtck[w].requester \in Queued(D_MSG_REJECTED)',
             wpc'[w] = "drainReply" =>
               wtck'[w].requester \in Queued(D_MSG_REJECTED)',
             \A q \in Petents :
               RefusedIn(q)' => RefusedIn(q) \/ RefusalKnown(q)
                                  \/ ignoredEintr \/ RefusalKnown(q)',
             wpc'[w] = "report" => wout'[w].requester = wtck'[w].requester
      PROVE  Told' /\ ReportsOwn'
  <2>1. \A v \in Workers : wpc[v] = "report" =>
           \/ wpc'[v] = "report" /\ wtck'[v] = wtck[v]
           \/ wtck[v].requester \in Reported'
    BY <1>a, <1>n DEF Reported
  <2>2. Reported \subseteq Reported'
    BY <1>a, <1>f DEF Reported
  <2>3. \A q : RefusalKnown(q) => RefusalKnown(q)'
    BY <1>f, <2>1, <2>2, KnownStays
  <2>4. wpc'[w] = "drainReply" => RefusalKnown(wtck[w].requester)'
    BY <1>a DEF RefusalKnown, Queued
  <2>5. \A v \in Workers : ~ignoredEintr' /\ wpc'[v] = "drainReply"
                             => RefusalKnown(wtck[v].requester)'
    BY <1>f, <1>n, <1>t, <2>3, <2>4 DEF Told
  <2>6. Told'
    BY <1>a, <1>f, <1>t, <2>3, <2>5 DEF Told
  <2>7. ReportsOwn'
    BY <1>a, <1>n, <1>t DEF ReportsOwn
  <2> QED BY <2>6, <2>7
<1>b. ASSUME UNCHANGED msgs, wpc[w] # "report", NEW l, WGoto(w, l),
             l \notin {"drainReply", "report"}
      PROVE  Told' /\ ReportsOwn'
  BY <1>a, <1>b, <1>m DEF Queued, RefusedIn, Letter, WGoto
<1>1. CASE WorkerPoll(w)
  <2>1. PICK k \in {PriorityType(w), NormalType(w)}, vip \in BOOLEAN,
             l \in {"serve", "drainReport"},
             empty \in {"poll", "check", "drain", "done"} :
          Take(w, k, vip, l, empty)
    BY <1>1 DEF WorkerPoll
  <2>2. wpc[w] # "report"
    BY <1>1 DEF WorkerPoll
  <2>3. k \in MsgTypes /\ k # D_MSG_REJECTED
    <3>1. k \in RequestTypes
      BY WorkerQueue DEF RequestTypes
    <3> QED BY <3>1, RequestTypesIn, RejectedNoRequest
  <2>4. CASE WGoto(w, empty) /\ UNCHANGED msgs
    BY <2>2, <2>4, <1>b
  <2>5. CASE Receive(k) /\ WGoto(w, l)
    <3>1. Queued(D_MSG_REJECTED)' = Queued(D_MSG_REJECTED)
      BY <1>0, <1>t, <2>3, <2>5, ReceiveQueued
    <3>2. \A q \in Petents : RefusedIn(q)' => RefusedIn(q)
      BY <1>t, <2>3, <2>5, ReceiveRefused
    <3>3. wpc'[w] = l
      BY <2>5, <1>m DEF WGoto
    <3> QED BY <1>a, <2>2, <3>1, <3>2, <3>3
  <2> QED BY <2>1, <2>4, <2>5 DEF Take
<1>2. CASE WorkerServe(w)
  <2>1. PICK l \in {"reply", "number"} : WGoto(w, l)
    BY <1>2 DEF WorkerServe
  <2> QED BY <1>2, <2>1, <1>b DEF WorkerServe
<1>3. CASE WorkerCheck(w)
  <2>1. PICK l \in {"drainPrio", "pollPrio"} : WGoto(w, l)
    BY <1>3 DEF WorkerCheck
  <2> QED BY <1>3, <2>1, <1>b DEF WorkerCheck
<1>4. CASE WorkerReply(w)
  <2>1. /\ wpc[w] = "reply" /\ wout[w] \in Tickets
        /\ wout[w].requester = wtck[w].requester
    BY <1>4, <1>m, <1>t DEF WorkerReply, WorkerRouted
  <2>2. PICK p \in Petents : p = wtck[w].requester
    BY <1>h, <2>1 DEF Holding
  <2>3. Send(p, wout[w]) /\ wtck' = wtck /\ wout' = wout
    BY <1>4, <2>1, <2>2 DEF WorkerReply
  <2>4. wpc'[w] = AfterReply(w)
    BY <1>4, <1>m DEF WorkerReply, WGoto
  <2>5. p \in MsgTypes /\ p # D_MSG_REJECTED
    BY <1>0, PetentTypesIn
  <2>6. Queued(D_MSG_REJECTED)' = Queued(D_MSG_REJECTED)
    BY <1>0, <1>t, <2>1, <2>3, <2>5, SendQueued
  <2>7. wout[w].ticketid = -1 => RefusalKnown(p)'
    BY <2>2, <2>3, <2>4 DEF AfterReply, RefusalKnown
  <2>8. ASSUME NEW q \in Petents, RefusedIn(q)'
        PROVE  RefusedIn(q) \/ RefusalKnown(q)'
    <3>1. RefusedIn(q) \/ (p = q /\ wout[w].ticketid = -1)
      BY <1>t, <2>1, <2>3, <2>5, <2>8, SendRefused
    <3> QED BY <2>7, <3>1
  <2> QED BY <1>a, <2>1, <2>3, <2>4, <2>6, <2>8 DEF AfterReply
\* A letter to the director.
<1>d. ASSUME NEW t \in Tickets, Send(D_MSG_REJECTED, t), wtck' = wtck,
             wout' = wout, t.requester = wtck[w].requester, NEW l, WGoto(w, l),
             l # "report"
      PROVE  Told' /\ ReportsOwn'
  <2>1. Queued(D_MSG_REJECTED)' = Queued(D_MSG_REJECTED) \cup {t.requester}
    BY <1>0, <1>d, <1>t, SendQueued
  <2>2. \A q \in Petents : RefusedIn(q)' => RefusedIn(q)
    BY <1>0, <1>d, <1>t, SendRefused
  <2>3. wpc'[w] = l
    BY <1>d, <1>m DEF WGoto
  <2> QED BY <1>a, <1>d, <2>1, <2>2, <2>3
<1>5. CASE WorkerReport(w)
  <2>1. wout[w].requester = wtck[w].requester
    BY <1>5, <1>t DEF WorkerReport, ReportsOwn
  <2>2. Refusal(w) \in Tickets /\ Refusal(w).requester = wout[w].requester
    <3>1. WorkerType[w] \in Faculties \cup {CASHIER_POINT}
      BY TypeRange
    <3>2. wtck[w] \in Tickets /\ wout[w] \in Tickets
      BY <1>m
    <3> QED BY <3>1, <3>2 DEF Refusal, Tickets
  <2> QED BY <1>5, <1>d, <2>1, <2>2 DEF WorkerReport
<1>6. CASE WorkerDrainReport(w)
  <2> DEFINE t == [wtck[w] EXCEPT !.queueid = WorkerType[w]]
  <2>1. t \in Tickets /\ t.requester = wtck[w].requester
    <3>1. WorkerType[w] \in Faculties \cup {CASHIER_POINT}
      BY TypeRange
    <3>2. wtck[w] \in Tickets
      BY <1>m
    <3> QED BY <3>1, <3>2 DEF Tickets
  <2> QED BY <1>6, <1>d, <2>1 DEF WorkerDrainReport
<1>7. CASE WorkerDrainReply(w)
  <2> DEFINE t == [wtck[w] EXCEPT !.ticketid = -1, !.queueid = -1]
  <2>0. wpc[w] = "drainReply" /\ wtck[w] \in Tickets
    BY <1>7, <1>m DEF WorkerDrainReply
  <2>1. t \in Tickets
    BY <2>0 DEF Tickets
  <2>2. PICK p \in Petents : p = wtck[w].requester
    BY <1>h, <2>0 DEF Holding
  <2>3. Send(p, t)
    BY <1>7, <2>2 DEF WorkerDrainReply
  <2>4. p \in MsgTypes /\ p # D_MSG_REJECTED
    BY <1>0, PetentTypesIn
  <2> HIDE DEF t
  <2>5. Queued(D_MSG_REJECTED)' = Queued(D_MSG_REJECTED)
    BY <1>0, <1>t, <2>1, <2>3, <2>4, SendQueued
  <2>6. RefusalKnown(p) \/ ignoredEintr
    BY <1>t, <2>0, <2>2 DEF Told
  <2>7. \A q \in Petents : RefusedIn(q)' => RefusedIn(q) \/ q = p
    BY <1>t, <2>1, <2>3, <2>4, SendRefused
  <2>8. wpc'[w] \in {"drain", "drainPrio"}
    BY <1>7, <1>m DEF WorkerDrainReply, WGoto, DrainLoop
  <2> QED BY <1>a, <2>0, <2>5, <2>6, <2>7, <2>8
<1>8. \/ \E l \in {"inOpened", "check", "reply"} :
           UNCHANGED msgs /\ wpc[w] # "report" /\ WGoto(w, l)
      \/ WorkerPoll(w) \/ WorkerServe(w) \/ WorkerCheck(w) \/ WorkerReply(w)
      \/ WorkerReport(w) \/ WorkerDrainReport(w) \/ WorkerDrainReply(w)
  BY DEF WorkerStep, WorkerLockOpened, WorkerUnlockOpened, WorkerNumber,
     WorkerLockCheck
<1> QED BY <1>b, <1>1, <1>2, <1>3, <1>4, <1>5, <1>6, <1>7, <1>8

LEMMA DirectorTold ==
  ASSUME DirectorStep, RefusalInv
  PROVE  Told' /\ ReportsOwn'
<1>t. RouteInv /\ Told /\ ReportsOwn
  BY DEF RefusalInv
<1>f. /\ UNCHANGED <<msgs, tck, mpc, mtck, wtck, wout, collected>>
      /\ ~ignoredEintr' => ~ignoredEintr
  BY DirectorFrame DEF machineVars
<1>r. \A w \in Workers : WorkerRouted(wpc[w], wtck[w], wout[w], w)
  BY <1>t DEF RouteInv, WorkersRouted
<1>1. \A w \in Workers :
        /\ ~ignoredEintr' => wpc'[w] = wpc[w]
        /\ wpc'[w] = "report" => wpc[w] \in {"reply", "report"}
  <2>1. ASSUME NEW S, Signal1(S), NEW w \in Workers
        PROVE  /\ ~ignoredEintr' => wpc'[w] = wpc[w]
               /\ wpc'[w] = "report" => wpc[w] \in {"reply", "report"}
    <3>1. /\ wpc'[w] \in {wpc[w], AfterFailure(w)}
          /\ ~ignoredEintr' => wpc'[w] = wpc[w]
      BY <2>1 DEF Signal1
    <3>2. AfterFailure(w) = "report" => wpc[w] \in {"reply", "report"}
      BY DEF AfterFailure, AfterReply, DrainLoop
    <3> QED BY <3>1, <3>2
  <2>2. UNCHANGED wpc \/ \E S : Signal1(S)
    BY DEF DirectorStep, Configure, OpenOffice, SetOpened, SetBuilding, TimeUp,
       Event1, Event2, SendSignal1, Evacuate, CloseOpened, CloseFlag,
       CloseBuilding, WriteReport, StopThread, JoinThread, KillRemaining,
       unsignalled
  <2> QED BY <2>1, <2>2
<1>2. ReportsOwn'
  BY <1>f, <1>r, <1>t, <1>1 DEF ReportsOwn, WorkerRouted
<1>3. ASSUME ~ignoredEintr', NEW q, RefusalKnown(q) PROVE RefusalKnown(q)'
  BY <1>f, <1>1, <1>3 DEF RefusalKnown
<1>4. Told'
  BY <1>f, <1>t, <1>1, <1>3 DEF Told, RefusedIn, Letter
<1> QED BY <1>2, <1>4

LEMMA RefusalInit == Init => RefusalInv
<1> SUFFICES ASSUME Init PROVE RefusalInv
  OBVIOUS
<1>1. \A p \in Petents : ~RefusedIn(p) /\ tck[p].ticketid # -1
  BY PetentTypesIn DEF Init, RefusedIn, Letter, NoTicket
<1>2. Told /\ ReportsOwn
  BY <1>1 DEF Init, Told, ReportsOwn
<1> QED BY <1>2, RouteInit DEF RefusalInv

LEMMA RefusalStep == RefusalInv /\ [Next]_vars => RefusalInv'
<1> SUFFICES ASSUME RefusalInv, [Next]_vars PROVE RefusalInv'
  OBVIOUS
<1>0. RouteInv /\ RouteInv' /\ Told /\ ReportsOwn /\ MsgsOK
  BY RouteStep DEF RefusalInv, RouteInv, TypeInv
<1>w. UNCHANGED <<wpc, wtck, wout>> => ReportsOwn'
  BY <1>0 DEF ReportsOwn
<1>1. ASSUME NEW p \in Petents, PetentStep(p) PROVE RefusalInv'
  BY <1>0, <1>1, <1>w, PetentTold, PetentFrame DEF RefusalInv, workerVars
<1>2. ASSUME NEW m \in Machines, MachineStep(m) PROVE RefusalInv'
  BY <1>0, <1>2, <1>w, MachineTold, MachineFrame DEF RefusalInv, workerVars
<1>3. ASSUME NEW w \in Workers, WorkerStep(w) PROVE RefusalInv'
  BY <1>0, <1>3, WorkerTold DEF RefusalInv
<1>4. CASE DirectorStep
  BY <1>0, <1>4, DirectorTold DEF RefusalInv
<1>5. CASE ThreadReceive
  <2>0. D_MSG_REJECTED \in MsgTypes
    BY DEF MsgTypes
  <2>1. Reported \subseteq Reported'
    BY <1>0, <1>5, <2>0, ReceiveQueued DEF ThreadReceive, Reported
  <2>2. \A q \in Petents : RefusedIn(q)' => RefusedIn(q)
    BY <1>0, <1>5, <2>0, ReceiveRefused DEF ThreadReceive
  <2>3. UNCHANGED <<petentVars, machineVars, workerVars, ignoredEintr>>
    BY <1>5 DEF ThreadReceive, semVars, lockVars
  <2>4. \A q : RefusalKnown(q) => RefusalKnown(q)'
    BY <2>1, <2>3, KnownStays DEF machineVars, workerVars
  <2>5. Told'
    BY <1>0, <2>2, <2>3, <2>4 DEF Told, petentVars, workerVars
  <2> QED BY <1>0, <1>w, <2>3, <2>5 DEF RefusalInv, workerVars
<1>6. CASE UNCHANGED <<msgs, petentVars, machineVars, workerVars, collected,
                       ignoredEintr>>
  BY <1>0, <1>6 DEF RefusalInv, Told, ReportsOwn, RefusalKnown, RefusedIn, Letter,
     petentVars, machineVars, workerVars
<1>7. CASE ThreadStop \/ RemoveIpc \/ UNCHANGED vars
  BY <1>6, <1>7 DEF ThreadStop, RemoveIpc, vars, semVars, lockVars, directorVars
<1> QED
  BY <1>1, <1>2, <1>3, <1>4, <1>5, <1>7 DEF Next, Rest, ThreadStep

\* Whoever was refused a ticket, a redirection or its turn at closing time is
\* made known to the director, whichever of the machine, the clerk and the
\* thread of the director is scheduled first, unless signal 1 has interrupted a
\* clerk in a send.
THEOREM Refusals == Spec => []RefusalsReach
<1>1. RefusalInv => RefusalsReach
  BY DEF RefusalInv, Told, RefusalsReach
<1> QED BY RefusalInit, RefusalStep, <1>1, PTL DEF Spec
===============================================================================
