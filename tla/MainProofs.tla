------------------------------ MODULE MainProofs ------------------------------
(***************************************************************************)
(* Theorems about main: the hours and limits it and the director set, for  *)
(* every moment, offset and number of petents; and what its ways out leave *)
(* behind, for every number of children and size of the logger's queue.    *)
(***************************************************************************)
EXTENDS Main, TLAPS

-------------------------------------------------------------------------------
(* The settings *)

\* The daily limits of alloc_res: for any PETENT_COUNT the limits are natural
\* and the second counter of SA is above 0, as LimitsAssumption of StanUrzedu
\* asks for. The two counters of SA together take everyone (README.md:11 gives
\* SA about 60 %).
THEOREM LimitsForAll ==
  ASSUME NEW count \in Nat \ {0}
  PROVE  /\ DeskLimit(count) \in Nat
         /\ SaLimit(count)[1] \in Nat
         /\ SaLimit(count)[2] \in Nat \ {0}
         /\ SaLimit(count)[1] + SaLimit(count)[2] = count
  BY SMTT(30) DEF DeskLimit, SaLimit, SaShare

\* Days more or less show the same time on the clock.
LEMMA SameClock ==
  ASSUME NEW t \in Int, NEW k \in Int
  PROVE  (t + DAY * k) % DAY = t % DAY
  BY SMTT(30) DEF DAY

\* The loop ends at the first such time from now on.
LEMMA NotBeforeIs ==
  ASSUME NEW t \in Int, NEW now \in Int
  PROVE  /\ \E k \in Int : NotBefore(t, now) = t + DAY * k
         /\ NotBefore(t, now) \in Int
         /\ NotBefore(t, now) >= now
         /\ t < now + DAY => NotBefore(t, now) < now + DAY
<1>1. CASE t >= now
  <2>1. NotBefore(t, now) = t + DAY * 0
    BY <1>1 DEF NotBefore, DAY
  <2> QED BY <1>1, <2>1 DEF DAY
<1>2. CASE ~(t >= now)
  <2> DEFINE k == (now - t + DAY - 1) \div DAY
  <2>1. k \in Int /\ NotBefore(t, now) = t + DAY * k
    BY <1>2 DEF NotBefore, DAY
  <2>2. DAY * k >= now - t /\ DAY * k < now - t + DAY
    BY SMTT(30) DEF DAY
  <2> HIDE DEF k
  <2> QED BY <2>1, <2>2 DEF DAY
<1> QED BY <1>1, <1>2

\* An hour of the day as set: the local clock shows it, and it is the next such
\* moment, or that of the local tomorrow where the local date is behind.
LEMMA AtMinuteIs ==
  ASSUME NEW now \in Nat, NEW gmtoff \in Int,
         -(12 * 60 * 60) <= gmtoff, gmtoff <= 14 * 60 * 60,
         NEW m \in Nat, m < 24 * 60
  PROVE  /\ AtMinute(m, now, gmtoff) \in Int
         /\ now <= AtMinute(m, now, gmtoff)
         /\ (AtMinute(m, now, gmtoff) + gmtoff) % DAY = m * 60
         /\ ~LocalDateBehind(now, gmtoff) => AtMinute(m, now, gmtoff) < now + DAY
         /\ LocalDateBehind(now, gmtoff) =>
              AtMinute(m, now, gmtoff) + gmtoff = DAY * (now \div DAY) + m * 60
<1> DEFINE t == Midnight(now) + (m % (24 * 60)) * 60 - gmtoff
<1>1. t \in Int /\ t = DAY * (now \div DAY) + m * 60 - gmtoff
  BY SMTT(30) DEF Midnight, DAY
<1>2. ~LocalDateBehind(now, gmtoff) => t < now + DAY
  BY <1>1, SMTT(30) DEF DAY, LocalDateBehind
<1>8. LocalDateBehind(now, gmtoff) => t >= now
  BY <1>1, SMTT(30) DEF DAY, LocalDateBehind
<1>3. AtMinute(m, now, gmtoff) = NotBefore(t, now)
  BY DEF AtMinute
<1> HIDE DEF t
<1>4. PICK k \in Int : NotBefore(t, now) = t + DAY * k
  BY <1>1, NotBeforeIs
<1>5. NotBefore(t, now) + gmtoff = m * 60 + DAY * (now \div DAY + k)
  BY <1>1, <1>4, SMTT(30) DEF DAY
<1>6. (m * 60 + DAY * (now \div DAY + k)) % DAY = (m * 60) % DAY
  BY SameClock, now \div DAY + k \in Int DEF DAY
<1>7. (m * 60) % DAY = m * 60
  BY SMTT(30) DEF DAY
<1>9. LocalDateBehind(now, gmtoff) =>
        NotBefore(t, now) + gmtoff = DAY * (now \div DAY) + m * 60
  <2>1. SUFFICES ASSUME t >= now
                 PROVE  NotBefore(t, now) + gmtoff = DAY * (now \div DAY) + m * 60
    BY <1>8
  <2>2. NotBefore(t, now) = t
    BY <2>1 DEF NotBefore
  <2> QED BY <1>1, <2>2, SMTT(30) DEF DAY
<1> QED BY <1>1, <1>2, <1>3, <1>5, <1>6, <1>7, <1>9, NotBeforeIs

\* wygeneruj_stan_urzedu turns an hour of the day into the next moment at which
\* the local clock shows it, or into that of the local tomorrow where the local
\* date is behind that of UTC.
THEOREM Hours == Spec => []HoursAsSet
<1>1. HoursAsSet
  <2> SUFFICES ASSUME NEW now \in Moments, NEW gmtoff \in Offsets, NEW m \in Minutes
               PROVE  LET t == AtMinute(m, now, gmtoff)
                      IN  /\ now <= t /\ (t + gmtoff) % DAY = m * 60
                          /\ IF LocalDateBehind(now, gmtoff)
                               THEN LocalDate(t, gmtoff) = LocalDate(now, gmtoff) + 1
                               ELSE t < now + DAY
    BY DEF HoursAsSet
  <2> DEFINE t == AtMinute(m, now, gmtoff)
  <2>1. /\ now \in Nat /\ m \in Nat /\ m < 24 * 60 /\ gmtoff \in Int
        /\ -(12 * 60 * 60) <= gmtoff /\ gmtoff <= 14 * 60 * 60
    BY ClockAssumption
  <2>2. /\ t \in Int /\ now <= t /\ (t + gmtoff) % DAY = m * 60
        /\ ~LocalDateBehind(now, gmtoff) => t < now + DAY
        /\ LocalDateBehind(now, gmtoff) => t + gmtoff = DAY * (now \div DAY) + m * 60
    BY <2>1, AtMinuteIs
  <2> HIDE DEF t
  <2>3. ASSUME LocalDateBehind(now, gmtoff)
        PROVE  LocalDate(t, gmtoff) = LocalDate(now, gmtoff) + 1
    <3>1. (DAY * (now \div DAY) + m * 60) \div DAY = now \div DAY
      BY <2>1, SMTT(30) DEF DAY
    <3>2. (now + gmtoff) \div DAY = (now \div DAY) - 1
      BY <2>1, <2>3, SMTT(30) DEF DAY, LocalDateBehind
    <3>3. now \div DAY \in Int
      BY <2>1 DEF DAY
    <3> QED BY <2>2, <2>3, <3>1, <3>2, <3>3 DEF LocalDate
  <2>4. /\ now <= t /\ (t + gmtoff) % DAY = m * 60
        /\ IF LocalDateBehind(now, gmtoff)
             THEN LocalDate(t, gmtoff) = LocalDate(now, gmtoff) + 1
             ELSE t < now + DAY
    BY <2>2, <2>3
  <2> QED BY <2>4 DEF t
<1> QED BY <1>1, PTL

\* With both hours set, and main not started between them or where the local date
\* is behind, the office is open as long as they say, and every petent comes
\* within that time.
THEOREM Arriving == Spec => []ArrivesInHours
<1> SUFFICES ASSUME NEW now \in Moments, NEW gmtoff \in Offsets,
                    NEW open \in Minutes, NEW close \in Minutes, NEW draw \in Draws,
                    open < close,
                    \/ LocalDateBehind(now, gmtoff)
                    \/ (now + gmtoff) % DAY \notin (open * 60 + 1)..(close * 60)
             PROVE  LET o == TimeOpen(open, now, gmtoff)
                        c == TimeClose(open, close, now, gmtoff)
                    IN  /\ c - o = (close - open) * 60
                        /\ Arrival(o, c, draw) \in o..(c - 1)
  <2>1. ArrivesInHours
    BY DEF ArrivesInHours
  <2> QED BY <2>1, PTL
<1> DEFINE o == TimeOpen(open, now, gmtoff)
           c == TimeClose(open, close, now, gmtoff)
<1>1. /\ now \in Nat /\ draw \in Nat /\ gmtoff \in Int
      /\ -(12 * 60 * 60) <= gmtoff /\ gmtoff <= 14 * 60 * 60
      /\ open \in Nat /\ open < 24 * 60 /\ close \in Nat /\ close < 24 * 60
  BY ClockAssumption
<1>2. o = AtMinute(open, now, gmtoff) /\ c = AtMinute(close, now, gmtoff)
  BY <1>1 DEF TimeOpen, TimeClose, BuiltIn
<1> HIDE DEF o, c
<1>8. ASSUME NEW m \in Nat, m < 24 * 60, NEW t, t = AtMinute(m, now, gmtoff)
      PROVE  /\ t \in Int /\ now <= t /\ (t + gmtoff) % DAY = m * 60
             /\ ~LocalDateBehind(now, gmtoff) => t < now + DAY
             /\ LocalDateBehind(now, gmtoff) => t + gmtoff = DAY * (now \div DAY) + m * 60
  <2>1. /\ AtMinute(m, now, gmtoff) \in Int
        /\ now <= AtMinute(m, now, gmtoff)
        /\ (AtMinute(m, now, gmtoff) + gmtoff) % DAY = m * 60
        /\ ~LocalDateBehind(now, gmtoff) => AtMinute(m, now, gmtoff) < now + DAY
        /\ LocalDateBehind(now, gmtoff) =>
             AtMinute(m, now, gmtoff) + gmtoff = DAY * (now \div DAY) + m * 60
    BY <1>1, <1>8, AtMinuteIs
  <2> QED BY <1>8, <2>1
<1>3. /\ o \in Int /\ now <= o /\ (o + gmtoff) % DAY = open * 60
      /\ ~LocalDateBehind(now, gmtoff) => o < now + DAY
      /\ LocalDateBehind(now, gmtoff) => o + gmtoff = DAY * (now \div DAY) + open * 60
  BY <1>1, <1>2, <1>8
<1>4. /\ c \in Int /\ now <= c /\ (c + gmtoff) % DAY = close * 60
      /\ ~LocalDateBehind(now, gmtoff) => c < now + DAY
      /\ LocalDateBehind(now, gmtoff) => c + gmtoff = DAY * (now \div DAY) + close * 60
  BY <1>1, <1>2, <1>8
<1>5. c - o = (close - open) * 60
  <2>1. CASE LocalDateBehind(now, gmtoff)
    BY <1>1, <1>3, <1>4, <2>1, now \div DAY \in Int DEF DAY
  <2>2. CASE ~LocalDateBehind(now, gmtoff)
    <3>1. (now + gmtoff) % DAY \notin (open * 60 + 1)..(close * 60)
      BY <2>2
    <3>2. o < now + DAY /\ c < now + DAY
      BY <1>3, <1>4, <2>2
    <3> QED BY <1>1, <1>3, <1>4, <3>1, <3>2, SMTT(60) DEF DAY
  <2> QED BY <2>1, <2>2
<1>6. draw % (c - o) \in 0..(c - o - 1)
  BY <1>1, <1>3, <1>4, <1>5
<1>7. /\ c - o = (close - open) * 60
      /\ Arrival(o, c, draw) \in o..(c - 1)
  BY <1>3, <1>4, <1>5, <1>6 DEF Arrival
<1> QED BY <1>7 DEF o, c

-------------------------------------------------------------------------------
(* What main leaves behind *)

Early    == {"mkdir", "logQueue", "latest", "history", "thread"}
AfterMsg == {"stop", "join", "close", "exit", "exited"}

\* The labels at which free_res is through with the object.
Through == [o \in Ipc |->
              CASE o = "sem" -> {"freeShm", "freeMsg"} \cup AfterMsg
                [] o = "shm" -> {"freeMsg"} \cup AfterMsg
                [] OTHER     -> AfterMsg]

\* The labels at which alloc_res has yet to come to the object.
NotYet == [o \in Ipc |->
             Early \cup CASE o = "sem" -> {"sem"}
                          [] o = "shm" -> {"sem", "shm"}
                          [] OTHER     -> {"sem", "shm", "fill", "msg"}]

Running == thread \in {"receive", "write"}

\* An object that exists has its id in res and is still to be freed; before the
\* thread runs and after the files are closed nothing is open, and the thread
\* that was joined does not run.
MainInv ==
  /\ kernel \subseteq Objects /\ files \subseteq LogFiles
  /\ ids \in [Ipc -> FieldValues]
  /\ \A o \in Ipc : o \in kernel => ids[o] \in {"set", "zero"} /\ pc \notin Through[o]
  /\ \A o \in Ipc : pc \in NotYet[o] => ids[o] = "unset"
  /\ pc \in Early => thread = "none"
  /\ pc = "mkdir" => kernel = {} /\ files = {}
  /\ pc = "history" => "latest" \in files
  /\ pc = "thread" => files = LogFiles
  /\ pc \in {"exit", "exited"} => "logq" \notin kernel /\ files = {}
  /\ pc = "close" /\ ~joining => ~Running
  /\ joining => handler
  /\ FilesOutliveThread

LEMMA MainInvInit == Init => MainInv
  BY DEF Init, MainInv, Through, NotYet, Early, Ipc, FieldValues, Objects, LogFiles,
     FilesOutliveThread, Running

\* Log and Removed never bring anything into being.
LEMMA LogOnly ==
  ASSUME Log
  PROVE  UNCHANGED <<files, thread, stop>>
  BY DEF Log

\* free_res, whoever calls it: nothing appears, and the object is gone if its
\* id was known.
LEMMA FreeDoes ==
  ASSUME NEW o \in Ipc, Free(o)
  PROVE  /\ kernel' \subseteq kernel
         /\ UNCHANGED <<files, thread, stop>>
         /\ ids[o] \in {"set", "zero"} => o \notin kernel'
  BY DEF Free, Removed, Log, loggerVars

\* A child takes objects away and does nothing else that main sees.
LEMMA KidOnly ==
  ASSUME NEW k \in Kids, KidStep(k)
  PROVE  /\ kernel' \subseteq kernel
         /\ UNCHANGED <<files, thread, stop, pc, ids, res, handler, joining, told>>
<1>1. CASE KidExec(k) \/ KidConfigures \/ KidEnds(k)
  BY <1>1 DEF KidExec, KidConfigures, KidEnds, KidGoto, Log, loggerVars
<1>2. CASE KidFrees(k)
  BY <1>2, FreeDoes DEF KidFrees, KidGoto, Ipc
<1>3. CASE KidDestroys(k)
  BY <1>3 DEF KidDestroys, KidGoto, Removed
<1> QED BY <1>1, <1>2, <1>3 DEF KidStep

LEMMA CrashKeeps ==
  ASSUME MainInv, Crash
  PROVE  MainInv'
  BY DEF Crash, Goto, MainInv, Through, NotYet, AfterMsg, Early, FilesOutliveThread, Running, notPc

LEMMA AllocKeeps ==
  ASSUME MainInv, MakeLogDir \/ CreateLogger
  PROVE  MainInv'
<1>1. CASE MakeLogDir
  BY <1>1 DEF MakeLogDir, At, Goto, MainInv, Through, NotYet, AfterMsg, Early, loggerVars, notPc,
     FilesOutliveThread, Running
<1>2. CASE At("logQueue") /\ MakeQueue /\ Goto("latest") /\ UNCHANGED notPc
  BY <1>2 DEF MakeQueue, At, Goto, MainInv, Through, NotYet, AfterMsg, Early, loggerVars, notPc,
     FilesOutliveThread, Running, Objects, Ipc
<1>3. CASE At("latest") /\ Open("latest") /\ Goto("history") /\ UNCHANGED notPc
  BY <1>3 DEF Open, At, Goto, MainInv, Through, NotYet, AfterMsg, Early, loggerVars, notPc,
     FilesOutliveThread, Running, LogFiles
<1>4. CASE At("history") /\ Open("history") /\ Goto("thread") /\ UNCHANGED notPc
  BY <1>4 DEF Open, At, Goto, MainInv, Through, NotYet, AfterMsg, Early, loggerVars, notPc,
     FilesOutliveThread, Running, LogFiles
<1>5. CASE At("thread") /\ StartThread /\ Goto("sem") /\ UNCHANGED notPc
  BY <1>5 DEF StartThread, At, Goto, MainInv, Through, NotYet, AfterMsg, Early, loggerVars, notPc,
     FilesOutliveThread, Running, LogFiles
<1>6. CASE pc \in Early /\ GiveUp /\ Goto("exited") /\ UNCHANGED notPc
  <2>1. \A o \in Ipc : o \notin kernel /\ o # "logq"
    BY <1>6 DEF MainInv, Ipc, NotYet
  <2> QED BY <1>6, <2>1 DEF GiveUp, Goto, MainInv, Through, NotYet, AfterMsg, Early, notPc,
     FilesOutliveThread, Running
<1> QED BY <1>1, <1>2, <1>3, <1>4, <1>5, <1>6 DEF CreateLogger, Early

\* The labels between alloc_res and free_res.
Middle == {"fork", "attach", "configured", "machines", "workers", "wait", "signal",
           "freeSem"}

LEMMA MiddleKeeps ==
  ASSUME MainInv, kernel' \subseteq kernel, UNCHANGED <<files, thread, ids>>,
         pc' \in Middle, joining' = joining \/ ~joining, joining' => handler'
  PROVE  MainInv'
  BY DEF MainInv, Middle, Through, NotYet, AfterMsg, Early, FilesOutliveThread, Running, Ipc

LEMMA AllocateKeeps ==
  ASSUME MainInv, NEW o \in Ipc, NEW label, NEW next, Allocate(o, label, next),
         <<o, label, next>> \in {<<"sem", "sem", "shm">>, <<"shm", "shm", "fill">>,
                                 <<"msg", "msg", "fork">>}
  PROVE  MainInv'
<1>1. /\ UNCHANGED <<files, thread, joining, handler>> /\ pc = label
      /\ o \notin kernel
  BY DEF Allocate, At, Log, loggerVars, MainInv, NotYet, Ipc
<1>2. CASE /\ kernel' = kernel \cup {o} /\ pc' = next
           /\ \/ ids' = [ids EXCEPT ![o] = "set"]
              \/ ids' = [ids EXCEPT ![o] = "zero"]
  BY <1>1, <1>2 DEF MainInv, Through, NotYet, AfterMsg, Early, FilesOutliveThread,
     Running, Ipc, FieldValues, Objects
<1>3. CASE /\ kernel' = kernel /\ pc' = "freeSem"
           /\ ids' = ids \/ ids' = [ids EXCEPT ![o] = "failed"]
  BY <1>1, <1>3 DEF MainInv, Through, NotYet, AfterMsg, Early, FilesOutliveThread,
     Running, Ipc, FieldValues
<1> QED BY <1>2, <1>3 DEF Allocate, Goto

LEMMA MainKeeps ==
  ASSUME MainInv, MainStep
  PROVE  MainInv'
<1>1. CASE MakeLogDir \/ CreateLogger
  BY <1>1, AllocKeeps
<1>2. CASE Allocate("sem", "sem", "shm") \/ Allocate("shm", "shm", "fill")
           \/ Allocate("msg", "msg", "fork")
  BY <1>2, AllocateKeeps DEF Ipc
<1>f. CASE FillShm
  BY <1>f DEF FillShm, At, Goto, Log, notPc, MainInv, Through, NotYet, AfterMsg, Early,
     FilesOutliveThread, Running, Ipc
<1>3. CASE Crash
  BY <1>3, CrashKeeps
<1>4. CASE \/ Fork("fork", {Director}, "attach") \/ WaitConfigured
           \/ WaitForKids \/ (Attach /\ ~Crash) \/ (Generate /\ ~Crash)
           \/ (SignalGroup /\ ~Crash)
  <2>1. /\ kernel' = kernel /\ UNCHANGED <<files, thread, ids, joining>>
        /\ pc' \in Middle /\ handler' = handler
    BY <1>4, Zenon DEF Fork, WaitConfigured, WaitForKids, Reap, Attach, Attached,
       NotAttached, Generate, SignalGroup, Goto, Middle, Log, loggerVars, notPc
  <2> QED BY <2>1, MiddleKeeps DEF MainInv
<1>5. CASE FreeRes
  BY <1>5, FreeDoes DEF FreeRes, At, Goto, notPc, MainInv, Through, NotYet, AfterMsg, Early,
     FilesOutliveThread, Running, Ipc
<1>6. CASE StopLogger
  BY <1>6 DEF StopLogger, At, Goto, notPc, MainInv, Through, NotYet, AfterMsg, Early,
     FilesOutliveThread, Running, Ipc
<1>7. CASE JoinLogger
  BY <1>7 DEF JoinLogger, At, Goto, notPc, loggerVars, MainInv, Through, NotYet, AfterMsg, Early,
     FilesOutliveThread, Running, Ipc
<1>8. CASE CloseLogger
  BY <1>8 DEF CloseLogger, Destroy, GiveUp, At, Goto, notPc, MainInv, Through, NotYet,
     AfterMsg, Early, FilesOutliveThread, Running, Ipc
<1>9. CASE Exit
  BY <1>9 DEF Exit, At, Goto, notPc, MainInv, Through, NotYet, AfterMsg, Early,
     FilesOutliveThread, Running, Ipc
<1> QED BY <1>1, <1>2, <1>f, <1>3, <1>4, <1>5, <1>6, <1>7, <1>8, <1>9 DEF MainStep

LEMMA SigintKeeps ==
  ASSUME MainInv, Sigint
  PROVE  MainInv'
<1>1. CASE Crash
  BY <1>1, CrashKeeps
<1>2. CASE ~Crash
  <2>1. /\ kernel' = kernel /\ UNCHANGED <<files, thread, ids>>
        /\ pc' = "signal" /\ handler' /\ ~handler
    BY <1>2 DEF Sigint, Goto, Log
  <2> QED BY <2>1, MiddleKeeps DEF MainInv, Middle
<1> QED BY <1>1, <1>2

LEMMA LoopKeeps ==
  ASSUME MainInv, LoopStep, UNCHANGED mainVars
  PROVE  MainInv'
  BY DEF LoopStep, LoopReceive, LoopWrite, mainVars, MainInv, Through, NotYet, AfterMsg, Early,
     FilesOutliveThread, Running, Ipc

LEMMA KidKeeps ==
  ASSUME MainInv, NEW k \in Kids, KidStep(k)
  PROVE  MainInv'
<1>1. /\ kernel' \subseteq kernel
      /\ UNCHANGED <<files, thread, stop, pc, ids, res, handler, joining, told>>
  BY KidOnly
<1> QED BY <1>1 DEF MainInv, Through, NotYet, AfterMsg, Early, FilesOutliveThread, Running, Ipc

LEMMA MainInvStep == MainInv /\ [Next]_vars => MainInv'
<1> SUFFICES ASSUME MainInv, [Next]_vars PROVE MainInv'
  OBVIOUS
<1>1. CASE UNCHANGED vars
  BY <1>1 DEF vars, loggerVars, mainVars, MainInv, Through, NotYet, AfterMsg, Early,
     FilesOutliveThread, Running, Ipc
<1> QED BY <1>1, MainKeeps, SigintKeeps, LoopKeeps, KidKeeps DEF Next, Rest

LEMMA MainInvariant == Spec => []MainInv
  BY MainInvInit, MainInvStep, PTL DEF Spec

\* However main ends, but for a fault of the memory, no object of the kernel and
\* no open file stays behind.
THEOREM NothingLeft == Spec => []ExitLeavesNothing
<1>1. MainInv => ExitLeavesNothing
  BY DEF MainInv, ExitLeavesNothing, Through, AfterMsg, Ipc, Objects
<1> QED BY <1>1, MainInvariant, PTL

\* No line is written to a file that is closed.
THEOREM FilesLast == Spec => []FilesOutliveThread
<1>1. MainInv => FilesOutliveThread
  BY DEF MainInv
<1> QED BY <1>1, MainInvariant, PTL

-------------------------------------------------------------------------------
(* When main removes the objects *)

\* Who has not been started at a label is not there, and main comes to free_res
\* by itself only if a child could not be made or all have been awaited.
KidsInv ==
  /\ kid \in [Kids -> KidLabels]
  /\ pc \in AllocLabels \cup {"fork"} => \A k \in Kids : kid[k] = "none"
  /\ pc \in {"attach", "configured", "machines"} =>
       \A k \in Machines \cup Workers : kid[k] = "none"
  /\ pc = "workers" => \A k \in Workers : kid[k] = "none"
  /\ pc = "signal" => handler
  /\ pc = "freeSem" /\ "sem" \in kernel /\ ~handler =>
       \/ \E k \in Kids : kid[k] = "none"
       \/ \A k \in Kids : kid[k] = "reaped"

\* Among the children, what does not start any: those not there, and those
\* awaited, stay so.
LEMMA KidsAlone ==
  ASSUME KidsInv, MainStep, ~Fork("fork", {Director}, "attach"), ~Generate
  PROVE  KidsInv'
<1>1. CASE MakeLogDir \/ CreateLogger \/ FillShm
  BY <1>1 DEF MakeLogDir, CreateLogger, FillShm, At, Goto, notPc, KidsInv, AllocLabels
<1>2. CASE \/ Allocate("sem", "sem", "shm") \/ Allocate("shm", "shm", "fill")
           \/ Allocate("msg", "msg", "fork")
  BY <1>2, Director \in Kids DEF Allocate, At, Goto, KidsInv, AllocLabels, Kids
<1>3. CASE WaitForKids
  <2>1. CASE Reap("wait") /\ At("wait")
    <3>1. kid' \in [Kids -> KidLabels] /\ pc' = "wait"
      BY <2>1 DEF Reap, Goto, KidsInv, KidLabels
    <3> QED BY <3>1 DEF KidsInv, AllocLabels
  <2>2. CASE NoKidLeft /\ pc' = "freeSem" /\ kid' = kid
    BY <2>2 DEF NoKidLeft, KidsInv, AllocLabels
  <2> QED BY <1>3, <2>1, <2>2 DEF WaitForKids, Goto, notPc
<1>4. CASE Attach
  BY <1>4 DEF Attach, Attached, NotAttached, Crash, At, Goto, notPc, KidsInv, AllocLabels
<1>5. CASE WaitConfigured
  BY <1>5 DEF WaitConfigured, At, Goto, notPc, KidsInv, AllocLabels
<1>6. CASE SignalGroup
  <2>1. kid' \in [Kids -> KidLabels] /\ pc' \in {"freeSem", "crashed"} /\ handler'
    BY <1>6 DEF SignalGroup, Interrupted, Attached, NotAttached, Crash, At, Goto, notPc,
       KidsInv, KidLabels, FreeLabels
  <2> QED BY <2>1 DEF KidsInv, AllocLabels
<1>7. CASE FreeRes \/ StopLogger \/ JoinLogger \/ CloseLogger \/ Exit
  BY <1>7 DEF FreeRes, StopLogger, JoinLogger, CloseLogger, Exit, At, Goto, notPc, KidsInv,
     AllocLabels
<1> QED BY <1>1, <1>2, <1>3, <1>4, <1>5, <1>6, <1>7 DEF MainStep

\* Those that are started were not there, and if not all can be one is left.
LEMMA Forked ==
  ASSUME KidsInv, NEW label, NEW group \in SUBSET Kids, NEW next, next # "freeSem",
         Fork(label, group, next)
  PROVE  /\ kid' \in [Kids -> KidLabels]
         /\ \A k \in Kids \ group : kid'[k] = kid[k]
         /\ pc' = next \/ (pc' = "freeSem" /\ \E k \in group : kid'[k] = kid[k])
         /\ pc = label /\ handler' = handler
<1>1. PICK made \in SUBSET group :
        /\ kid' = [k \in Kids |-> IF k \in made THEN "forked" ELSE kid[k]]
        /\ pc' = next \/ (pc' = "freeSem" /\ made # group)
  BY DEF Fork, Goto
<1>2. made # group => \E k \in group : k \notin made
  OBVIOUS
<1> QED BY <1>1, <1>2 DEF Fork, At, KidsInv, KidLabels

LEMMA KidsStarted ==
  ASSUME KidsInv, Fork("fork", {Director}, "attach") \/ Generate
  PROVE  KidsInv'
<1> USE KidsAssumption
<1>1. CASE Fork("fork", {Director}, "attach")
  <2>1. /\ kid' \in [Kids -> KidLabels]
        /\ \A k \in Kids \ {Director} : kid'[k] = kid[k]
        /\ pc' = "attach" \/ (pc' = "freeSem" /\ \E k \in {Director} : kid'[k] = kid[k])
        /\ \A k \in Kids : kid[k] = "none"
    <3>1. {Director} \in SUBSET Kids
      BY DEF Kids
    <3>2. /\ kid' \in [Kids -> KidLabels] /\ pc = "fork"
          /\ \A k \in Kids \ {Director} : kid'[k] = kid[k]
          /\ pc' = "attach" \/ (pc' = "freeSem" /\ \E k \in {Director} : kid'[k] = kid[k])
      BY <1>1, <3>1, Forked
    <3>3. pc = "fork" => \A k \in Kids : kid[k] = "none"
      BY DEF KidsInv
    <3> QED BY <3>2, <3>3
  <2>2. CASE pc' = "attach"
    BY <2>1, <2>2 DEF KidsInv, Kids, AllocLabels
  <2>3. CASE pc' = "freeSem"
    BY <2>1, <2>3 DEF KidsInv, Kids, AllocLabels
  <2> QED BY <2>1, <2>2, <2>3
<1>2. CASE Fork("machines", Machines, "workers")
  BY <1>2, Forked DEF KidsInv, Kids, AllocLabels
<1>3. CASE Fork("workers", Workers, "wait")
  <2>1. /\ kid' \in [Kids -> KidLabels] /\ pc = "workers"
        /\ pc' = "wait" \/ (pc' = "freeSem" /\ \E k \in Workers : kid'[k] = kid[k])
    BY <1>3, Forked DEF Kids
  <2>2. pc' = "freeSem" => \E k \in Kids : kid'[k] = "none"
    BY <2>1 DEF KidsInv, Kids
  <2> QED BY <2>1, <2>2 DEF KidsInv, AllocLabels
<1>4. CASE Crash
  BY <1>4 DEF Crash, Goto, notPc, KidsInv, AllocLabels
<1> QED BY <1>1, <1>2, <1>3, <1>4 DEF Generate, NotAttached

LEMMA KidsOwnSteps ==
  ASSUME KidsInv, NEW k \in Kids, KidStep(k)
  PROVE  KidsInv'
<1>1. /\ kernel' \subseteq kernel /\ pc' = pc /\ handler' = handler
  BY KidOnly
<1>2. /\ kid[k] \notin {"none", "reaped"}
      /\ \E label \in KidLabels \ {"none"} : kid' = [kid EXCEPT ![k] = label]
  BY DEF KidStep, KidExec, KidConfigures, KidEnds, KidFrees, KidDestroys, KidGoto,
     KidLabels, FreeLabels
<1>3. kid' \in [Kids -> KidLabels] /\ \A j \in Kids \ {k} : kid'[j] = kid[j]
  BY <1>2 DEF KidsInv
<1> QED BY <1>1, <1>2, <1>3 DEF KidsInv, Kids

LEMMA KidsInvStep == KidsInv /\ [Next]_vars => KidsInv'
<1> SUFFICES ASSUME KidsInv, [Next]_vars PROVE KidsInv'
  OBVIOUS
<1>1. CASE UNCHANGED vars \/ (LoopStep /\ UNCHANGED mainVars)
  BY <1>1 DEF vars, mainVars, LoopStep, LoopReceive, LoopWrite, KidsInv
<1>2. CASE Sigint
  <2>1. kid' \in [Kids -> KidLabels] /\ (pc' = "crashed" \/ (pc' = "signal" /\ handler'))
    BY <1>2 DEF Sigint, Crash, Goto, notPc, Interrupted, KidsInv, KidLabels, FreeLabels
  <2> QED BY <2>1 DEF KidsInv, AllocLabels
<1> QED BY <1>1, <1>2, KidsAlone, KidsStarted, KidsOwnSteps DEF Next, Rest

LEMMA KidsInvariant == Spec => []KidsInv
<1>1. Init => KidsInv
  BY DEF Init, KidsInv, KidLabels
<1> QED BY <1>1, KidsInvStep, PTL DEF Spec

\* The objects are removed when all children have been awaited, unless SIGINT or
\* a child that could not be started has ended the day.
THEOREM KidsFirst == Spec => RemovedAfterKids
<1>1. ASSUME KidsInv, Next, "sem" \in kernel, "sem" \notin kernel'
      PROVE  \/ handler
             \/ \E k \in Kids : kid[k] \in {"none"} \cup FreeLabels
             \/ \A k \in Kids : kid[k] = "reaped"
  <2>1. ASSUME NEW k \in Kids, KidStep(k) PROVE kid[k] \in FreeLabels
    BY <1>1, <2>1 DEF KidStep, KidExec, KidConfigures, KidEnds, KidFrees, KidDestroys,
       Removed, FreeLabels
  <2>2. CASE MainStep
    <3>1. pc = "freeSem"
      BY <1>1, <2>2 DEF MainStep, MakeLogDir, CreateLogger, MakeQueue, Open, StartThread,
         GiveUp, Allocate, FillShm, Fork, Attach, Attached, NotAttached, Crash,
         WaitConfigured, Generate, WaitForKids, Reap, FreeRes, Free, Removed, StopLogger,
         JoinLogger, CloseLogger, Destroy, Exit, SignalGroup, At, loggerVars
    <3> QED BY <1>1, <3>1 DEF KidsInv
  <2>3. kernel' = kernel \/ MainStep \/ \E k \in Kids : KidStep(k)
    BY <1>1 DEF Next, Rest, vars, Sigint, Crash, LoopStep, LoopReceive, LoopWrite
  <2> QED BY <1>1, <2>1, <2>2, <2>3
<1>2. ASSUME KidsInv, UNCHANGED vars, "sem" \in kernel, "sem" \notin kernel'
      PROVE  FALSE
  BY <1>2 DEF vars
<1>3. KidsInv /\ [Next]_vars =>
        ("sem" \in kernel /\ "sem" \notin kernel' =>
          \/ handler
          \/ \E k \in Kids : kid[k] \in {"none"} \cup FreeLabels
          \/ \A k \in Kids : kid[k] = "reaped")
  BY <1>1, <1>2
<1> QED BY <1>3, KidsInvariant, PTL DEF Spec, RemovedAfterKids
-------------------------------------------------------------------------------
(* Types of Main. *)

\* Logging, and the end of an object, keep to the bound of the queue.
LEMMA LogTyped ==
  ASSUME MainTypeOK, Log \/ UNCHANGED loggerVars
  PROVE  /\ files' \subseteq LogFiles /\ logged' \in 0..LogCap
         /\ thread' \in ThreadLabels /\ stop' \in BOOLEAN
BY LogCapAssumption DEF Log, loggerVars, MainTypeOK

LEMMA FreeTyped ==
  ASSUME MainTypeOK, NEW o \in Ipc, Free(o)
  PROVE  /\ kernel' \subseteq Objects
         /\ files' \subseteq LogFiles /\ logged' \in 0..LogCap
         /\ thread' \in ThreadLabels /\ stop' \in BOOLEAN
<1>1. CASE Log \/ UNCHANGED loggerVars
  BY <1>1, LogTyped, FreeDoes DEF MainTypeOK
<1>2. CASE \E x \in Objects : Removed(x)
  BY <1>2, LogCapAssumption DEF Removed, MainTypeOK
<1> QED BY <1>1, <1>2 DEF Free, Objects, Ipc

LEMMA CrashTyped ==
  ASSUME MainTypeOK, Crash
  PROVE  MainTypeOK'
BY DEF Crash, Goto, notPc, MainTypeOK, MainLabels, ThreadLabels

LEMMA AllocTyped ==
  ASSUME MainTypeOK, MakeLogDir \/ CreateLogger \/ FillShm
  PROVE  MainTypeOK'
<1> USE LogCapAssumption
        DEF MainTypeOK, notPc, Goto, At, MainLabels, AllocLabels, Objects, LogFiles,
            loggerVars
<1>1. CASE MakeLogDir
  BY <1>1 DEF MakeLogDir
<1>2. CASE CreateLogger
  <2>1. kernel' \subseteq Objects /\ files' \subseteq LogFiles
    BY <1>2, Zenon DEF CreateLogger, MakeQueue, Open, StartThread, GiveUp
  <2>3. logged' \in 0..LogCap
    BY <1>2 DEF CreateLogger, MakeQueue, Open, StartThread, GiveUp
  <2>4. thread' \in ThreadLabels
    BY <1>2 DEF CreateLogger, MakeQueue, Open, StartThread, GiveUp, ThreadLabels
  <2>5. stop' \in BOOLEAN
    BY <1>2 DEF CreateLogger, MakeQueue, Open, StartThread, GiveUp
  <2>2. pc' \in MainLabels /\ UNCHANGED notPc
    BY <1>2 DEF CreateLogger
  <2> QED BY <2>1, <2>2, <2>3, <2>4, <2>5
<1>3. CASE FillShm
  BY <1>3, LogTyped DEF FillShm
<1> QED BY <1>1, <1>2, <1>3

LEMMA AllocateTyped ==
  ASSUME MainTypeOK, NEW o \in Ipc, NEW label, NEW next \in MainLabels,
         Allocate(o, label, next)
  PROVE  MainTypeOK'
<1>1. /\ files' \subseteq LogFiles /\ logged' \in 0..LogCap
      /\ thread' \in ThreadLabels /\ stop' \in BOOLEAN
  BY LogTyped DEF Allocate
<1>2. kernel' \subseteq Objects
  BY DEF Allocate, MainTypeOK, Objects, Ipc
<1>4. ids' \in [Ipc -> FieldValues]
  BY DEF Allocate, MainTypeOK, FieldValues
<1>3. /\ pc' \in MainLabels
      /\ {res', handler', joining', told', configured'} \subseteq BOOLEAN
      /\ kid' = kid
  BY DEF Allocate, MainTypeOK, Goto, MainLabels, FreeLabels
<1> QED BY <1>1, <1>2, <1>3, <1>4 DEF MainTypeOK

\* Children are made, awaited and signalled by main.
LEMMA KidsTyped ==
  ASSUME MainTypeOK, SignalGroup \/ Sigint \/ WaitForKids \/ Attach
                       \/ WaitConfigured \/ Generate
                       \/ Fork("fork", {Director}, "attach")
  PROVE  MainTypeOK'
<1>1. Interrupted \in [Kids -> KidLabels]
  BY DEF Interrupted, MainTypeOK, KidLabels, FreeLabels
<1>2. CASE Crash
  BY <1>2, CrashTyped
<1>3. CASE ~Crash
  <2>1. Log \/ UNCHANGED loggerVars
    BY <1>3 DEF SignalGroup, Sigint, WaitForKids, Reap, Attach, WaitConfigured,
       Generate, Fork, Attached, NotAttached
  <2>2. pc' \in MainLabels /\ kernel' = kernel /\ UNCHANGED <<ids, res, configured>>
    BY <1>3 DEF SignalGroup, Sigint, WaitForKids, Reap, Attach, WaitConfigured,
       Generate, Fork, Attached, NotAttached, Goto, MainLabels, FreeLabels, notPc
  <2>3. {handler', joining', told'} \subseteq BOOLEAN
    <3>1. CASE Sigint
      <4>1. handler' \in BOOLEAN /\ told' \in BOOLEAN
        BY <1>3, <3>1 DEF Sigint, MainTypeOK
      <4>2. joining' = (pc \in {"join", "close"})
        BY <1>3, <3>1 DEF Sigint
      <4>3. joining' \in BOOLEAN
        BY <4>2
      <4> QED BY <4>1, <4>3
    <3>2. CASE ~Sigint
      <4>1. UNCHANGED <<handler, joining>> /\ (told' = told \/ told' = TRUE)
        BY <1>3, <3>2 DEF SignalGroup, WaitForKids, Reap, Attach, WaitConfigured,
           Generate, Fork, Attached, NotAttached, notPc
      <4> QED BY <4>1 DEF MainTypeOK
    <3> QED BY <3>1, <3>2
  <2>4. kid' \in [Kids -> KidLabels]
    <3>1. CASE UNCHANGED kid \/ kid' = Interrupted
      BY <3>1, <1>1 DEF MainTypeOK
    <3>2. CASE \E made : kid' = [k \in Kids |-> IF k \in made THEN "forked" ELSE kid[k]]
      BY <3>2 DEF MainTypeOK, KidLabels
    <3>3. CASE \E k \in Kids : kid' = [kid EXCEPT ![k] = "reaped"]
      BY <3>3 DEF MainTypeOK, KidLabels
    <3> QED BY <1>3, <3>1, <3>2, <3>3
         DEF SignalGroup, Sigint, WaitForKids, Reap, Attach, WaitConfigured,
         Generate, Fork, NotAttached, notPc
  <2> QED BY <2>1, <2>2, <2>3, <2>4, LogTyped DEF MainTypeOK
<1> QED BY <1>2, <1>3

LEMMA MainTyped ==
  ASSUME MainTypeOK, MainStep
  PROVE  MainTypeOK'
<1>1. CASE MakeLogDir \/ CreateLogger \/ FillShm
  BY <1>1, AllocTyped
<1>2. CASE Allocate("sem", "sem", "shm") \/ Allocate("shm", "shm", "fill")
           \/ Allocate("msg", "msg", "fork")
  BY <1>2, AllocateTyped DEF Ipc, MainLabels, AllocLabels
<1>3. CASE SignalGroup \/ WaitForKids \/ Attach \/ WaitConfigured \/ Generate
           \/ Fork("fork", {Director}, "attach")
  BY <1>3, KidsTyped
<1>4. CASE FreeRes
  <2>1. pc' \in MainLabels /\ UNCHANGED notPc
    BY <1>4 DEF FreeRes, Goto, MainLabels, FreeLabels
  <2> QED BY <1>4, <2>1, FreeTyped DEF FreeRes, Ipc, notPc, MainTypeOK
<1>5. CASE StopLogger \/ JoinLogger \/ CloseLogger \/ Exit
  <2>1. pc' \in MainLabels /\ UNCHANGED notPc
    BY <1>5 DEF StopLogger, JoinLogger, CloseLogger, Exit, Goto, MainLabels
  <2>2. /\ kernel' \subseteq kernel /\ files' \subseteq files
        /\ thread' \in {thread, "done"} /\ logged' \in {logged, 0}
        /\ stop' = stop \/ stop' = TRUE
    BY <1>5 DEF StopLogger, JoinLogger, CloseLogger, Exit, Destroy, GiveUp, loggerVars
  <2>3. /\ logged' \in 0..LogCap /\ thread' \in ThreadLabels
        /\ kernel' \subseteq Objects /\ files' \subseteq LogFiles
    BY <2>2, LogCapAssumption DEF MainTypeOK, ThreadLabels
  <2>5. stop' \in BOOLEAN
    BY <2>2 DEF MainTypeOK
  <2>4. {res', handler', joining', told', configured'} \subseteq BOOLEAN
    BY <2>1 DEF notPc, MainTypeOK
  <2> QED BY <2>1, <2>3, <2>4, <2>5 DEF notPc, MainTypeOK
<1> QED BY <1>1, <1>2, <1>3, <1>4, <1>5 DEF MainStep

LEMMA KidTyped ==
  ASSUME MainTypeOK, NEW k \in Kids, KidStep(k)
  PROVE  MainTypeOK'
<1>0. ASSUME NEW l \in KidLabels, KidGoto(k, l)
      PROVE  kid' \in [Kids -> KidLabels] /\ UNCHANGED <<pc, ids, res, handler, joining, told>>
  BY <1>0 DEF KidGoto, MainTypeOK
<1>1. CASE KidExec(k) \/ KidEnds(k) \/ (k = Director /\ KidConfigures)
  <2>1. \E l \in KidLabels : KidGoto(k, l)
    BY <1>1 DEF KidExec, KidEnds, KidConfigures, KidLabels, FreeLabels
  <2>2. (Log \/ UNCHANGED loggerVars) /\ kernel' = kernel /\ configured' \in BOOLEAN
    BY <1>1 DEF KidExec, KidEnds, KidConfigures, MainTypeOK
  <2> QED BY <1>0, <2>1, <2>2, LogTyped DEF MainTypeOK
<1>2. CASE KidFrees(k)
  <2>1. (\E l \in KidLabels : KidGoto(k, l)) /\ configured' = configured
    BY <1>2 DEF KidFrees, KidLabels, FreeLabels
  <2> QED BY <1>0, <1>2, <2>1, FreeTyped DEF KidFrees, Ipc, MainTypeOK
<1>3. CASE KidDestroys(k)
  <2>1. (\E l \in KidLabels : KidGoto(k, l)) /\ configured' = configured
    BY <1>3 DEF KidDestroys, KidLabels
  <2> QED BY <1>0, <1>3, <2>1, LogCapAssumption DEF KidDestroys, Removed, MainTypeOK
<1> QED BY <1>1, <1>2, <1>3 DEF KidStep

\* What main, its children and the thread of the logger keep stays in its type;
\* the queue of the logger never holds more than it has room for, nor fewer than
\* no messages, whoever writes to it, reads it and takes it away.
THEOREM MainTypes == Spec => []MainTypeOK
<1>1. Init => MainTypeOK
  <2> SUFFICES ASSUME Init PROVE MainTypeOK
    OBVIOUS
  <2>1. logged \in 0..LogCap
    BY LogCapAssumption DEF Init
  <2>2. ids \in [Ipc -> FieldValues] /\ kid \in [Kids -> KidLabels]
    BY DEF Init, KidLabels, FieldValues
  <2>3. {res, handler, joining, told, configured} \subseteq BOOLEAN
    BY DEF Init
  <2> QED BY <2>1, <2>2, <2>3 DEF Init, MainTypeOK, MainLabels, AllocLabels, ThreadLabels
<1>2. MainTypeOK /\ [Next]_vars => MainTypeOK'
  <2> SUFFICES ASSUME MainTypeOK, [Next]_vars PROVE MainTypeOK'
    OBVIOUS
  <2>1. CASE LoopStep /\ UNCHANGED mainVars
    BY <2>1, LogCapAssumption DEF LoopStep, LoopReceive, LoopWrite, mainVars,
       MainTypeOK, ThreadLabels
  <2>2. CASE UNCHANGED vars
    BY <2>2 DEF vars, loggerVars, mainVars, MainTypeOK
  <2> QED BY <2>1, <2>2, MainTyped, KidsTyped, KidTyped DEF Next, Rest
<1> QED BY <1>1, <1>2, PTL DEF Spec
===============================================================================
