--------------------------------- MODULE Main ---------------------------------
(***************************************************************************)
(* main.c: the objects of the office are created, the children started and *)
(* awaited, the objects removed, with every call that may fail and with    *)
(* SIGINT at any moment. What the children do with the objects is the      *)
(* matter of Urzad; here a child starts, works for a while and ends.       *)
(***************************************************************************)
EXTENDS Logger, Ustawienia

CONSTANTS
  Machines,  \* children started by generate_ticket_machines
  Workers,   \* children started by generate_workers
  Failures   \* bound of a run: FALSE, no call fails and nobody sends SIGINT

Director == "dyrektor"
Kids     == {Director} \cup Machines \cup Workers

ASSUME KidsAssumption ==
  /\ Director \notin Machines \cup Workers /\ Machines \cap Workers = {}
  /\ Failures \in BOOLEAN

VARIABLES
  pc,          \* the call main makes next
  ids,         \* what the fields of res_t hold
  res,         \* the global res is assigned: alloc_res has returned
  handler,     \* main is in exit_signal_handler
  joining,     \* it interrupted logger_destroy in or after pthread_join
  told,        \* the process group has got SIGINT
  kid,         \* what each child does next
  configured   \* the semaphore of that name is above 0

mainVars == <<pc, ids, res, handler, joining, told, kid, configured>>
vars     == <<kernel, loggerVars, mainVars>>

Ipc       == {"sem", "shm", "msg"}
\* A field is unset after malloc, -1, or an id; that of the first segment is 0.
FieldValues == {"unset", "failed", "zero", "set"}
AllocLabels == {"mkdir", "logQueue", "latest", "history", "thread", "sem", "shm",
                "fill", "msg"}
FreeLabels  == {"freeSem", "freeShm", "freeMsg"}
MainLabels  == AllocLabels \cup FreeLabels \cup
  {"fork", "attach", "configured", "machines", "workers", "wait", "signal",
   "stop", "join", "close", "exit", "exited", "crashed"}
KidLabels   == FreeLabels \cup {"none", "forked", "up", "destroy", "ended", "reaped"}

Init ==
  /\ kernel = {} /\ logged = 0 /\ files = {} /\ thread = "none" /\ stop = FALSE
  /\ pc = "mkdir" /\ ids = [o \in Ipc |-> "unset"]
  /\ res = FALSE /\ handler = FALSE /\ joining = FALSE /\ told = FALSE
  /\ kid = [k \in Kids |-> "none"] /\ configured = FALSE

At(label)   == pc = label
Goto(label) == pc' = label

\* What most of the steps of main leave as it is.
notPc == <<ids, res, handler, joining, told, kid, configured>>

\* A fault of the memory: the kernel closes files and ends the thread, the
\* System V objects stay.
Crash ==
  /\ Goto("crashed") /\ files' = {} /\ thread' = "done"
  /\ UNCHANGED <<kernel, logged, stop, notPc>>

-------------------------------------------------------------------------------
(* alloc_res *)

\* A step that cannot be done ends main before there is a logger.
MakeLogDir ==
  /\ At("mkdir")
  /\ Goto("logQueue") \/ (Failures /\ Goto("exited"))
  /\ UNCHANGED <<kernel, loggerVars, notPc>>

CreateLogger ==
  /\ \/ At("logQueue") /\ MakeQueue /\ Goto("latest")
     \/ At("latest") /\ Open("latest") /\ Goto("history")
     \/ At("history") /\ Open("history") /\ Goto("thread")
     \/ At("thread") /\ StartThread /\ Goto("sem")
     \/ /\ Failures /\ pc \in {"logQueue", "latest", "history", "thread"}
        /\ GiveUp /\ Goto("exited")
  /\ UNCHANGED notPc

\* One of the objects in its turn; what fails is logged and main shuts down.
Allocate(o, label, next) ==
  /\ At(label)
  /\ \/ /\ kernel' = kernel \cup {o} /\ Goto(next)
        /\ \/ ids' = [ids EXCEPT ![o] = "set"]
           \/ o = "shm" /\ ids' = [ids EXCEPT ![o] = "zero"]
        /\ IF o = "msg" THEN Log ELSE UNCHANGED loggerVars
        /\ res' = (o = "msg")
     \/ /\ Failures /\ Log /\ Goto("freeSem")
        /\ ids' = IF o = "shm" THEN ids ELSE [ids EXCEPT ![o] = "failed"]
        /\ UNCHANGED <<kernel, res>>
  /\ UNCHANGED <<handler, joining, told, kid, configured>>

FillShm == At("fill") /\ Log /\ Goto("msg") /\ UNCHANGED <<kernel, notPc>>

-------------------------------------------------------------------------------
(* main *)

\* A child that cannot be made is logged, and main shuts down.
Fork(label, group, next) ==
  /\ At(label)
  /\ \E made \in SUBSET group :
       /\ kid' = [k \in Kids |-> IF k \in made THEN "forked" ELSE kid[k]]
       /\ IF made = group THEN Goto(next) /\ UNCHANGED loggerVars
                          ELSE Failures /\ Log /\ Goto("freeSem")
  /\ UNCHANGED <<kernel, ids, res, handler, joining, told, configured>>

\* shmat of a segment that a child has removed gives -1, which is then used.
Attached(label) == At(label) /\ "shm" \in kernel
NotAttached(label) == At(label) /\ "shm" \notin kernel /\ Crash

Attach ==
  \/ /\ Attached("attach") /\ Goto("configured")
     /\ UNCHANGED <<kernel, loggerVars, notPc>>
  \/ NotAttached("attach")

\* Slip: a wait that has failed is begun again.
WaitAgain ==
  /\ At("configured") /\ "sem" \in kernel /\ configured /\ Goto("machines")
  /\ UNCHANGED <<kernel, loggerVars, notPc>>

WaitConfigured ==
  /\ At("configured")
  /\ \/ /\ "sem" \in kernel /\ configured /\ Goto("machines")
        /\ UNCHANGED loggerVars
     \/ "sem" \notin kernel /\ Log /\ Goto("freeSem")
  /\ UNCHANGED <<kernel, notPc>>

Generate ==
  \/ Attached("machines") /\ Fork("machines", Machines, "workers")
  \/ Attached("workers") /\ Fork("workers", Workers, "wait")
  \/ NotAttached("machines") \/ NotAttached("workers")

NoKidLeft == \A k \in Kids : kid[k] \in {"none", "reaped"}

Reap(next) ==
  /\ \E k \in Kids : kid[k] = "ended" /\ kid' = [kid EXCEPT ![k] = "reaped"]
  /\ Log /\ Goto(next)
  /\ UNCHANGED <<kernel, ids, res, handler, joining, told, configured>>

\* Slip: one wait instead of a loop.
WaitOnce == At("wait") /\ Reap("freeSem")

WaitForKids ==
  /\ At("wait")
  /\ \/ Reap("wait")
     \/ NoKidLeft /\ Goto("freeSem") /\ UNCHANGED <<kernel, loggerVars, notPc>>

-------------------------------------------------------------------------------
(* free_res, of main and of a child whose execl has failed *)

\* IPC_RMID of what is there; an error is logged. The field is garbage when
\* alloc_res has not come to it, and may then name the queue of the logger.
Free(o) ==
  \/ ids[o] = "failed" /\ UNCHANGED <<kernel, loggerVars>>
  \/ ids[o] \in {"set", "zero"} /\ o \in kernel /\ Removed(o)
  \/ ids[o] \in {"set", "zero"} /\ o \notin kernel /\ Log /\ UNCHANGED kernel
  \/ ids[o] = "unset" /\ Log /\ UNCHANGED kernel
  \/ ids[o] = "unset" /\ o = "msg" /\ "logq" \in kernel /\ Removed("logq")

FreeRes ==
  /\ \/ At("freeSem") /\ Free("sem") /\ Goto("freeShm")
     \/ At("freeShm") /\ Free("shm") /\ Goto("freeMsg")
     \/ At("freeMsg") /\ Free("msg") /\ Goto("stop")
  /\ UNCHANGED notPc

StopLogger ==
  /\ At("stop") /\ stop' = TRUE /\ Goto("join")
  /\ UNCHANGED <<kernel, logged, files, thread, notPc>>

\* Slip: the thread is not joined.
JoinNobody ==
  At("join") /\ Goto("close") /\ UNCHANGED <<kernel, loggerVars, notPc>>

\* Called again for a thread already being joined it fails at once.
JoinLogger ==
  /\ At("join") /\ (thread = "done" \/ joining) /\ Goto("close")
  /\ UNCHANGED <<kernel, loggerVars, notPc>>

CloseLogger == At("close") /\ Destroy /\ Goto("exit") /\ UNCHANGED notPc

\* The end of the process is the end of its thread.
Exit ==
  /\ At("exit") /\ Goto("exited") /\ thread' = "done"
  /\ UNCHANGED <<kernel, logged, files, stop, notPc>>

-------------------------------------------------------------------------------
(* exit_signal_handler *)

\* SIGINT makes a child that is still main's image run this handler too; without
\* the segment it crashes, but with id 0 it does not look at the segment.
Interrupted ==
  [k \in Kids |-> IF kid[k] # "forked" THEN kid[k]
                  ELSE IF "shm" \in kernel \/ ids["shm"] = "zero"
                       THEN "freeSem" ELSE "ended"]

\* SIGINT to main alone, or from the terminal to the whole group. The handler
\* uses res, which is NULL as long as alloc_res runs, and never returns.
Sigint ==
  /\ Failures /\ ~handler /\ pc \notin {"exit", "exited", "crashed"}
  /\ \/ ~res /\ Crash
     \/ /\ res /\ handler' = TRUE /\ Log /\ Goto("signal")
        /\ joining' = (pc \in {"join", "close"})
        /\ \/ told' = TRUE /\ kid' = Interrupted
           \/ UNCHANGED <<told, kid>>
        /\ UNCHANGED <<kernel, ids, res, configured>>

\* The id of the segment is taken for a flag: with 0 nobody is signalled.
SignalGroup ==
  \/ /\ At("signal") /\ ids["shm"] = "zero" /\ Goto("freeSem")
     /\ UNCHANGED <<kernel, loggerVars, notPc>>
  \/ /\ Attached("signal") /\ ids["shm"] # "zero" /\ Goto("freeSem")
     /\ told' = TRUE /\ kid' = Interrupted
     /\ UNCHANGED <<kernel, loggerVars, ids, res, handler, joining, configured>>
  \/ ids["shm"] # "zero" /\ NotAttached("signal")

MainStep ==
  \/ MakeLogDir \/ CreateLogger
  \/ Allocate("sem", "sem", "shm") \/ Allocate("shm", "shm", "fill") \/ FillShm
  \/ Allocate("msg", "msg", "fork")
  \/ Fork("fork", {Director}, "attach") \/ Attach \/ WaitConfigured \/ Generate
  \/ WaitForKids
  \/ FreeRes \/ StopLogger \/ JoinLogger \/ CloseLogger \/ Exit
  \/ SignalGroup

-------------------------------------------------------------------------------
(* The children *)

KidGoto(k, label) ==
  /\ kid' = [kid EXCEPT ![k] = label]
  /\ UNCHANGED <<pc, ids, res, handler, joining, told>>

\* execl; when it fails the child, a copy of main, shuts down.
KidExec(k) ==
  /\ kid[k] = "forked"
  /\ \/ KidGoto(k, "up") /\ UNCHANGED loggerVars
     \/ Failures /\ KidGoto(k, "freeSem") /\ Log
  /\ UNCHANGED <<kernel, configured>>

KidConfigures ==
  /\ kid[Director] = "up" /\ ~configured /\ "sem" \in kernel
  /\ configured' = TRUE /\ Log
  /\ KidGoto(Director, "up") /\ UNCHANGED kernel

\* The director ends once it has set the hours, unless it is interrupted, finds
\* the objects gone or cannot start its thread.
KidEnds(k) ==
  /\ kid[k] = "up"
  /\ k = Director => configured \/ told \/ "sem" \notin kernel \/ Failures
  /\ Log /\ KidGoto(k, "ended") /\ UNCHANGED <<kernel, configured>>

KidFrees(k) ==
  /\ \/ kid[k] = "freeSem" /\ Free("sem") /\ KidGoto(k, "freeShm")
     \/ kid[k] = "freeShm" /\ Free("shm") /\ KidGoto(k, "freeMsg")
     \/ kid[k] = "freeMsg" /\ Free("msg") /\ KidGoto(k, "destroy")
  /\ UNCHANGED configured

\* The thread is not in the child, so that the join returns; the files closed
\* are the child's, the queue is that of everyone.
KidDestroys(k) ==
  kid[k] = "destroy" /\ Removed("logq") /\ KidGoto(k, "ended") /\ UNCHANGED configured

KidStep(k) ==
  \/ KidExec(k) \/ (k = Director /\ KidConfigures)
  \/ KidEnds(k) \/ KidFrees(k) \/ KidDestroys(k)

-------------------------------------------------------------------------------
\* main is over, or sleeps in pthread_join for a thread that sleeps in msgrcv
\* or calls it in vain for ever.
Over       == pc \in {"exited", "crashed"}
JoinAsleep ==
  /\ At("join") /\ thread = "receive" /\ ("logq" \notin kernel \/ logged = 0)
  /\ ~joining

Rest == (Over \/ JoinAsleep) /\ UNCHANGED vars

Next ==
  \/ MainStep \/ Sigint
  \/ LoopStep /\ UNCHANGED mainVars
  \/ \E k \in Kids : KidStep(k)
  \/ Rest

Spec == Init /\ [][Next]_vars

\* Linux runs every process and the thread, and a child works for a finite
\* time (Urzad, DayEnds, says when it does not). Nobody has to send SIGINT.
Fairness ==
  /\ WF_vars(MainStep) /\ WF_vars(LoopStep /\ UNCHANGED mainVars)
  /\ \A k \in Kids : WF_vars(KidStep(k))

FairSpec == Spec /\ Fairness

-------------------------------------------------------------------------------
(* What main promises. *)

\* Every variable has its type: the type invariant.
MainTypeOK ==
  /\ kernel \subseteq Objects /\ files \subseteq LogFiles
  /\ logged \in 0..LogCap /\ thread \in ThreadLabels /\ stop \in BOOLEAN
  /\ pc \in MainLabels /\ ids \in [Ipc -> FieldValues]
  /\ kid \in [Kids -> KidLabels]
  /\ {res, handler, joining, told, configured} \subseteq BOOLEAN

\* main.c, free_res: on whichever of its ways out main ends, the failures of
\* alloc_res, fork and execl and SIGINT among them, no object of the kernel and
\* no open file is left behind. Only a fault of the memory leaves them.
ExitLeavesNothing == pc = "exited" => kernel = {} /\ files = {}

\* logger.c, logger_destroy: the files are open as long as logger_loop may write
\* to them, unless SIGINT has come while main was in pthread_join.
FilesOutliveThread ==
  (thread \in {"receive", "write"} /\ ~joining) => files = LogFiles

\* main.c:256: unless SIGINT or a failure to start a child has put an end to the
\* day, the objects are removed only when all children have been awaited.
RemovedAfterKids ==
  [][("sem" \in kernel /\ "sem" \notin kernel') =>
       \/ handler
       \/ \E k \in Kids : kid[k] \in {"none"} \cup FreeLabels
       \/ \A k \in Kids : kid[k] = "reaped"]_vars

\* The director was started and is over, but never raised the semaphore.
NeverConfigured ==
  /\ At("configured") /\ ~configured /\ "sem" \in kernel
  /\ kid[Director] = "ended"

\* Whatever fails and whoever is interrupted, main never stays behind in alloc_res,
\* in front of the semaphore configured or in the loop over wait: it ends, or
\* has come to the end of the logger. It waits in vain for a director that has
\* ended, failed or interrupted, without having set the hours, and for no other.
MainComesToJoin == <>[](pc \in {"exited", "crashed", "join"} \/ NeverConfigured)

\* logger.c, logger_loop: with a message to read, the thread notices that it is
\* to stop, as long as nobody takes the queue away from it.
StopNoticed ==
  (stop /\ logged > 0 /\ thread # "none") ~>
    (thread = "done" \/ "logq" \notin kernel)

\* The director, up and not ready, is about to set the hours of the day.
SettingHours == kid[Director] = "up" /\ ~configured

\* West of Greenwich in the evening: by local time it is still yesterday.
LocalDateBehind(now, gmtoff) == (now % DAY) + gmtoff < 0
LocalDate(t, gmtoff)         == (t + gmtoff) \div DAY

\* wygeneruj_stan_urzedu: an hour set in consts.h becomes a moment from now on at
\* which the local clock shows it. It is the next such moment, less than a day
\* away, unless the local date is behind that of UTC, which the hour is added to:
\* it is then that hour of the local tomorrow, were it still to come today, as
\* the loop only adds days (dyrektor.c:311-315).
HoursAsSet ==
  SettingHours =>
    \A now \in Moments, gmtoff \in Offsets, m \in Minutes :
      LET t == AtMinute(m, now, gmtoff)
      IN  /\ now <= t /\ (t + gmtoff) % DAY = m * 60
          /\ IF LocalDateBehind(now, gmtoff)
               THEN LocalDate(t, gmtoff) = LocalDate(now, gmtoff) + 1
               ELSE t < now + DAY

\* petent.c:195: unless the program is started between the hours set (where the
\* local date is behind that does no harm, both being tomorrow's), the office is
\* open for as long as they say, the divisor of rand() is not 0, and whoever comes
\* comes before it closes.
ArrivesInHours ==
  SettingHours =>
    \A now \in Moments, gmtoff \in Offsets, open, close \in Minutes, draw \in Draws :
      LET o == TimeOpen(open, now, gmtoff)
          c == TimeClose(open, close, now, gmtoff)
      IN  /\ open < close
          /\ \/ LocalDateBehind(now, gmtoff)
             \/ (now + gmtoff) % DAY \notin (open * 60 + 1)..(close * 60)
          => /\ c - o = (close - open) * 60
             /\ Arrival(o, c, draw) \in o..(c - 1)

\* RAPORT.md:352: the end of the logger is written to its queue between stop and
\* pthread_join, which would wake the thread, and main would end.
MainEnds == <>Over
===============================================================================
