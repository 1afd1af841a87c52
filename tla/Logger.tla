-------------------------------- MODULE Logger --------------------------------
(***************************************************************************)
(* logger.c: the message queue, the two files and the thread of the logger *)
(* that main creates and every program of the office writes to. main asks  *)
(* for the lowest level, so that no message is left out, and of a message  *)
(* nothing but its place in the queue matters.                             *)
(***************************************************************************)
EXTENDS Integers, FiniteSets

CONSTANT LogCap   \* messages the queue of the logger holds (msg_qbytes / 256)

ASSUME LogCapAssumption == LogCap \in Nat \ {0}

VARIABLES
  kernel,   \* the System V objects of this run of main that exist
  logged,   \* messages waiting in the queue of the logger
  files,    \* log files that are open
  thread,   \* what logger_loop does next
  stop      \* controller.stop

loggerVars == <<logged, files, thread, stop>>

Objects      == {"logq", "sem", "shm", "msg"}
LogFiles     == {"latest", "history"}
ThreadLabels == {"none", "receive", "write", "done"}

-------------------------------------------------------------------------------
\* Slip: the message waits in the queue whatever is there.
LogAlways ==
  /\ logged' = IF "logq" \in kernel THEN logged + 1 ELSE logged
  /\ UNCHANGED <<files, thread, stop>>

\* logger_log: IPC_NOWAIT, what finds no room or no queue is lost.
Log ==
  /\ logged' = IF "logq" \in kernel /\ logged < LogCap THEN logged + 1 ELSE logged
  /\ UNCHANGED <<files, thread, stop>>

\* The object is gone, and with the queue of the logger what waits in it.
Removed(o) ==
  /\ kernel' = kernel \ {o}
  /\ logged' = IF o = "logq" THEN 0 ELSE logged
  /\ UNCHANGED <<files, thread, stop>>

\* logger_create makes the queue, opens the files and starts the thread.
MakeQueue == kernel' = kernel \cup {"logq"} /\ UNCHANGED loggerVars

Open(f) == files' = files \cup {f} /\ UNCHANGED <<kernel, logged, thread, stop>>

StartThread ==
  /\ thread' = "receive" /\ stop' = FALSE
  /\ logged' = 1
  /\ UNCHANGED <<kernel, files>>

\* Slip: the files are closed and the queue is forgotten.
CloseFiles == files' = {} /\ UNCHANGED <<kernel, logged, thread, stop>>

\* One of these calls fails: what was made before is destroyed.
GiveUp ==
  /\ files' = {} /\ kernel' = kernel \ {"logq"} /\ logged' = 0
  /\ UNCHANGED <<thread, stop>>

\* logger_destroy after it has joined the thread.
Destroy == GiveUp

-------------------------------------------------------------------------------
\* logger_loop. Without a queue msgrcv fails at once and is called again.
LoopReceive ==
  /\ thread = "receive" /\ "logq" \in kernel /\ logged > 0
  /\ logged' = logged - 1 /\ thread' = "write"
  /\ UNCHANGED <<kernel, files, stop>>

\* Slip: a message written is followed by the next msgrcv.
LoopOn ==
  /\ thread = "write" /\ thread' = "receive"
  /\ UNCHANGED <<kernel, logged, files, stop>>

\* The line is in both files; only now is stop looked at.
LoopWrite ==
  /\ thread = "write"
  /\ thread' = IF stop THEN "done" ELSE "receive"
  /\ UNCHANGED <<kernel, logged, files, stop>>

LoopStep == LoopReceive \/ LoopWrite
===============================================================================
