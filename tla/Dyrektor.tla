------------------------------- MODULE Dyrektor -------------------------------
(***************************************************************************)
(* The director, dyrektor.c: its main thread, which opens the office,      *)
(* sends at most one of the two signals, closes and writes the report, and *)
(* the thread rejected_ticket_loop, which collects the refusals.           *)
(***************************************************************************)
EXTENDS Petent, Urzednik

DirectorLabels ==
  {"configure", "open", "setOpened", "setBuilding", "working", "signal1",
   "evacuate", "closeOpened", "closeFlag", "closeBuilding", "report", "stop", "join",
   "kill", "exit"}

\* Labels before the office opens its doors, and after it has shut them.
BeforeOpening == {"configure", "open", "setOpened", "setBuilding"}
AfterClosing  == {"report", "stop", "join", "kill", "exit"}

DGoto(l) == dpc' = l

\* What the main thread leaves as it is in every step but those of the signals,
\* and in those as well.
elsewhere == <<is_locked, lineVars, limitVars, msgs, tck, cust, machineVars,
               wtck, wout, wvip, rpc, collected, ipcRemoved, issued>>
unsignalled == <<pc, sig2, wpc, sig1, lockVars>>

\* wygeneruj_stan_urzedu sets the hours under semlock, which lets everyone
\* through the semaphore configured.
Configure ==
  /\ dpc = "configure" /\ Critical
  /\ configured' = TRUE
  /\ DGoto("open")
  /\ UNCHANGED <<shmVars, opened, building, scan, raport, running, queuedAtClose,
                 elsewhere, unsignalled>>

\* The sleep until time_open ends.
OpenOffice ==
  /\ dpc = "open" /\ Critical
  /\ is_opened' = TRUE
  /\ DGoto("setOpened")
  /\ UNCHANGED <<petent_pids, doorVars, scan, raport, running, queuedAtClose,
                 elsewhere, unsignalled>>

SetOpened ==
  /\ dpc = "setOpened"
  /\ opened' = OpenedTokens
  /\ DGoto("setBuilding")
  /\ UNCHANGED <<shmVars, configured, building, scan, raport, running,
                 queuedAtClose, elsewhere, unsignalled>>

SetBuilding ==
  /\ dpc = "setBuilding"
  /\ building' = BuildingMax
  /\ DGoto("working")
  /\ UNCHANGED <<shmVars, configured, opened, scan, raport, running, queuedAtClose,
                 elsewhere, unsignalled>>

\* The closing time has come, or keep_running is found cleared. What else SIGINT
\* does, to a wait of the director or to the other programs, is not in here.
TimeUp ==
  /\ dpc = "working" /\ Closing
  /\ DGoto("closeOpened")
  /\ UNCHANGED <<shmVars, doorVars, scan, raport, running, queuedAtClose,
                 elsewhere, unsignalled>>

Event1 ==
  /\ dpc = "working" /\ Events /\ Critical
  /\ DGoto("signal1")
  /\ UNCHANGED <<shmVars, doorVars, scan, raport, running, queuedAtClose,
                 elsewhere, unsignalled>>

\* The pid was picked with an uninitialized index: it is a clerk's, or a word
\* of the struct beside the table, which is nobody's pid or, when it is 0, the
\* whole process group. The loop ends here, and with it the day.
SendSignal1 ==
  /\ dpc = "signal1"
  /\ \E S \in {{}, Workers} \cup {{w} : w \in Workers} : Signal1(S)
  /\ DGoto("closeOpened")
  /\ UNCHANGED <<shmVars, doorVars, pc, sig2, scan, raport, running,
                 queuedAtClose, elsewhere>>

Event2 ==
  /\ dpc = "working" /\ Events
  /\ scan' = 1
  /\ DGoto("evacuate")
  /\ UNCHANGED <<shmVars, doorVars, raport, running, queuedAtClose, elsewhere,
                 unsignalled>>

\* One slot of the loop over petent_pids, without semlock: kill, then clear.
\* The pid of a process that is gone is nobody's.
ScanPids(next) ==
  \/ /\ scan \in 1..PidsLimit
     /\ petent_pids' = [petent_pids EXCEPT ![scan] = NoPid]
     /\ IF petent_pids[scan] # NoPid /\ pc[petent_pids[scan]] # "gone"
          THEN Signal2(petent_pids[scan])
          ELSE UNCHANGED <<pc, sig2, lockVars>>
     /\ scan' = scan + 1
     /\ UNCHANGED dpc
  \/ /\ scan = PidsLimit + 1
     /\ scan' = 0
     /\ DGoto(next)
     /\ UNCHANGED <<petent_pids, pc, sig2, lockVars>>

Evacuate ==
  /\ dpc = "evacuate" /\ ScanPids("closeOpened")
  /\ UNCHANGED <<is_opened, doorVars, wpc, sig1, raport, running, queuedAtClose,
                 elsewhere>>

CloseOpened ==
  /\ dpc = "closeOpened"
  /\ opened' = 0
  /\ DGoto("closeFlag")
  /\ UNCHANGED <<shmVars, configured, building, scan, raport, running,
                 queuedAtClose, elsewhere, unsignalled>>

\* Who is in line to a clerk, asleep, at this moment; one that is being served
\* sleeps as well, and is counted.
CloseFlag ==
  /\ dpc = "closeFlag" /\ Critical
  /\ is_opened' = FALSE
  /\ queuedAtClose' = {p \in Petents : pc[p] \in {"queue", "waitWorker"}
                                       /\ Blocked(p)}
  /\ DGoto("closeBuilding")
  /\ UNCHANGED <<petent_pids, doorVars, scan, raport, running, elsewhere,
                 unsignalled>>

\* Slip: the places of the building are left as they are.
LeaveBuildingOpen ==
  /\ dpc = "closeBuilding"
  /\ DGoto("report")
  /\ UNCHANGED <<shmVars, doorVars, scan, raport, running, queuedAtClose,
                 elsewhere, unsignalled>>

CloseBuilding ==
  /\ dpc = "closeBuilding"
  /\ building' = 0
  /\ DGoto("report")
  /\ UNCHANGED <<shmVars, configured, opened, scan, raport, running, queuedAtClose,
                 elsewhere, unsignalled>>

\* After sync_sleep(20) raport.txt gets what has been collected so far.
WriteReport ==
  /\ dpc = "report"
  /\ raport' = collected
  /\ DGoto("stop")
  /\ UNCHANGED <<shmVars, doorVars, scan, running, queuedAtClose, elsewhere,
                 unsignalled>>

StopThread ==
  /\ dpc = "stop"
  /\ running' = FALSE
  /\ DGoto("join")
  /\ UNCHANGED <<shmVars, doorVars, scan, raport, queuedAtClose, elsewhere,
                 unsignalled>>

JoinThread ==
  /\ dpc = "join" /\ rpc = "done"
  /\ scan' = 1
  /\ DGoto("kill")
  /\ UNCHANGED <<shmVars, doorVars, raport, running, queuedAtClose, elsewhere,
                 unsignalled>>

KillRemaining ==
  /\ dpc = "kill" /\ ScanPids("exit")
  /\ UNCHANGED <<is_opened, doorVars, wpc, sig1, raport, running, queuedAtClose,
                 elsewhere>>

DirectorStep ==
  \/ Configure \/ OpenOffice \/ SetOpened \/ SetBuilding
  \/ TimeUp \/ Event1 \/ SendSignal1 \/ Event2 \/ Evacuate
  \/ CloseOpened \/ CloseFlag \/ CloseBuilding
  \/ WriteReport \/ StopThread \/ JoinThread \/ KillRemaining

-------------------------------------------------------------------------------
\* rejected_ticket_loop: while running, takes a refusal if there is one. The
\* look at running and the msgrcv are one step: a stop between them has the
\* effect of a stop after them, raport.txt being written already.
ThreadReceive ==
  /\ rpc = "loop" /\ running
  /\ Receive(D_MSG_REJECTED)
  /\ collected' = collected \cup {Head(msgs[D_MSG_REJECTED])}
  /\ UNCHANGED <<shmVars, semVars, petentVars, machineVars, workerVars, dpc, scan,
                 raport, rpc, running, ipcRemoved, history>>

ThreadStop ==
  /\ rpc = "loop" /\ ~running
  /\ rpc' = "done"
  /\ UNCHANGED <<shmVars, semVars, msgs, petentVars, machineVars, workerVars,
                 dpc, scan, raport, running, collected, ipcRemoved, history>>

ThreadStep == ThreadReceive \/ ThreadStop
===============================================================================
