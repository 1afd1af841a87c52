----------------------------- MODULE UrzadProofs -----------------------------
(***************************************************************************)
(* Safety theorems about Urzad, for every number of petents, machines and  *)
(* clerks, every capacity and every limit.                                 *)
(***************************************************************************)
EXTENDS Urzad, FiniteSetTheorems, TLAPS

-------------------------------------------------------------------------------
(* What a step of each process leaves alone. *)

\* petent.c writes neither flag of the office, no limit, and nothing local to
\* another process.
LEMMA PetentFrame ==
  ASSUME NEW p \in Petents, PetentStep(p)
  PROVE  /\ UNCHANGED <<is_opened, is_locked, configured, ignoredEintr>>
         /\ UNCHANGED <<limit, saLimit, sig2, cust>>
         /\ UNCHANGED <<machineVars, workerVars, directorVars>>
         /\ UNCHANGED <<ipcRemoved, history>> /\ unlocked' \subseteq unlocked
<1> USE DEF shmVars, semVars, lockVars, doorVars, limitVars, notPetents,
            machineVars, workerVars, directorVars, history
<1>1. CASE Register(p)          BY <1>1 DEF Register
<1>2. CASE PassConfigured(p)    BY <1>2 DEF PassConfigured
<1>3. CASE Arrive(p)            BY <1>3 DEF Arrive
<1>4. CASE LockOpened(p)        BY <1>4 DEF LockOpened
<1>5. CASE UnlockOpened(p)      BY <1>5 DEF UnlockOpened
<1>6. CASE EnterBuilding(p)     BY <1>6 DEF EnterBuilding
<1>7. CASE Entered(p)           BY <1>7 DEF Entered
<1>8. CASE LockTickets(p)       BY <1>8 DEF LockTickets
<1>9. CASE SendTicketRequest(p) BY <1>9 DEF SendTicketRequest
<1>10. CASE ReceiveTicket(p)    BY <1>10 DEF ReceiveTicket
<1>11. CASE LockQueue(p)        BY <1>11 DEF LockQueue
<1>12. CASE SendToWorker(p)     BY <1>12 DEF SendToWorker
<1>13. CASE ReceiveFromWorker(p) BY <1>13 DEF ReceiveFromWorker
<1>14. CASE WakeFrustrated(p)   BY <1>14 DEF WakeFrustrated
<1>15. CASE LeaveBuilding(p)
  BY <1>15 DEF LeaveBuilding, Section, EnterSection, LeaveSection, TakeLock
<1>16. CASE GivePlaces(p)       BY <1>16 DEF GivePlaces, LeaveSection
<1>17. CASE FreeTickets(p)      BY <1>17 DEF FreeTickets
<1>18. CASE FreeQueue(p)        BY <1>18 DEF FreeQueue
<1>19. CASE ExitOnRemovedIpc(p) BY <1>19 DEF ExitOnRemovedIpc
<1> QED
  BY <1>1, <1>2, <1>3, <1>4, <1>5, <1>6, <1>7, <1>8, <1>9, <1>10, <1>11,
     <1>12, <1>13, <1>14, <1>15, <1>16, <1>17, <1>18, <1>19 DEF PetentStep

\* rejestracja.c writes is_locked, semaphores and messages, its own variables,
\* and nothing of the petents, the clerks and the director.
LEMMA MachineFrame ==
  ASSUME NEW m \in Machines, MachineStep(m)
  PROVE  /\ UNCHANGED <<is_opened, petent_pids, configured, tickets>>
         /\ UNCHANGED <<queueSem, petentVars, workerVars, directorVars>>
         /\ UNCHANGED <<unlocked, ignoredEintr, ipcRemoved, queuedAtClose>>
<1> USE DEF shmVars, semVars, lockVars, doorVars, lineVars, notMachines,
            petentVars, workerVars, directorVars, history
<1>1. CASE MachineLockOpened(m)   BY <1>1 DEF MachineLockOpened
<1>2. CASE MachineUnlockOpened(m) BY <1>2 DEF MachineUnlockOpened
<1>3. CASE MachineCheck(m)        BY <1>3 DEF MachineCheck
<1>4. CASE MachinePoll(m)         BY <1>4 DEF MachinePoll
<1>5. CASE MachineServe(m)        BY <1>5 DEF MachineServe, TakeLock
<1>6. CASE MachineReply(m)        BY <1>6 DEF MachineReply, GiveLock
<1>7. CASE MachineReport(m)       BY <1>7 DEF MachineReport, GiveLock
<1>8. CASE MachineLockCheck(m)    BY <1>8 DEF MachineLockCheck
<1> QED
  BY <1>1, <1>2, <1>3, <1>4, <1>5, <1>6, <1>7, <1>8 DEF MachineStep

\* urzednik.c never takes semlock for longer than a step, raises it only after
\* an interrupted wait, and writes nothing of the petents, the machines and the
\* director.
LEMMA WorkerFrame ==
  ASSUME NEW w \in Workers, WorkerStep(w)
  PROVE  /\ UNCHANGED <<is_opened, petent_pids, configured, ignoredEintr>>
         /\ UNCHANGED <<tickets, queueSem, saLimit, petentVars>>
         /\ UNCHANGED <<machineVars, sig1, directorVars>>
         /\ UNCHANGED <<ipcRemoved, queuedAtClose>>
         /\ \/ UNCHANGED lockVars
            \/ w \in unlocked /\ LeaveSection(w)
<1> USE DEF shmVars, semVars, lockVars, doorVars, lineVars, limitVars,
            notWorkers, petentVars, machineVars, directorVars, history,
            Section, LeaveSection
<1>1. CASE WorkerLockOpened(w)   BY <1>1 DEF WorkerLockOpened
<1>2. CASE WorkerUnlockOpened(w) BY <1>2 DEF WorkerUnlockOpened
<1>3. CASE WorkerCheck(w)        BY <1>3 DEF WorkerCheck
<1>4. CASE WorkerPoll(w)         BY <1>4 DEF WorkerPoll
<1>5. CASE WorkerServe(w)        BY <1>5 DEF WorkerServe
<1>6. CASE WorkerNumber(w)       BY <1>6 DEF WorkerNumber
<1>7. CASE WorkerReply(w)        BY <1>7 DEF WorkerReply
<1>8. CASE WorkerReport(w)       BY <1>8 DEF WorkerReport
<1>9. CASE WorkerLockCheck(w)    BY <1>9 DEF WorkerLockCheck
<1>10. CASE WorkerDrainReport(w) BY <1>10 DEF WorkerDrainReport
<1>11. CASE WorkerDrainReply(w)  BY <1>11 DEF WorkerDrainReply
<1> QED
  BY <1>1, <1>2, <1>3, <1>4, <1>5, <1>6, <1>7, <1>8, <1>9, <1>10, <1>11
     DEF WorkerStep

\* The main thread of dyrektor.c touches no message, no limit, no queue, and
\* of the other processes only what a signal changes.
LEMMA DirectorFrame ==
  ASSUME DirectorStep
  PROVE  /\ UNCHANGED <<is_locked, semlock, tickets, queueSem, limit>>
         /\ UNCHANGED <<saLimit, msgs, tck, cust, machineVars>>
         /\ UNCHANGED <<wtck, wout, wvip, rpc, collected>>
         /\ UNCHANGED <<ipcRemoved, issued>>
         /\ ~ignoredEintr' => ~ignoredEintr /\ UNCHANGED unlocked
<1> USE DEF shmVars, semVars, lockVars, doorVars, lineVars, limitVars,
            machineVars, elsewhere, unsignalled
<1>1. CASE Configure     BY <1>1 DEF Configure
<1>2. CASE OpenOffice    BY <1>2 DEF OpenOffice
<1>3. CASE SetOpened     BY <1>3 DEF SetOpened
<1>4. CASE SetBuilding   BY <1>4 DEF SetBuilding
<1>5. CASE TimeUp        BY <1>5 DEF TimeUp
<1>6. CASE Event1        BY <1>6 DEF Event1
<1>7. CASE SendSignal1
  <2>1. PICK S : Signal1(S)
    BY <1>7 DEF SendSignal1
  <2>2. semlock' = semlock /\ (~ignoredEintr' => ~ignoredEintr /\ UNCHANGED unlocked)
    BY <2>1 DEF Signal1
  <2> QED BY <1>7, <2>2 DEF SendSignal1
<1>8. CASE Event2        BY <1>8 DEF Event2
<1>9. CASE Evacuate      BY <1>9 DEF Evacuate, ScanPids, Signal2
<1>10. CASE CloseOpened  BY <1>10 DEF CloseOpened
<1>11. CASE CloseFlag    BY <1>11 DEF CloseFlag
<1>12. CASE CloseBuilding BY <1>12 DEF CloseBuilding
<1>13. CASE WriteReport  BY <1>13 DEF WriteReport
<1>14. CASE StopThread   BY <1>14 DEF StopThread
<1>15. CASE JoinThread   BY <1>15 DEF JoinThread
<1>16. CASE KillRemaining BY <1>16 DEF KillRemaining, ScanPids, Signal2
<1> QED
  BY <1>1, <1>2, <1>3, <1>4, <1>5, <1>6, <1>7, <1>8, <1>9, <1>10, <1>11,
     <1>12, <1>13, <1>14, <1>15, <1>16 DEF DirectorStep

\* The thread of dyrektor.c only moves refusals from the queue to its table.
LEMMA ThreadFrame ==
  ASSUME ThreadStep
  PROVE  /\ UNCHANGED <<shmVars, semVars, petentVars, machineVars>>
         /\ UNCHANGED <<workerVars, dpc, scan, raport, running>>
         /\ UNCHANGED <<ipcRemoved, history>>
BY DEF ThreadStep, ThreadReceive, ThreadStop

-------------------------------------------------------------------------------
(* The capacity of the building. *)

\* People are in the building only once it has been opened; from then on the
\* free places and the people inside do not exceed building_max.
CapacityInv ==
  /\ pc \in [Petents -> PetentLabels] /\ cust \in [Petents -> Customers]
  /\ building \in Nat
  /\ BuildingCapacity
  /\ dpc \in BeforeOpening => building = 0 /\ \A p \in Petents : ~Inside(p)

\* The n places of one person, with or without a child.
PlacesOf(p, n) == {<<p, k>> : k \in 1..n}

LEMMA PlacesFinite == IsFiniteSet(Places)
<1>1. IsFiniteSet({1, 2})
  <2>1. IsFiniteSet({} \cup {1})
    BY FS_EmptySet, FS_AddElement
  <2>2. IsFiniteSet(({} \cup {1}) \cup {2})
    BY <2>1, FS_AddElement
  <2>3. ({} \cup {1}) \cup {2} = {1, 2}
    OBVIOUS
  <2> QED BY <2>2, <2>3, Zenon
<1>2. IsFiniteSet(Petents \X {1, 2})
  BY <1>1, SetsAssumption, FS_Product
<1> QED BY <1>2, FS_Subset DEF Places

\* A person who takes n places adds n to their number.
LEMMA AddPlaces ==
  ASSUME NEW S, IsFiniteSet(S), NEW p, NEW n \in {1, 2},
         \A k \in {1, 2} : <<p, k>> \notin S
  PROVE  Cardinality(S \cup PlacesOf(p, n)) = Cardinality(S) + n
<1>1. /\ IsFiniteSet(S \cup {<<p, 1>>})
      /\ Cardinality(S \cup {<<p, 1>>}) = Cardinality(S) + 1
  BY FS_AddElement
<1>2. Cardinality(S) \in Nat
  BY FS_CardinalityType
<1>3. CASE n = 1
  <2>1. PlacesOf(p, n) = {<<p, 1>>}
    BY <1>3 DEF PlacesOf
  <2> QED BY <2>1, <1>1, <1>3
<1>4. CASE n = 2
  <2>1. PlacesOf(p, n) = {<<p, 1>>, <<p, 2>>}
    BY <1>4 DEF PlacesOf
  <2>2. S \cup PlacesOf(p, n) = (S \cup {<<p, 1>>}) \cup {<<p, 2>>}
    BY <2>1
  <2>3. <<p, 2>> \notin S \cup {<<p, 1>>}
    OBVIOUS
  <2>4. Cardinality((S \cup {<<p, 1>>}) \cup {<<p, 2>>})
          = Cardinality(S \cup {<<p, 1>>}) + 1
    BY <1>1, <2>3, FS_AddElement
  <2>5. Cardinality((S \cup {<<p, 1>>}) \cup {<<p, 2>>})
          = Cardinality(S) + 2
    BY <2>4, <1>1, <1>2
  <2> QED BY <2>2, <2>5, <1>4
<1> QED BY <1>3, <1>4

\* How a petent moves: into the building, out of it, or neither, and what the
\* move does to the semaphore building.
LEMMA PetentMoves ==
  ASSUME NEW p \in Petents, PetentStep(p), CapacityInv
  PROVE  /\ pc' \in [Petents -> PetentLabels]
         /\ \A q \in Petents \ {p} : pc'[q] = pc[q]
         /\ LET n == cust[p].people_count IN
            \/ /\ ~Inside(p) /\ pc'[p] \in InBuilding
               /\ building >= n /\ building' = building - n
            \/ /\ Inside(p) /\ pc'[p] \notin InBuilding
               /\ building' \in {building, building + n}
            \/ /\ pc'[p] \in InBuilding => Inside(p)
               /\ building' = building
<1> USE DEF CapacityInv, Goto, At, Inside, InBuilding, LeaveLabels, GiveLabels,
            PetentLabels, semVars, doorVars
<1>1. CASE Register(p)          BY <1>1 DEF Register
<1>2. CASE PassConfigured(p)    BY <1>2 DEF PassConfigured
<1>3. CASE Arrive(p)            BY <1>3 DEF Arrive
<1>4. CASE LockOpened(p)        BY <1>4 DEF LockOpened
<1>5. CASE UnlockOpened(p)      BY <1>5 DEF UnlockOpened
<1>6. CASE EnterBuilding(p)     BY <1>6 DEF EnterBuilding
<1>7. CASE Entered(p)           BY <1>7 DEF Entered
<1>8. CASE LockTickets(p)       BY <1>8 DEF LockTickets
<1>9. CASE SendTicketRequest(p) BY <1>9 DEF SendTicketRequest
<1>10. CASE ReceiveTicket(p)    BY <1>10 DEF ReceiveTicket, NextVisit
<1>11. CASE LockQueue(p)        BY <1>11 DEF LockQueue
<1>12. CASE SendToWorker(p)     BY <1>12 DEF SendToWorker
<1>13. CASE ReceiveFromWorker(p) BY <1>13 DEF ReceiveFromWorker, NextVisit
<1>14. CASE WakeFrustrated(p)   BY <1>14 DEF WakeFrustrated, NextVisit
<1>15. CASE LeaveBuilding(p)
  <2>1. GiveLabel(pc[p]) \in GiveLabels
    BY <1>15 DEF LeaveBuilding, GiveLabel
  <2>2. AfterLeave(p, pc[p]) \in {"freeTickets", "freeQueue", "gone"}
    BY DEF AfterLeave
  <2> QED BY <1>15, <2>1, <2>2 DEF LeaveBuilding
<1>16. CASE GivePlaces(p)
  <2>1. AfterLeave(p, pc[p]) \in {"freeTickets", "freeQueue", "gone"}
    BY DEF AfterLeave
  <2> QED BY <1>16, <2>1 DEF GivePlaces, PlacesHeld
<1>17. CASE FreeTickets(p)      BY <1>17 DEF FreeTickets
<1>18. CASE FreeQueue(p)        BY <1>18 DEF FreeQueue
<1>19. CASE ExitOnRemovedIpc(p) BY <1>19 DEF ExitOnRemovedIpc
<1> QED
  BY <1>1, <1>2, <1>3, <1>4, <1>5, <1>6, <1>7, <1>8, <1>9, <1>10, <1>11,
     <1>12, <1>13, <1>14, <1>15, <1>16, <1>17, <1>18, <1>19 DEF PetentStep

\* The director moves petents by signal 2 only, and never into the building.
LEMMA DirectorMoves ==
  ASSUME DirectorStep, CapacityInv
  PROVE  /\ pc' \in [Petents -> PetentLabels]
         /\ \A p \in Petents : pc'[p] \in InBuilding => Inside(p)
         /\ \/ building' = building /\ dpc # "setBuilding"
            \/ building' = 0 /\ dpc \notin BeforeOpening
            \/ building' = BuildingMax /\ dpc = "setBuilding"
         /\ dpc' \in BeforeOpening => dpc \in BeforeOpening
         /\ dpc = "setBuilding" => dpc' = "working"
<1> USE DEF CapacityInv, Inside, doorVars, DGoto, BeforeOpening, unsignalled
<1>1. CASE Configure     BY <1>1 DEF Configure
<1>2. CASE OpenOffice    BY <1>2 DEF OpenOffice
<1>3. CASE SetOpened     BY <1>3 DEF SetOpened
<1>4. CASE SetBuilding   BY <1>4 DEF SetBuilding
<1>5. CASE TimeUp        BY <1>5 DEF TimeUp
<1>6. CASE Event1        BY <1>6 DEF Event1
<1>7. CASE SendSignal1   BY <1>7 DEF SendSignal1
<1>8. CASE Event2        BY <1>8 DEF Event2
<1>9. ASSUME NEW next, ScanPids(next), next \notin BeforeOpening
      PROVE  /\ pc' \in [Petents -> PetentLabels]
             /\ \A p \in Petents : pc'[p] \in InBuilding => Inside(p)
             /\ dpc' \in {dpc, next}
  <2>1. CASE UNCHANGED pc
    BY <1>9, <2>1 DEF ScanPids
  <2>2. ASSUME NEW p, Blocked(p), Goto(p, OnInterrupt(pc[p]))
        PROVE  /\ pc' \in [Petents -> PetentLabels]
               /\ \A q \in Petents : pc'[q] \in InBuilding => Inside(q)
    BY <2>2 DEF Blocked, Goto, OnInterrupt, PetentLabels, InBuilding, LeaveLabels,
       GiveLabels
  <2> QED BY <1>9, <2>1, <2>2 DEF ScanPids, Signal2
<1>10. CASE Evacuate     BY <1>10, <1>9 DEF Evacuate
<1>11. CASE CloseOpened  BY <1>11 DEF CloseOpened
<1>12. CASE CloseFlag    BY <1>12 DEF CloseFlag
<1>13. CASE CloseBuilding BY <1>13 DEF CloseBuilding
<1>14. CASE WriteReport  BY <1>14 DEF WriteReport
<1>15. CASE StopThread   BY <1>15 DEF StopThread
<1>16. CASE JoinThread   BY <1>16 DEF JoinThread
<1>17. CASE KillRemaining BY <1>17, <1>9 DEF KillRemaining
<1> QED
  BY <1>1, <1>2, <1>3, <1>4, <1>5, <1>6, <1>7, <1>8, <1>10, <1>11,
     <1>12, <1>13, <1>14, <1>15, <1>16, <1>17 DEF DirectorStep

\* The machines and the clerks only ever take the places away.
LEMMA MachineMoves ==
  ASSUME NEW m \in Machines, MachineStep(m)
  PROVE  building' \in {building, 0}
BY DEF MachineStep, MachineLockOpened, MachineUnlockOpened, MachineCheck,
       MachinePoll, MachineServe, MachineReply, MachineReport,
       MachineLockCheck, LockIfExhausted, semVars, doorVars

LEMMA WorkerMoves ==
  ASSUME NEW w \in Workers, WorkerStep(w)
  PROVE  building' \in {building, 0}
BY DEF WorkerStep, WorkerLockOpened, WorkerUnlockOpened, WorkerCheck,
       WorkerPoll, WorkerServe, WorkerNumber, WorkerReply, WorkerReport,
       WorkerLockCheck, WorkerDrainReport, WorkerDrainReply, LockIfExhausted,
       semVars, doorVars

LEMMA CapacityInit == Init => CapacityInv
<1> SUFFICES ASSUME Init PROVE CapacityInv
  OBVIOUS
<1>1. Places = {}
  BY DEF Init, Places, Inside, InBuilding, LeaveLabels, GiveLabels
<1>2. Cardinality(Places) = 0
  BY <1>1, FS_EmptySet
<1> QED
  BY <1>2, NumbersAssumption DEF Init, CapacityInv, BuildingCapacity, Inside,
     InBuilding, LeaveLabels, GiveLabels, PetentLabels

LEMMA CapacityStep == CapacityInv /\ [Next]_vars => CapacityInv'
<1> SUFFICES ASSUME CapacityInv, [Next]_vars PROVE CapacityInv'
  OBVIOUS
<1> USE NumbersAssumption
<1>a. Cardinality(Places) \in Nat /\ IsFiniteSet(Places)
  BY PlacesFinite, FS_CardinalityType
\* Places and building can only shrink: enough for every step but one.
<1>b. ASSUME Places' \subseteq Places, building' \in {building, 0}
      PROVE  BuildingCapacity' /\ building' \in Nat
  <2>1. Cardinality(Places') <= Cardinality(Places)
        /\ Cardinality(Places') \in Nat
    BY <1>a, <1>b, FS_Subset, FS_CardinalityType
  <2> QED BY <1>a, <1>b, <2>1 DEF BuildingCapacity, CapacityInv
<1>1. ASSUME NEW p \in Petents, PetentStep(p) PROVE CapacityInv'
  <2> DEFINE n == cust[p].people_count
  <2>1. n \in {1, 2} /\ cust' = cust /\ dpc' = dpc
    BY <1>1, PetentFrame, SetsAssumption
       DEF CapacityInv, Customers, directorVars
  <2>2. pc' \in [Petents -> PetentLabels]
        /\ \A q \in Petents \ {p} : pc'[q] = pc[q]
    BY <1>1, PetentMoves
  <2>3. CASE /\ ~Inside(p) /\ pc'[p] \in InBuilding
             /\ building >= n /\ building' = building - n
    <3>1. Places' = Places \cup PlacesOf(p, n)
      BY <2>1, <2>2, <2>3 DEF Places, PlacesOf, Inside
    <3>2. \A k \in {1, 2} : <<p, k>> \notin Places
      BY <2>3 DEF Places
    <3>3. Cardinality(Places') = Cardinality(Places) + n
      BY <3>1, <3>2, <2>1, <1>a, AddPlaces
    <3>4. dpc \notin BeforeOpening
      BY <2>1, <2>3 DEF CapacityInv
    <3> QED
      BY <3>3, <3>4, <2>1, <2>2, <2>3, <1>a DEF CapacityInv, BuildingCapacity
  <2>4. CASE /\ Inside(p) /\ pc'[p] \notin InBuilding
             /\ building' \in {building, building + n}
    <3>1. Places = Places' \cup PlacesOf(p, n)
      BY <2>1, <2>2, <2>4 DEF Places, PlacesOf, Inside
    <3>2. \A k \in {1, 2} : <<p, k>> \notin Places'
      BY <2>4 DEF Places, Inside
    <3>3. IsFiniteSet(Places') /\ Cardinality(Places') \in Nat
      BY <3>1, <1>a, FS_Subset, FS_CardinalityType
    <3>4. Cardinality(Places) = Cardinality(Places') + n
      BY <3>1, <3>2, <3>3, <2>1, AddPlaces
    <3>5. dpc \notin BeforeOpening
      BY <2>4 DEF CapacityInv
    <3> QED
      BY <3>3, <3>4, <3>5, <2>1, <2>2, <2>4
         DEF CapacityInv, BuildingCapacity
  <2>5. CASE /\ pc'[p] \in InBuilding => Inside(p)
             /\ building' = building
    <3>1. Places' \subseteq Places
      BY <2>1, <2>2, <2>5 DEF Places, Inside
    <3> QED
      BY <3>1, <1>b, <2>1, <2>2, <2>5 DEF CapacityInv, Inside
  <2> QED BY <1>1, <2>3, <2>4, <2>5, PetentMoves
<1>2. ASSUME DirectorStep PROVE CapacityInv'
  <2>1. cust' = cust /\ pc' \in [Petents -> PetentLabels]
        /\ \A p \in Petents : pc'[p] \in InBuilding => Inside(p)
    BY <1>2, DirectorFrame, DirectorMoves
  <2>2. Places' \subseteq Places
    BY <2>1 DEF Places, Inside
  <2>3. CASE dpc = "setBuilding"
    <3>1. Places' = {}
      BY <2>1, <2>3 DEF CapacityInv, BeforeOpening, Places, Inside
    <3>2. Cardinality(Places') = 0
      BY <3>1, FS_EmptySet
    <3>3. building' = BuildingMax /\ dpc' = "working"
      BY <1>2, <2>3, DirectorMoves DEF BeforeOpening
    <3> QED
      BY <3>2, <3>3, <2>1 DEF CapacityInv, BuildingCapacity, BeforeOpening
  <2>4. CASE dpc # "setBuilding"
    <3>1. building' \in {building, 0}
      BY <1>2, <2>4, DirectorMoves
    <3> QED
      BY <1>2, <1>b, <2>1, <2>2, <3>1, DirectorMoves DEF CapacityInv, Inside
  <2> QED BY <2>3, <2>4
<1>3. ASSUME UNCHANGED <<pc, cust, dpc>>, building' \in {building, 0}
      PROVE  CapacityInv'
  <2>1. Places' = Places
    BY <1>3 DEF Places, Inside
  <2> QED BY <2>1, <1>3, <1>b DEF CapacityInv, Inside
<1>4. ASSUME NEW m \in Machines, MachineStep(m) PROVE CapacityInv'
  BY <1>3, <1>4, MachineFrame, MachineMoves DEF petentVars, directorVars
<1>5. ASSUME NEW w \in Workers, WorkerStep(w) PROVE CapacityInv'
  BY <1>3, <1>5, WorkerFrame, WorkerMoves DEF petentVars, directorVars
<1>6. CASE ThreadStep
  BY <1>3, <1>6, ThreadFrame DEF petentVars, semVars, doorVars
<1>7. CASE RemoveIpc
  BY <1>3, <1>7 DEF RemoveIpc, petentVars, semVars, doorVars, directorVars
<1>8. CASE UNCHANGED vars
  BY <1>3, <1>8 DEF vars, petentVars, semVars, doorVars, directorVars
<1> QED
  BY <1>1, <1>2, <1>4, <1>5, <1>6, <1>7, <1>8 DEF Next, Rest

\* The building never holds more than building_max people, for any number of
\* petents, with or without a child, and however the four programs that write
\* the semaphore building interleave.
THEOREM Capacity == Spec => []BuildingCapacity
<1>1. CapacityInv => BuildingCapacity
  BY DEF CapacityInv
<1> QED BY CapacityInit, CapacityStep, <1>1, PTL DEF Spec

-------------------------------------------------------------------------------
(* The lock. *)

\* Unless a signal has interrupted a wait for it: semlock is free and nobody is
\* between the two ends of a section, or it is taken and exactly one process
\* is; and as long as a petent is, the flags it has looked at stay as they are.
LockKept ==
  /\ unlocked = {}
  /\ \/ semlock = 1 /\ LockHolders = {}
     \/ semlock = 0 /\ \E h : LockHolders = {h}
  /\ \A p \in Petents : pc[p] \in GiveLabels => is_opened /\ ~is_locked

LockInv ==
  /\ mpc \in [Machines -> MachineLabels] /\ pc \in [Petents -> PetentLabels]
  /\ semlock \in Nat
  /\ ~ignoredEintr /\ ~ipcRemoved => LockKept

LEMMA HoldersApart == Petents \cap Machines = {}
<1> SUFFICES ASSUME NEW x, x \in Petents, x \in Machines PROVE FALSE
  OBVIOUS
<1>1. x \in Nat
  BY SetsAssumption
<1>2. x \in Int
  BY <1>1
<1>3. Petents \cap Int = {}
  BY SetsAssumption
<1> QED BY <1>2, <1>3, Zenon

\* What a step of a machine does to the lock, to its own label and to the flags.
LEMMA MachineLockMoves ==
  ASSUME NEW m \in Machines, MachineStep(m), LockInv
  PROVE  /\ mpc' \in [Machines -> MachineLabels] /\ semlock' \in Nat
         /\ \A k \in Machines \ {m} : mpc'[k] = mpc[k]
         /\ is_locked' = is_locked \/ (semlock > 0 /\ semlock' = semlock)
         /\ \/ /\ semlock > 0 /\ semlock' = semlock - 1 /\ is_locked' = is_locked
               /\ MachineHoldsLock(m)'
            \/ /\ MachineHoldsLock(m) /\ semlock' = semlock + 1
               /\ ~MachineHoldsLock(m)' /\ is_locked' = is_locked
            \/ semlock' = semlock /\ (MachineHoldsLock(m)' <=> MachineHoldsLock(m))
<1> USE DEF LockInv, MGoto, MachineLabels, MachineHoldsLock, semVars, lockVars,
            shmVars, Critical
<1>1. CASE MachineLockOpened(m)   BY <1>1 DEF MachineLockOpened
<1>2. CASE MachineUnlockOpened(m) BY <1>2 DEF MachineUnlockOpened
<1>3. CASE MachineCheck(m)        BY <1>3 DEF MachineCheck
<1>4. CASE MachinePoll(m)         BY <1>4 DEF MachinePoll
<1>5. CASE MachineServe(m)
  <2>1. semlock > 0 /\ semlock' = semlock - 1 /\ is_locked' = is_locked
    BY <1>5 DEF MachineServe, TakeLock
  <2>2. mpc' = [mpc EXCEPT ![m] = "reply"]
    BY <1>5 DEF MachineServe
  <2>3. semlock' \in Nat
    BY <2>1
  <2>4. MachineHoldsLock(m)' /\ mpc' \in [Machines -> MachineLabels]
    BY <2>2
  <2> QED BY <2>1, <2>2, <2>3, <2>4
<1>6. CASE MachineReply(m)
  <2>1. mpc[m] = "reply" /\ is_locked' = is_locked
    BY <1>6 DEF MachineReply
  <2>2. \/ semlock' = semlock + 1 /\ mpc' = [mpc EXCEPT ![m] = "lockCheck"]
        \/ semlock' = semlock /\ mpc' = [mpc EXCEPT ![m] = "report"]
    BY <1>6 DEF MachineReply, GiveLock
  <2> QED BY <2>1, <2>2
<1>7. CASE MachineReport(m)
  <2>1. mpc[m] = "report" /\ is_locked' = is_locked
    BY <1>7 DEF MachineReport
  <2>2. semlock' = semlock + 1 /\ mpc' = [mpc EXCEPT ![m] = "lockCheck"]
    BY <1>7 DEF MachineReport, GiveLock
  <2> QED BY <2>1, <2>2
<1>8. CASE MachineLockCheck(m)    BY <1>8 DEF MachineLockCheck
<1> QED
  BY <1>1, <1>2, <1>3, <1>4, <1>5, <1>6, <1>7, <1>8 DEF MachineStep

\* Labels stay labels, and semlock never falls below zero.
LEMMA PetentLabelsStep ==
  ASSUME NEW p \in Petents, PetentStep(p), LockInv
  PROVE  pc' \in [Petents -> PetentLabels] /\ semlock' \in Nat
<1>1. semlock' \in Nat
  BY DEF PetentStep, Register, PassConfigured, Arrive, LockOpened, UnlockOpened,
     EnterBuilding, Entered, LockTickets, SendTicketRequest, ReceiveTicket,
     LockQueue, SendToWorker, ReceiveFromWorker, WakeFrustrated, LeaveBuilding,
     GivePlaces, FreeTickets, FreeQueue, ExitOnRemovedIpc, semVars, lockVars,
     EnterSection, LeaveSection, Section, TakeLock, Critical, LockInv
<1>2. PICK l \in PetentLabels : Goto(p, l)
  <2> USE DEF PetentLabels, InBuilding, LeaveLabels, GiveLabels
  <2>1. \A t : NextVisit(p, t) \in PetentLabels
    BY DEF NextVisit
  <2>2. \A l : AfterLeave(p, l) \in PetentLabels
    BY DEF AfterLeave
  <2>3. \A l \in LeaveLabels : GiveLabel(l) \in PetentLabels
    BY DEF GiveLabel
  <2> QED
    BY <2>1, <2>2, <2>3 DEF PetentStep, Register, PassConfigured, Arrive,
       LockOpened, UnlockOpened, EnterBuilding, Entered, LockTickets,
       SendTicketRequest, ReceiveTicket, LockQueue, SendToWorker,
       ReceiveFromWorker, WakeFrustrated, LeaveBuilding, GivePlaces, FreeTickets,
       FreeQueue, ExitOnRemovedIpc
<1> QED BY <1>1, <1>2 DEF Goto, LockInv

\* The same for a petent that nothing has interrupted.
LEMMA PetentLockMoves ==
  ASSUME NEW p \in Petents, PetentStep(p), LockInv, unlocked = {}, ~ipcRemoved
  PROVE  /\ unlocked' = {}
         /\ \A q \in Petents \ {p} : pc'[q] = pc[q]
         /\ \/ /\ semlock > 0 /\ semlock' = semlock - 1
               /\ pc'[p] \in GiveLabels /\ is_opened /\ ~is_locked
            \/ /\ pc[p] \in GiveLabels /\ semlock' = semlock + 1
               /\ pc'[p] \notin GiveLabels
            \/ /\ semlock' = semlock
               /\ pc[p] \notin GiveLabels /\ pc'[p] \notin GiveLabels
<1> USE DEF LockInv, Goto, At, LeaveLabels, GiveLabels, PetentLabels, InBuilding,
            semVars, lockVars, Critical
<1>1. CASE Register(p)          BY <1>1 DEF Register
<1>2. CASE PassConfigured(p)    BY <1>2 DEF PassConfigured
<1>3. CASE Arrive(p)            BY <1>3 DEF Arrive
<1>4. CASE LockOpened(p)        BY <1>4 DEF LockOpened
<1>5. CASE UnlockOpened(p)      BY <1>5 DEF UnlockOpened
<1>6. CASE EnterBuilding(p)     BY <1>6 DEF EnterBuilding
<1>7. CASE Entered(p)           BY <1>7 DEF Entered
<1>8. CASE LockTickets(p)       BY <1>8 DEF LockTickets
<1>9. CASE SendTicketRequest(p) BY <1>9 DEF SendTicketRequest
<1>10. CASE ReceiveTicket(p)    BY <1>10 DEF ReceiveTicket, NextVisit
<1>11. CASE LockQueue(p)        BY <1>11 DEF LockQueue
<1>12. CASE SendToWorker(p)     BY <1>12 DEF SendToWorker
<1>13. CASE ReceiveFromWorker(p) BY <1>13 DEF ReceiveFromWorker, NextVisit
<1>14. CASE WakeFrustrated(p)   BY <1>14 DEF WakeFrustrated, NextVisit
<1>15. CASE LeaveBuilding(p)
  <2>1. GiveLabel(pc[p]) \in GiveLabels
    BY <1>15 DEF LeaveBuilding, GiveLabel
  <2>2. AfterLeave(p, pc[p]) \notin GiveLabels
    BY DEF AfterLeave
  <2> QED
    BY <1>15, <2>1, <2>2 DEF LeaveBuilding, EnterSection, TakeLock, Section
<1>16. CASE GivePlaces(p)
  <2>1. AfterLeave(p, pc[p]) \notin GiveLabels
    BY DEF AfterLeave
  <2> QED BY <1>16, <2>1 DEF GivePlaces, LeaveSection
<1>17. CASE FreeTickets(p)      BY <1>17 DEF FreeTickets
<1>18. CASE FreeQueue(p)        BY <1>18 DEF FreeQueue
<1>19. CASE ExitOnRemovedIpc(p) BY <1>19 DEF ExitOnRemovedIpc
<1> QED
  BY <1>1, <1>2, <1>3, <1>4, <1>5, <1>6, <1>7, <1>8, <1>9, <1>10, <1>11,
     <1>12, <1>13, <1>14, <1>15, <1>16, <1>17, <1>18, <1>19 DEF PetentStep

\* Nobody but a petent itself takes it to or from a label of GiveLabels, and the
\* director opens and closes the office under semlock.
LEMMA DirectorGives ==
  ASSUME DirectorStep, LockInv
  PROVE  /\ pc' \in [Petents -> PetentLabels]
         /\ \A p \in Petents : pc'[p] \in GiveLabels <=> pc[p] \in GiveLabels
         /\ is_opened' = is_opened \/ semlock > 0
<1> USE DEF LockInv, DGoto, shmVars, unsignalled, Critical
<1>1. CASE Configure     BY <1>1 DEF Configure
<1>2. CASE OpenOffice    BY <1>2 DEF OpenOffice
<1>3. CASE SetOpened     BY <1>3 DEF SetOpened
<1>4. CASE SetBuilding   BY <1>4 DEF SetBuilding
<1>5. CASE TimeUp        BY <1>5 DEF TimeUp
<1>6. CASE Event1        BY <1>6 DEF Event1
<1>7. CASE SendSignal1   BY <1>7 DEF SendSignal1
<1>8. CASE Event2        BY <1>8 DEF Event2
<1>9. ASSUME NEW next, ScanPids(next)
      PROVE  /\ pc' \in [Petents -> PetentLabels]
             /\ \A p \in Petents : pc'[p] \in GiveLabels <=> pc[p] \in GiveLabels
  <2>1. CASE UNCHANGED pc
    BY <2>1
  <2>2. ASSUME NEW p, Blocked(p), Goto(p, OnInterrupt(pc[p]))
        PROVE  /\ pc' \in [Petents -> PetentLabels]
               /\ \A q \in Petents : pc'[q] \in GiveLabels <=> pc[q] \in GiveLabels
    BY <2>2 DEF Blocked, Goto, OnInterrupt, PetentLabels, InBuilding, LeaveLabels,
       GiveLabels
  <2> QED BY <1>9, <2>1, <2>2 DEF ScanPids, Signal2
<1>10. CASE Evacuate     BY <1>10, <1>9 DEF Evacuate
<1>11. CASE CloseOpened  BY <1>11 DEF CloseOpened
<1>12. CASE CloseFlag    BY <1>12 DEF CloseFlag
<1>13. CASE CloseBuilding BY <1>13 DEF CloseBuilding
<1>14. CASE WriteReport  BY <1>14 DEF WriteReport
<1>15. CASE StopThread   BY <1>15 DEF StopThread
<1>16. CASE JoinThread   BY <1>16 DEF JoinThread
<1>17. CASE KillRemaining BY <1>17, <1>9 DEF KillRemaining
<1> QED
  BY <1>1, <1>2, <1>3, <1>4, <1>5, <1>6, <1>7, <1>8, <1>10, <1>11,
     <1>12, <1>13, <1>14, <1>15, <1>16, <1>17 DEF DirectorStep

\* A clerk that nothing has interrupted only looks at the lock.
LEMMA WorkerLockMoves ==
  ASSUME NEW w \in Workers, WorkerStep(w), unlocked = {}
  PROVE  /\ UNCHANGED <<semlock, unlocked>>
         /\ is_locked' = is_locked \/ semlock > 0
<1>1. UNCHANGED <<semlock, unlocked>>
  BY WorkerFrame DEF lockVars
<1>2. is_locked' = is_locked \/ semlock > 0
  <2>1. CASE WorkerLockCheck(w)
    BY <2>1 DEF WorkerLockCheck, Section, Critical
  <2>2. CASE ~WorkerLockCheck(w)
    BY <2>2 DEF WorkerStep, WorkerLockOpened, WorkerUnlockOpened, WorkerCheck,
       WorkerPoll, WorkerServe, WorkerNumber, WorkerReply, WorkerReport,
       WorkerDrainReport, WorkerDrainReply, shmVars
  <2> QED BY <2>1, <2>2
<1> QED BY <1>1, <1>2

LEMMA LockInit == Init => LockInv
BY DEF Init, LockInv, LockKept, LockHolders, MachineLabels, MachineHoldsLock,
       GiveLabels, PetentLabels

LEMMA LockStep == LockInv /\ [Next]_vars => LockInv'
<1> SUFFICES ASSUME LockInv, [Next]_vars PROVE LockInv'
  OBVIOUS
<1>3. LockKept /\ semlock > 0 => \A p \in Petents : pc[p] \notin GiveLabels
  BY DEF LockKept, LockHolders
<1>1. ASSUME NEW m \in Machines, MachineStep(m) PROVE LockInv'
  <2>1. UNCHANGED <<pc, is_opened, unlocked, ignoredEintr, ipcRemoved>>
    BY <1>1, MachineFrame DEF petentVars
  <2>2. m \notin Petents
    BY HoldersApart
  <2>3. /\ mpc' \in [Machines -> MachineLabels] /\ semlock' \in Nat
        /\ \A k \in Machines \ {m} : (MachineHoldsLock(k)' <=> MachineHoldsLock(k))
    BY <1>1, MachineLockMoves DEF MachineHoldsLock
  <2>4. LockHolders' \ {m} = LockHolders \ {m}
    BY <2>1, <2>3 DEF LockHolders
  <2>5. m \in LockHolders <=> MachineHoldsLock(m)
    BY <2>2 DEF LockHolders
  <2>6. (m \in LockHolders)' <=> MachineHoldsLock(m)'
    BY <2>2 DEF LockHolders
  <2>7. ASSUME LockKept PROVE LockKept'
    <3>2. \A p \in Petents : pc'[p] \in GiveLabels => is_opened' /\ ~is_locked'
      BY <1>1, <1>3, <2>1, <2>7, MachineLockMoves DEF LockKept
    <3>3. \/ semlock' = 1 /\ LockHolders' = {}
          \/ semlock' = 0 /\ \E h : LockHolders' = {h}
      <4>1. CASE semlock > 0 /\ semlock' = semlock - 1 /\ MachineHoldsLock(m)'
        <5>1. semlock' = 0 /\ LockHolders' = {m}
          BY <2>4, <2>6, <2>7, <4>1 DEF LockKept
        <5> QED BY <5>1
      <4>2. CASE /\ MachineHoldsLock(m) /\ semlock' = semlock + 1
                 /\ ~MachineHoldsLock(m)'
        <5>1. semlock = 0 /\ LockHolders = {m}
          BY <2>5, <2>7, <4>2 DEF LockKept
        <5> QED BY <2>4, <2>6, <4>2, <5>1
      <4>3. CASE semlock' = semlock /\ (MachineHoldsLock(m)' <=> MachineHoldsLock(m))
        <5>1. LockHolders' = LockHolders
          BY <2>4, <2>5, <2>6, <4>3
        <5> QED BY <2>7, <4>3, <5>1 DEF LockKept
      <4> QED BY <1>1, <4>1, <4>2, <4>3, MachineLockMoves
    <3> QED BY <2>1, <2>7, <3>2, <3>3 DEF LockKept
  <2> QED BY <2>1, <2>3, <2>7 DEF LockInv
<1>2. ASSUME NEW p \in Petents, PetentStep(p) PROVE LockInv'
  <2>1. /\ UNCHANGED <<is_opened, is_locked, mpc, ignoredEintr, ipcRemoved>>
        /\ pc' \in [Petents -> PetentLabels] /\ semlock' \in Nat
    BY <1>2, PetentFrame, PetentLabelsStep DEF machineVars
  <2>2. p \notin Machines
    BY HoldersApart
  <2>3. ASSUME LockKept, ~ipcRemoved PROVE LockKept'
    <3>0. unlocked = {}
      BY <2>3 DEF LockKept
    <3>1. unlocked' = {} /\ \A q \in Petents \ {p} : pc'[q] = pc[q]
      BY <1>2, <2>3, <3>0, PetentLockMoves
    <3>2. LockHolders' \ {p} = LockHolders \ {p}
      BY <2>1, <3>0, <3>1 DEF LockHolders, MachineHoldsLock
    <3>3. p \in LockHolders <=> pc[p] \in GiveLabels
      BY <2>2, <3>0 DEF LockHolders
    <3>4. (p \in LockHolders)' <=> pc'[p] \in GiveLabels
      BY <2>2, <3>1 DEF LockHolders
    <3>5. CASE /\ semlock > 0 /\ semlock' = semlock - 1
               /\ pc'[p] \in GiveLabels /\ is_opened /\ ~is_locked
      <4>1. semlock' = 0 /\ LockHolders' = {p}
        BY <2>3, <3>2, <3>4, <3>5 DEF LockKept
      <4> QED BY <2>1, <2>3, <3>1, <3>5, <4>1 DEF LockKept
    <3>6. CASE /\ pc[p] \in GiveLabels /\ semlock' = semlock + 1
               /\ pc'[p] \notin GiveLabels
      <4>1. semlock = 0 /\ LockHolders = {p}
        BY <2>3, <3>3, <3>6 DEF LockKept
      <4>2. semlock' = 1 /\ LockHolders' = {}
        BY <3>2, <3>4, <3>6, <4>1
      <4> QED BY <2>1, <2>3, <3>1, <3>6, <4>2 DEF LockKept
    <3>7. CASE /\ semlock' = semlock
               /\ pc[p] \notin GiveLabels /\ pc'[p] \notin GiveLabels
      <4>1. LockHolders' = LockHolders
        BY <3>2, <3>3, <3>4, <3>7
      <4> QED BY <2>1, <2>3, <3>1, <3>7, <4>1 DEF LockKept
    <3> QED BY <1>2, <2>3, <3>0, <3>5, <3>6, <3>7, PetentLockMoves
  <2> QED BY <2>1, <2>3 DEF LockInv
<1>4. ASSUME NEW w \in Workers, WorkerStep(w) PROVE LockInv'
  <2>1. UNCHANGED <<mpc, pc, is_opened, ignoredEintr, ipcRemoved>>
    BY <1>4, WorkerFrame DEF machineVars, petentVars
  <2>2. semlock' \in Nat
    BY <1>4, WorkerFrame DEF LockInv, lockVars, LeaveSection
  <2>3. LockKept => LockKept'
    <3> SUFFICES ASSUME LockKept PROVE LockKept'
      OBVIOUS
    <3>1. UNCHANGED <<semlock, unlocked>> /\ (is_locked' = is_locked \/ semlock > 0)
      BY <1>4, WorkerLockMoves DEF LockKept
    <3>2. LockHolders' = LockHolders
      BY <2>1, <3>1 DEF LockHolders, MachineHoldsLock
    <3> QED BY <1>3, <2>1, <3>1, <3>2 DEF LockKept
  <2> QED BY <2>1, <2>2, <2>3 DEF LockInv
<1>5. CASE DirectorStep
  <2>1. /\ UNCHANGED <<mpc, semlock, is_locked, ipcRemoved>>
        /\ ~ignoredEintr' => ~ignoredEintr /\ UNCHANGED unlocked
    BY <1>5, DirectorFrame DEF machineVars
  <2>2. ASSUME ~ignoredEintr', LockKept PROVE LockKept'
    <3>1. LockHolders' = LockHolders
      BY <1>5, <2>1, <2>2, DirectorGives DEF LockHolders, MachineHoldsLock
    <3> QED BY <1>3, <1>5, <2>1, <2>2, <3>1, DirectorGives DEF LockKept
  <2> QED BY <1>5, <2>1, <2>2, DirectorGives DEF LockInv
<1>6. ASSUME UNCHANGED <<shmVars, lockVars, machineVars, petentVars>>,
             ~ipcRemoved' => ~ipcRemoved
      PROVE  LockInv'
  BY <1>6 DEF LockInv, LockKept, LockHolders, MachineHoldsLock, shmVars, lockVars,
     machineVars, petentVars
<1>7. CASE ThreadStep
  BY <1>6, <1>7, ThreadFrame DEF semVars
<1>8. CASE RemoveIpc
  BY <1>6, <1>8 DEF RemoveIpc, semVars
<1>9. CASE UNCHANGED vars
  BY <1>6, <1>9 DEF vars, semVars
<1> QED
  BY <1>1, <1>2, <1>4, <1>5, <1>7, <1>8, <1>9 DEF Next, Rest

\* semlock is never taken twice, never given back by who does not hold it, and
\* never left behind: rejestracja.c unlocks on both ways through lines 184-207,
\* petent.c on every way through unlock_sem_building, until a signal interrupts
\* a wait for it that nobody checks.
THEOREM LockOwner == Spec => []LockHeldByOne
<1>1. LockInv => LockHeldByOne
  <2> SUFFICES ASSUME LockInv, ~ignoredEintr, ~ipcRemoved
               PROVE  semlock + Cardinality(LockHolders) = 1
    BY DEF LockHeldByOne
  <2>1. CASE semlock = 1 /\ LockHolders = {}
    BY <2>1, FS_EmptySet
  <2>2. ASSUME NEW h, semlock = 0, LockHolders = {h}
        PROVE  semlock + Cardinality(LockHolders) = 1
    <3>1. Cardinality({h}) = 1
      BY FS_Singleton
    <3> QED BY <2>2, <3>1
  <2> QED BY <2>1, <2>2 DEF LockInv, LockKept
<1> QED BY <1>1, LockInit, LockStep, PTL DEF Spec

-------------------------------------------------------------------------------
(* The doors. *)

WorkerIdle(w) ==
  wpc[w] \in {"opened", "inOpened", "check", "pollPrio", "poll", "drainPrio",
              "drain", "done"}

\* Before the office opens nothing is on its way and no limit has been touched.
Untouched ==
  /\ ~is_locked /\ limit = LimitInit /\ saLimit = SaLimitInit
  /\ \A t \in MsgTypes : msgs[t] = <<>>
  /\ \A m \in Machines : mpc[m] \notin {"serve", "reply", "report"}
  /\ \A w \in Workers : WorkerIdle(w)

\* Once shut, the building offers no place, and a closed office cannot give one
\* back because is_opened is cleared before building is.
ShutInv ==
  /\ dpc \in DirectorLabels
  /\ mpc \in [Machines -> MachineLabels] /\ wpc \in [Workers -> WorkerLabels]
  /\ NoPlacesOnceShut
  /\ dpc \in AfterClosing \cup {"closeBuilding"} => ~is_opened
  /\ dpc \in BeforeOpening => Untouched

\* Nobody sends or takes a message while all of them stand before the doors.
LEMMA PetentQuiet ==
  ASSUME NEW p \in Petents, PetentStep(p), ~Inside(p)
  PROVE  UNCHANGED msgs
BY DEF PetentStep, Register, PassConfigured, Arrive, LockOpened, UnlockOpened,
       EnterBuilding, Entered, LockTickets, SendTicketRequest, ReceiveTicket,
       LockQueue, SendToWorker, ReceiveFromWorker, WakeFrustrated,
       LeaveBuilding, GivePlaces, FreeTickets, FreeQueue, ExitOnRemovedIpc, At,
       Inside, InBuilding, LeaveLabels, GiveLabels

\* A petent gives places back only at the labels of GiveLabels.
LEMMA PetentGivesBack ==
  ASSUME NEW p \in Petents, PetentStep(p), CapacityInv
  PROVE  building' <= building \/ (pc[p] \in GiveLabels /\ ~ipcRemoved)
<1>0. cust[p].people_count \in {1, 2}
  BY SetsAssumption DEF CapacityInv, Customers
<1> USE DEF CapacityInv, semVars, doorVars
<1>1. CASE EnterBuilding(p)     BY <1>0, <1>1 DEF EnterBuilding
<1>2. CASE GivePlaces(p)        BY <1>2 DEF GivePlaces
<1>3. CASE ~EnterBuilding(p) /\ ~GivePlaces(p)
  BY <1>3 DEF PetentStep, Register, PassConfigured, Arrive, LockOpened,
     UnlockOpened, Entered, LockTickets, SendTicketRequest, ReceiveTicket,
     LockQueue, SendToWorker, ReceiveFromWorker, WakeFrustrated, LeaveBuilding,
     FreeTickets, FreeQueue, ExitOnRemovedIpc
<1> QED BY <1>1, <1>2, <1>3

LEMMA LimitsLeft == Untouched => ~AllLimitsExhausted
BY LimitsAssumption, NumbersAssumption DEF Untouched, AllLimitsExhausted

\* A machine before the opening only loops, and finds a limit that is left.
LEMMA MachineUntouched ==
  ASSUME NEW m \in Machines, MachineStep(m), Untouched, ShutInv
  PROVE  Untouched'
<1> USE DEF Untouched, ShutInv, MGoto, semVars, limitVars, shmVars, workerVars,
            notMachines, MachineLabels, WorkerIdle
<1>1. CASE MachineLockOpened(m)   BY <1>1 DEF MachineLockOpened
<1>2. CASE MachineUnlockOpened(m) BY <1>2 DEF MachineUnlockOpened
<1>3. CASE MachineCheck(m)        BY <1>3 DEF MachineCheck
<1>4. CASE MachinePoll(m)
  BY <1>4 DEF MachinePoll, Receive, Pending, MsgTypes, D_MSG_TICKET
<1>5. CASE MachineServe(m)        BY <1>5 DEF MachineServe
<1>6. CASE MachineReply(m)        BY <1>6 DEF MachineReply
<1>7. CASE MachineReport(m)       BY <1>7 DEF MachineReport
<1>8. CASE MachineLockCheck(m)
  BY <1>8, LimitsLeft DEF MachineLockCheck, LockIfExhausted
<1> QED
  BY <1>1, <1>2, <1>3, <1>4, <1>5, <1>6, <1>7, <1>8 DEF MachineStep

LEMMA WorkerTypesUsed ==
  ASSUME NEW w \in Workers
  PROVE  PriorityType(w) \in MsgTypes /\ NormalType(w) \in MsgTypes
BY SetsAssumption DEF PriorityType, NormalType, MsgTypes, WorkerMsgTypes

LEMMA WorkerUntouched ==
  ASSUME NEW w \in Workers, WorkerStep(w), Untouched, ShutInv
  PROVE  Untouched'
<1> USE DEF Untouched, ShutInv, WGoto, semVars, limitVars, shmVars, machineVars,
            notWorkers, WorkerLabels, WorkerIdle
<1>1. CASE WorkerLockOpened(w)   BY <1>1 DEF WorkerLockOpened
<1>2. CASE WorkerUnlockOpened(w) BY <1>2 DEF WorkerUnlockOpened
<1>3. CASE WorkerCheck(w)        BY <1>3 DEF WorkerCheck
<1>4. CASE WorkerPoll(w)
  BY <1>4, WorkerTypesUsed DEF WorkerPoll, Take, Receive, Pending
<1>5. CASE WorkerServe(w)        BY <1>5 DEF WorkerServe
<1>6. CASE WorkerNumber(w)       BY <1>6 DEF WorkerNumber
<1>7. CASE WorkerReply(w)        BY <1>7 DEF WorkerReply
<1>8. CASE WorkerReport(w)       BY <1>8 DEF WorkerReport
<1>9. CASE WorkerLockCheck(w)    BY <1>9 DEF WorkerLockCheck
<1>10. CASE WorkerDrainReport(w) BY <1>10 DEF WorkerDrainReport
<1>11. CASE WorkerDrainReply(w)  BY <1>11 DEF WorkerDrainReply
<1> QED
  BY <1>1, <1>2, <1>3, <1>4, <1>5, <1>6, <1>7, <1>8, <1>9, <1>10, <1>11
     DEF WorkerStep

\* Labels stay labels, and whoever locks the building shuts it as well.
LEMMA MachineLabelsStep ==
  ASSUME NEW m \in Machines, MachineStep(m), ShutInv
  PROVE  /\ mpc' \in [Machines -> MachineLabels]
         /\ \/ UNCHANGED <<is_locked, building>>
            \/ is_locked' /\ building' = 0
BY DEF MachineStep, MachineLockOpened, MachineUnlockOpened, MachineCheck,
       MachinePoll, MachineServe, MachineReply, MachineReport,
       MachineLockCheck, LockIfExhausted, semVars, doorVars, shmVars, ShutInv,
       MGoto, MachineLabels

LEMMA WorkerLabelsStep ==
  ASSUME NEW w \in Workers, WorkerStep(w), ShutInv
  PROVE  /\ wpc' \in [Workers -> WorkerLabels]
         /\ \/ UNCHANGED <<is_locked, building>>
            \/ is_locked' /\ building' = 0
<1> USE DEF semVars, doorVars, shmVars, ShutInv, WGoto, WorkerLabels
<1>1. CASE WorkerPoll(w)         BY <1>1 DEF WorkerPoll, Take
<1>2. CASE WorkerDrainReply(w)   BY <1>2 DEF WorkerDrainReply, DrainLoop
<1>3. CASE WorkerReply(w)        BY <1>3 DEF WorkerReply, AfterReply
<1>4. CASE WorkerLockCheck(w)    BY <1>4 DEF WorkerLockCheck, LockIfExhausted
<1>5. CASE /\ ~WorkerPoll(w) /\ ~WorkerDrainReply(w)
           /\ ~WorkerReply(w) /\ ~WorkerLockCheck(w)
  BY <1>5 DEF WorkerStep, WorkerLockOpened, WorkerUnlockOpened, WorkerCheck,
     WorkerServe, WorkerNumber, WorkerReport, WorkerDrainReport
<1> QED BY <1>1, <1>2, <1>3, <1>4, <1>5

\* The order in which the director opens and closes.
LEMMA DirectorDoors ==
  ASSUME DirectorStep, ShutInv
  PROVE  /\ dpc' \in DirectorLabels
         /\ wpc' \in [Workers -> WorkerLabels]
         /\ dpc \in BeforeOpening => wpc' = wpc
         /\ dpc' \in BeforeOpening => dpc \in BeforeOpening
         /\ \/ dpc \in AfterClosing /\ building' = building
            \/ dpc = "closeBuilding" /\ building' = 0
            \/ dpc = "setBuilding" /\ building' = BuildingMax /\ dpc' = "working"
            \/ /\ dpc \notin AfterClosing /\ building' = building
               /\ dpc' \notin AfterClosing
         /\ dpc' \in AfterClosing \cup {"closeBuilding"} => ~is_opened'
<1> USE DEF ShutInv, doorVars, shmVars, unsignalled, DGoto, BeforeOpening,
            AfterClosing, DirectorLabels
<1>1. CASE Configure     BY <1>1 DEF Configure
<1>2. CASE OpenOffice    BY <1>2 DEF OpenOffice
<1>3. CASE SetOpened     BY <1>3 DEF SetOpened
<1>4. CASE SetBuilding   BY <1>4 DEF SetBuilding
<1>5. CASE TimeUp        BY <1>5 DEF TimeUp
<1>6. CASE Event1        BY <1>6 DEF Event1
<1>7. CASE SendSignal1
  <2>1. wpc' \in [Workers -> WorkerLabels]
    BY <1>7 DEF SendSignal1, Signal1, AfterFailure, AfterReply, DrainLoop,
       WorkerLabels
  <2> QED BY <1>7, <2>1 DEF SendSignal1
<1>8. CASE Event2        BY <1>8 DEF Event2
<1>9. CASE Evacuate      BY <1>9 DEF Evacuate, ScanPids
<1>10. CASE CloseOpened  BY <1>10 DEF CloseOpened
<1>11. CASE CloseFlag    BY <1>11 DEF CloseFlag
<1>12. CASE CloseBuilding BY <1>12 DEF CloseBuilding
<1>13. CASE WriteReport  BY <1>13 DEF WriteReport
<1>14. CASE StopThread   BY <1>14 DEF StopThread
<1>15. CASE JoinThread   BY <1>15 DEF JoinThread
<1>16. CASE KillRemaining BY <1>16 DEF KillRemaining, ScanPids
<1> QED
  BY <1>1, <1>2, <1>3, <1>4, <1>5, <1>6, <1>7, <1>8, <1>9, <1>10, <1>11,
     <1>12, <1>13, <1>14, <1>15, <1>16 DEF DirectorStep

LEMMA ShutInit == Init => ShutInv
BY DEF Init, ShutInv, DirectorLabels, MachineLabels, WorkerLabels,
       NoPlacesOnceShut, AfterClosing, BeforeOpening, Untouched, WorkerIdle

LEMMA ShutStep == CapacityInv /\ LockInv /\ ShutInv /\ [Next]_vars => ShutInv'
<1> SUFFICES ASSUME CapacityInv, LockInv, ShutInv, [Next]_vars PROVE ShutInv'
  OBVIOUS
<1>1. ASSUME NEW p \in Petents, PetentStep(p) PROVE ShutInv'
  <2>1. UNCHANGED <<is_opened, is_locked, limit, saLimit, mpc, wpc, dpc,
                    ignoredEintr>>
    BY <1>1, PetentFrame DEF machineVars, workerVars, directorVars
  <2>2. NoPlacesOnceShut'
    <3>1. building' <= building \/ ignoredEintr \/ (is_opened /\ ~is_locked)
      BY <1>1, PetentGivesBack DEF LockInv, LockKept
    <3>2. building' \in Nat /\ building \in Nat
      BY CapacityStep DEF CapacityInv
    <3> QED
      BY <2>1, <3>1, <3>2 DEF ShutInv, NoPlacesOnceShut
  <2>3. dpc \in BeforeOpening => Untouched'
    BY <1>1, <2>1, PetentQuiet
       DEF CapacityInv, ShutInv, Untouched, WorkerIdle
  <2> QED BY <2>1, <2>2, <2>3 DEF ShutInv
<1>2. ASSUME NEW m \in Machines, MachineStep(m) PROVE ShutInv'
  BY <1>2, MachineFrame, MachineLabelsStep, MachineUntouched
     DEF ShutInv, NoPlacesOnceShut, workerVars, directorVars
<1>3. ASSUME NEW w \in Workers, WorkerStep(w) PROVE ShutInv'
  BY <1>3, WorkerFrame, WorkerLabelsStep, WorkerUntouched
     DEF ShutInv, NoPlacesOnceShut, machineVars, directorVars
<1>4. CASE DirectorStep
  <2>1. UNCHANGED <<is_locked, limit, saLimit, msgs, mpc>>
    BY <1>4, DirectorFrame DEF machineVars
  <2>2. dpc' \in BeforeOpening => Untouched'
    BY <1>4, <2>1, DirectorDoors DEF ShutInv, Untouched, WorkerIdle
  <2>3. NoPlacesOnceShut'
    BY <1>4, <2>1, DirectorDoors, DirectorFrame
       DEF ShutInv, NoPlacesOnceShut, Untouched, AfterClosing, BeforeOpening
  <2> QED BY <1>4, <2>1, <2>2, <2>3, DirectorDoors DEF ShutInv
<1>5. CASE ThreadStep
  <2>1. UNCHANGED <<is_opened, is_locked, building, limit, saLimit, mpc, wpc,
                    dpc, ignoredEintr>>
    BY <1>5, ThreadFrame DEF shmVars, semVars, lockVars, doorVars, limitVars,
       machineVars, workerVars
  <2>2. dpc \in BeforeOpening => UNCHANGED msgs
    BY <1>5 DEF ThreadStep, ThreadReceive, ThreadStop, Receive, Pending,
       ShutInv, Untouched, MsgTypes
  <2> QED
    BY <2>1, <2>2 DEF ShutInv, Untouched, WorkerIdle, NoPlacesOnceShut
<1>6. ASSUME UNCHANGED <<shmVars, semVars, msgs, machineVars, workerVars,
                         directorVars>>
      PROVE  ShutInv'
  BY <1>6 DEF shmVars, semVars, lockVars, doorVars, limitVars, machineVars,
     workerVars, directorVars, ShutInv, Untouched, WorkerIdle, NoPlacesOnceShut
<1>7. CASE RemoveIpc
  BY <1>6, <1>7 DEF RemoveIpc
<1>8. CASE UNCHANGED vars
  BY <1>6, <1>8 DEF vars
<1> QED
  BY <1>1, <1>2, <1>3, <1>4, <1>5, <1>7, <1>8 DEF Next, Rest

\* After the closing, and after the office is locked for want of tickets, no
\* place is ever offered again: the two checks of unlock_sem_building, made
\* under semlock, and the order of dyrektor.c:237-243 are enough until a signal
\* interrupts a wait for semlock.
THEOREM DoorsStayShut == Spec => []NoPlacesOnceShut
<1>1. ShutInv => NoPlacesOnceShut
  BY DEF ShutInv
<1> QED
  BY CapacityInit, CapacityStep, LockInit, LockStep, ShutInit, ShutStep, <1>1, PTL
     DEF Spec

\* Somebody enters by a step of its own, through the semaphore building.
LEMMA Enters ==
  ASSUME CapacityInv, [Next]_vars, NEW p \in Petents, ~Inside(p), Inside(p)'
  PROVE  /\ PetentStep(p) /\ building >= cust[p].people_count
         /\ building' = building - cust[p].people_count
<1>1. PICK q \in Petents : PetentStep(q)
  <2>1. ASSUME UNCHANGED pc PROVE FALSE
    BY <2>1 DEF Inside
  <2>2. ~DirectorStep
    BY DirectorMoves DEF Inside
  <2>3. \A m \in Machines : ~MachineStep(m)
    BY <2>1, MachineFrame DEF petentVars
  <2>4. \A w \in Workers : ~WorkerStep(w)
    BY <2>1, WorkerFrame DEF petentVars
  <2>5. ~ThreadStep
    BY <2>1, ThreadFrame DEF petentVars
  <2>6. ~RemoveIpc /\ ~UNCHANGED vars
    BY <2>1 DEF RemoveIpc, vars, petentVars
  <2> QED BY <2>2, <2>3, <2>4, <2>5, <2>6 DEF Next, Rest
<1>2. q = p
  BY <1>1, PetentMoves DEF Inside
<1> QED BY <1>1, <1>2, PetentMoves DEF Inside

\* No petent enters before the opening, after the closing or once the office is
\* locked, though petent.c looks at neither flag before it takes a place.
THEOREM Doors == Spec => EntersOnlyWhileOpen
<1>1. ASSUME CapacityInv, ShutInv, [Next]_vars, ~ignoredEintr,
             NEW p \in Petents, ~Inside(p), Inside(p)'
      PROVE  ~is_locked /\ dpc \notin BeforeOpening \cup AfterClosing
  <2>1. building >= cust[p].people_count
    BY <1>1, Enters
  <2>2. cust[p].people_count \in {1, 2}
    BY <1>1, SetsAssumption DEF CapacityInv, Customers
  <2> QED
    BY <1>1, <2>1, <2>2 DEF CapacityInv, ShutInv, NoPlacesOnceShut
<1>2. CapacityInv /\ ShutInv /\ [Next]_vars =>
        [\A p \in Petents :
           (~ignoredEintr /\ ~Inside(p) /\ Inside(p)') =>
             ~is_locked /\ dpc \notin BeforeOpening \cup AfterClosing]_vars
  BY <1>1
<1> QED
  BY CapacityInit, CapacityStep, LockInit, LockStep, ShutInit, ShutStep, <1>2, PTL
     DEF Spec, EntersOnlyWhileOpen
===============================================================================
