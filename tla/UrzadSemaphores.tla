--------------------------- MODULE UrzadSemaphores ---------------------------
(***************************************************************************)
(* The counting semaphores of the office, for every value of the           *)
(* constants: building is the lobby of module Lobby, and while the office  *)
(* is open no place of it is lost; tickets and those of the queues are     *)
(* never leaked and never given back twice.                                *)
(***************************************************************************)
EXTENDS UrzadTypes

\* No signal is sent before the working hours are over, main tidies up after
\* the director, and the office says it is open when its doors are.
DayInv ==
  /\ ignoredEintr \in BOOLEAN
  /\ dpc \in BeforeOpening \cup {"working"} =>
       ~ignoredEintr /\ \A p \in Petents : ~sig2[p]
  /\ dpc \in {"setOpened", "setBuilding", "working"} => is_opened
  /\ ipcRemoved => dpc = "exit"

LobbyInv == CapacityInv /\ LockInv /\ ShutInv /\ DayInv

LEMMA DayInit == Init => DayInv
BY DEF Init, DayInv, BeforeOpening

\* The steps of the director as the lobby sees them: it opens, ends, or shuts
\* it, or sends a signal that may interrupt somebody, or does nothing to it.
LEMMA DirectorLobby ==
  ASSUME DirectorStep, LobbyInv
  PROVE  /\ \A p \in Petents : Inside(p)' <=> Inside(p)
         /\ DayInv'
         /\ \/ /\ dpc \in BeforeOpening /\ dpc' \in BeforeOpening
               /\ UNCHANGED <<building, ignoredEintr>>
            \/ /\ dpc = "setBuilding" /\ dpc' = "working"
               /\ building' = BuildingMax /\ ignoredEintr' = ignoredEintr
            \/ /\ dpc = "working" /\ dpc' \in {"closeOpened", "signal1", "evacuate"}
               /\ UNCHANGED <<building, ignoredEintr>>
            \/ /\ dpc = "closeBuilding" /\ dpc' = "report"
               /\ building' = 0 /\ ignoredEintr' = ignoredEintr
            \/ /\ dpc \notin BeforeOpening \cup {"working"}
               /\ dpc' \notin BeforeOpening \cup {"working"}
               /\ dpc \in AfterClosing <=> dpc' \in AfterClosing
               /\ building' = building /\ ignoredEintr' \in {ignoredEintr, TRUE}
<1> USE DEF LobbyInv, DayInv, ShutInv, Inside, BeforeOpening, AfterClosing, DGoto,
            DirectorLabels, shmVars, doorVars, unsignalled, lockVars, elsewhere
<1>1. CASE Configure     BY <1>1 DEF Configure
<1>2. CASE OpenOffice    BY <1>2 DEF OpenOffice
<1>3. CASE SetOpened     BY <1>3 DEF SetOpened
<1>4. CASE SetBuilding   BY <1>4 DEF SetBuilding
<1>5. CASE TimeUp        BY <1>5 DEF TimeUp
<1>6. CASE Event1        BY <1>6 DEF Event1
<1>7. CASE SendSignal1
  <2>1. ignoredEintr' \in {ignoredEintr, TRUE}
    BY <1>7 DEF SendSignal1, Signal1
  <2> QED BY <1>7, <2>1 DEF SendSignal1
<1>8. CASE Event2        BY <1>8 DEF Event2
<1>9. ASSUME NEW next, ScanPids(next)
      PROVE  /\ \A p \in Petents : Inside(p)' <=> Inside(p)
             /\ ignoredEintr' \in {ignoredEintr, TRUE}
             /\ dpc' \in {dpc, next}
  <2>1. pc \in [Petents -> PetentLabels]
    BY DEF CapacityInv
  <2>2. ASSUME NEW p, Blocked(p), Goto(p, OnInterrupt(pc[p]))
        PROVE  \A q \in Petents : Inside(q)' <=> Inside(q)
    BY <2>1, <2>2 DEF Blocked, Goto, OnInterrupt, InBuilding, LeaveLabels,
       GiveLabels
  <2> QED BY <1>9, <2>2 DEF ScanPids, Signal2
<1>10. CASE Evacuate
  <2>1. /\ dpc = "evacuate" /\ ScanPids("closeOpened")
        /\ UNCHANGED <<building, is_opened, ipcRemoved>>
    BY <1>10 DEF Evacuate
  <2>2. /\ \A p \in Petents : Inside(p)' <=> Inside(p)
        /\ ignoredEintr' \in {ignoredEintr, TRUE}
        /\ dpc' \in {"evacuate", "closeOpened"}
    BY <1>9, <2>1
  <2> QED BY <2>1, <2>2
<1>11. CASE CloseOpened  BY <1>11 DEF CloseOpened
<1>12. CASE CloseFlag    BY <1>12 DEF CloseFlag
<1>13. CASE CloseBuilding BY <1>13 DEF CloseBuilding
<1>14. CASE WriteReport  BY <1>14 DEF WriteReport
<1>15. CASE StopThread   BY <1>15 DEF StopThread
<1>16. CASE JoinThread   BY <1>16 DEF JoinThread
<1>17. CASE KillRemaining
  <2>1. /\ dpc = "kill" /\ ScanPids("exit")
        /\ UNCHANGED <<building, is_opened, ipcRemoved>>
    BY <1>17 DEF KillRemaining
  <2>2. /\ \A p \in Petents : Inside(p)' <=> Inside(p)
        /\ ignoredEintr' \in {ignoredEintr, TRUE}
        /\ dpc' \in {"kill", "exit"}
    BY <1>9, <2>1
  <2> QED BY <2>1, <2>2
<1> QED
  BY <1>1, <1>2, <1>3, <1>4, <1>5, <1>6, <1>7, <1>8, <1>10, <1>11,
     <1>12, <1>13, <1>14, <1>15, <1>16, <1>17 DEF DirectorStep

\* A petent that leaves the building gives its places back, or has a reason
\* not to: signal 2, a flag of the office, or an IPC object that is gone.
LEMMA PetentReturns ==
  ASSUME NEW p \in Petents, PetentStep(p), LobbyInv, Inside(p), ~Inside(p)'
  PROVE  \/ /\ building' = building + cust[p].people_count
            /\ pc[p] \in GiveLabels /\ ~ipcRemoved
         \/ /\ building' = building
            /\ ipcRemoved \/ sig2[p] \/ ~is_opened \/ is_locked
<1> USE DEF LobbyInv, CapacityInv, Goto, At, Inside, InBuilding, LeaveLabels,
            GiveLabels, semVars, doorVars
<1>1. CASE ReceiveTicket(p)     BY <1>1 DEF ReceiveTicket, NextVisit
<1>2. CASE ReceiveFromWorker(p) BY <1>2 DEF ReceiveFromWorker, NextVisit
<1>3. CASE WakeFrustrated(p)    BY <1>3 DEF WakeFrustrated, NextVisit
<1>4. CASE LeaveBuilding(p)
  <2>1. GiveLabel(pc[p]) \in GiveLabels
    BY <1>4 DEF LeaveBuilding, GiveLabel
  <2> QED BY <1>4, <2>1 DEF LeaveBuilding
<1>5. CASE GivePlaces(p)        BY <1>5 DEF GivePlaces, PlacesHeld
<1>6. CASE ExitOnRemovedIpc(p)  BY <1>6 DEF ExitOnRemovedIpc
<1>7. CASE \/ Register(p) \/ PassConfigured(p) \/ Arrive(p) \/ LockOpened(p)
           \/ UnlockOpened(p) \/ EnterBuilding(p) \/ FreeTickets(p) \/ FreeQueue(p)
  BY <1>7 DEF Register, PassConfigured, Arrive, LockOpened, UnlockOpened,
     EnterBuilding, FreeTickets, FreeQueue
<1>8. CASE \/ Entered(p) \/ LockTickets(p) \/ SendTicketRequest(p) \/ LockQueue(p)
           \/ SendToWorker(p)
  BY <1>8 DEF Entered, LockTickets, SendTicketRequest, LockQueue, SendToWorker
<1> QED
  BY <1>1, <1>2, <1>3, <1>4, <1>5, <1>6, <1>7, <1>8 DEF PetentStep

LEMMA DayStep == LobbyInv /\ [Next]_vars => DayInv'
<1> SUFFICES ASSUME LobbyInv, [Next]_vars PROVE DayInv'
  OBVIOUS
<1>1. ASSUME UNCHANGED <<is_opened, ignoredEintr, sig2, dpc, ipcRemoved>>
      PROVE  DayInv'
  BY <1>1 DEF LobbyInv, DayInv
<1>2. ASSUME NEW p \in Petents, PetentStep(p) PROVE DayInv'
  BY <1>1, <1>2, PetentFrame DEF directorVars
<1>3. ASSUME NEW m \in Machines, MachineStep(m) PROVE DayInv'
  BY <1>1, <1>3, MachineFrame DEF petentVars, directorVars
<1>4. ASSUME NEW w \in Workers, WorkerStep(w) PROVE DayInv'
  BY <1>1, <1>4, WorkerFrame DEF petentVars, directorVars
<1>5. CASE DirectorStep
  BY <1>5, DirectorLobby
<1>6. CASE ThreadStep
  BY <1>1, <1>6, ThreadFrame DEF shmVars, semVars, lockVars, petentVars
<1>7. CASE RemoveIpc
  BY <1>7 DEF RemoveIpc, ChildrenDone, LobbyInv, DayInv, shmVars, semVars, lockVars,
     petentVars, directorVars
<1>8. CASE UNCHANGED vars
  BY <1>1, <1>8 DEF vars, shmVars, semVars, lockVars, petentVars, directorVars
<1> QED
  BY <1>2, <1>3, <1>4, <1>5, <1>6, <1>7, <1>8 DEF Next, Rest

LEMMA LobbyInvInit == Init => LobbyInv
BY CapacityInit, LockInit, ShutInit, DayInit DEF LobbyInv

LEMMA LobbyInvStep == LobbyInv /\ [Next]_vars => LobbyInv'
BY CapacityStep, LockStep, ShutStep, DayStep DEF LobbyInv

\* How a machine or a clerk that locks the office shuts the lobby: never before
\* it has been opened.
LEMMA ShutByMachine ==
  ASSUME NEW m \in Machines, MachineStep(m), LobbyInv
  PROVE  \/ UNCHANGED <<is_locked, building>>
         \/ is_locked' /\ building' = 0 /\ dpc \notin BeforeOpening
BY MachineLabelsStep, MachineUntouched DEF LobbyInv, ShutInv, Untouched

LEMMA ShutByWorker ==
  ASSUME NEW w \in Workers, WorkerStep(w), LobbyInv
  PROVE  \/ UNCHANGED <<is_locked, building>>
         \/ is_locked' /\ building' = 0 /\ dpc \notin BeforeOpening
BY WorkerLabelsStep, WorkerUntouched DEF LobbyInv, ShutInv, Untouched

-------------------------------------------------------------------------------
(* The refinement. *)

insideSet == {p \in Petents : Inside(p)}
sizes     == [p \in Petents |-> cust[p].people_count]
mapped    == <<insideSet, sizes, building, LobbyPhase, ignoredEintr>>

LEMMA LobbyStart == Init => Lobby!LobbyInit
<1> SUFFICES ASSUME Init PROVE Lobby!LobbyInit
  OBVIOUS
<1>1. {p \in Petents : Inside(p)} = {}
  BY DEF Init, Inside, InBuilding, LeaveLabels, GiveLabels
<1>2. [p \in Petents |-> cust[p].people_count] \in [Petents -> {1, 2}]
  BY SetsAssumption DEF Init, Customers
<1>3. building = 0 /\ LobbyPhase = "before" /\ ignoredEintr = FALSE
  BY DEF Init, LobbyPhase, BeforeOpening, AfterClosing
<1> QED BY <1>1, <1>2, <1>3 DEF Lobby!LobbyInit

\* A step that leaves everything the lobby is mapped to.
LEMMA LobbyStutter ==
  ASSUME \A p \in Petents : Inside(p)' <=> Inside(p),
         UNCHANGED <<cust, building, LobbyPhase, ignoredEintr>>
  PROVE  UNCHANGED mapped
BY DEF mapped, insideSet, sizes

LEMMA LobbyPetent ==
  ASSUME NEW p \in Petents, PetentStep(p), LobbyInv
  PROVE  Lobby!Enter(p) \/ Lobby!Leave(p) \/ UNCHANGED mapped
<1> DEFINE n == cust[p].people_count
<1>1. UNCHANGED <<is_opened, is_locked, dpc, cust, ignoredEintr>>
  BY PetentFrame DEF directorVars
<1>2. LobbyPhase' = LobbyPhase /\ sizes' = sizes /\ sizes[p] = n
  BY <1>1 DEF LobbyPhase, sizes
<1>3. /\ pc' \in [Petents -> PetentLabels]
      /\ \A q \in Petents \ {p} : pc'[q] = pc[q]
  BY PetentMoves DEF LobbyInv
<1>4. CASE ~Inside(p) /\ Inside(p)'
  <2>1. building >= n /\ building' = building - n
    BY <1>4, PetentMoves DEF LobbyInv, Inside
  <2>2. insideSet' = insideSet \cup {p} /\ p \notin insideSet
    BY <1>3, <1>4 DEF insideSet, Inside
  <2> QED
    BY <1>1, <1>2, <2>1, <2>2 DEF Lobby!Enter, insideSet, sizes
<1>5. CASE Inside(p) /\ ~Inside(p)'
  <2>1. insideSet' = insideSet \ {p} /\ p \in insideSet
    BY <1>3, <1>5 DEF insideSet, Inside
  <2>2. LobbyPhase # "before"
    BY <1>5 DEF LobbyInv, CapacityInv, LobbyPhase
  <2>3. n \in Nat /\ building \in Nat
    <3>1. n \in {1, 2}
      BY SetsAssumption DEF LobbyInv, CapacityInv, Customers
    <3> QED BY <3>1 DEF LobbyInv, CapacityInv
  <2>4. CASE LobbyPhase = "open"
    <3>1. dpc = "working" /\ ~is_locked
      BY <2>4 DEF LobbyPhase
    <3>2. ~sig2[p] /\ is_opened /\ ~ipcRemoved
      BY <3>1 DEF LobbyInv, DayInv
    <3>3. building' = building + n
      BY <1>5, <3>1, <3>2, PetentReturns
    <3> QED
      BY <1>1, <1>2, <2>1, <2>2, <2>4, <3>3
         DEF Lobby!Leave, Lobby!Returned, insideSet, sizes
  <2>5. CASE LobbyPhase = "ending" \/ ignoredEintr
    <3>1. \E k \in {0, n} : building' = building + k
      BY <1>5, <2>3, PetentReturns
    <3>2. LobbyPhase # "open"
      BY <2>5 DEF LobbyPhase, LobbyInv, DayInv
    <3> QED
      BY <1>1, <1>2, <2>1, <2>2, <2>5, <3>1, <3>2
         DEF Lobby!Leave, Lobby!Returned, insideSet, sizes
  <2>6. CASE LobbyPhase = "shut" /\ ~ignoredEintr
    <3>1. is_locked \/ dpc \in AfterClosing
      BY <2>6 DEF LobbyPhase
    <3>2. ~is_opened \/ is_locked
      BY <3>1 DEF LobbyInv, ShutInv
    <3>3. pc[p] \in GiveLabels => ipcRemoved
      BY <2>6, <3>2 DEF LobbyInv, LockInv, LockKept
    <3>4. building' = building + 0
      BY <1>5, <2>3, <3>3, PetentReturns
    <3> QED
      BY <1>1, <1>2, <2>1, <2>2, <2>6, <3>4
         DEF Lobby!Leave, Lobby!Returned, insideSet, sizes
  <2> QED BY <2>2, <2>4, <2>5, <2>6 DEF LobbyPhase
<1>6. CASE Inside(p)' <=> Inside(p)
  <2>1. building' = building
    BY <1>6, PetentMoves DEF LobbyInv, Inside
  <2>2. \A q \in Petents : Inside(q)' <=> Inside(q)
    BY <1>3, <1>6 DEF Inside
  <2> QED BY <1>1, <1>2, <2>1, <2>2, LobbyStutter
<1> QED BY <1>4, <1>5, <1>6

\* Machines and clerks change the lobby only by locking the office.
LEMMA LobbyLocked ==
  ASSUME LobbyInv, UNCHANGED <<pc, cust, dpc, ignoredEintr>>,
         \/ UNCHANGED <<is_locked, building>>
         \/ is_locked' /\ building' = 0 /\ dpc \notin BeforeOpening
  PROVE  Lobby!Shut \/ UNCHANGED mapped
<1>1. \A p \in Petents : Inside(p)' <=> Inside(p)
  BY DEF Inside
<1>2. CASE UNCHANGED <<is_locked, building>>
  BY <1>1, <1>2, LobbyStutter DEF LobbyPhase
<1>3. CASE is_locked' /\ building' = 0 /\ dpc \notin BeforeOpening
  <2>1. LobbyPhase # "before" /\ LobbyPhase' = "shut"
    BY <1>3 DEF LobbyPhase
  <2> QED BY <1>1, <1>3, <2>1 DEF Lobby!Shut
<1> QED BY <1>2, <1>3

LEMMA LobbyDirector ==
  ASSUME DirectorStep, LobbyInv
  PROVE  \/ Lobby!Open \/ Lobby!End \/ Lobby!Shut \/ Lobby!Loosen
         \/ UNCHANGED mapped
<1>1. is_locked' = is_locked /\ cust' = cust
  BY DirectorFrame
<1>2. \A p \in Petents : Inside(p)' <=> Inside(p)
  BY DirectorLobby
<1>3. dpc \in BeforeOpening => ~is_locked
  BY DEF LobbyInv, ShutInv, Untouched
<1>4. {p \in Petents : Inside(p)}' = {p \in Petents : Inside(p)}
      /\ [p \in Petents |-> cust[p].people_count]'
           = [p \in Petents |-> cust[p].people_count]
  BY <1>1, <1>2
<1> USE DEF LobbyPhase, BeforeOpening, AfterClosing
<1>5. CASE /\ dpc \in BeforeOpening /\ dpc' \in BeforeOpening
           /\ UNCHANGED <<building, ignoredEintr>>
  BY <1>1, <1>2, <1>3, <1>5, LobbyStutter
<1>6. CASE /\ dpc = "setBuilding" /\ dpc' = "working"
           /\ building' = BuildingMax /\ ignoredEintr' = ignoredEintr
  BY <1>1, <1>3, <1>4, <1>6 DEF Lobby!Open
<1>7. CASE /\ dpc = "working" /\ dpc' \in {"closeOpened", "signal1", "evacuate"}
           /\ UNCHANGED <<building, ignoredEintr>>
  <2>1. CASE is_locked
    BY <1>1, <1>2, <1>7, <2>1, LobbyStutter
  <2>2. CASE ~is_locked
    BY <1>1, <1>4, <1>7, <2>2 DEF Lobby!End
  <2> QED BY <2>1, <2>2
<1>8. CASE /\ dpc = "closeBuilding" /\ dpc' = "report"
           /\ building' = 0 /\ ignoredEintr' = ignoredEintr
  BY <1>1, <1>4, <1>8 DEF Lobby!Shut
<1>9. CASE /\ dpc \notin BeforeOpening \cup {"working"}
           /\ dpc' \notin BeforeOpening \cup {"working"}
           /\ dpc \in AfterClosing <=> dpc' \in AfterClosing
           /\ building' = building /\ ignoredEintr' \in {ignoredEintr, TRUE}
  <2>1. LobbyPhase' = LobbyPhase /\ LobbyPhase \in {"ending", "shut"}
    BY <1>1, <1>9
  <2>2. CASE ignoredEintr' = ignoredEintr
    BY <1>1, <1>2, <1>9, <2>1, <2>2, LobbyStutter
  <2>3. CASE ignoredEintr' = TRUE
    BY <1>4, <1>9, <2>1, <2>3 DEF Lobby!Loosen
  <2> QED BY <1>9, <2>2, <2>3
<1> QED BY <1>5, <1>6, <1>7, <1>8, <1>9, DirectorLobby

LEMMA LobbyStep == LobbyInv /\ [Next]_vars => [Lobby!LobbyNext]_mapped
<1> SUFFICES ASSUME LobbyInv, [Next]_vars PROVE Lobby!LobbyNext \/ UNCHANGED mapped
  OBVIOUS
<1>1. ASSUME NEW p \in Petents, PetentStep(p)
      PROVE  Lobby!LobbyNext \/ UNCHANGED mapped
  BY <1>1, LobbyPetent DEF Lobby!LobbyNext
<1>2. ASSUME NEW m \in Machines, MachineStep(m)
      PROVE  Lobby!LobbyNext \/ UNCHANGED mapped
  BY <1>2, MachineFrame, ShutByMachine, LobbyLocked
     DEF petentVars, directorVars, Lobby!LobbyNext
<1>3. ASSUME NEW w \in Workers, WorkerStep(w)
      PROVE  Lobby!LobbyNext \/ UNCHANGED mapped
  BY <1>3, WorkerFrame, ShutByWorker, LobbyLocked
     DEF petentVars, directorVars, Lobby!LobbyNext
<1>4. CASE DirectorStep
  BY <1>4, LobbyDirector DEF Lobby!LobbyNext
<1>5. ASSUME UNCHANGED <<pc, cust, dpc, is_locked, building, ignoredEintr>>
      PROVE  UNCHANGED mapped
  BY <1>5, LobbyStutter DEF Inside, LobbyPhase
<1>6. CASE ThreadStep
  BY <1>5, <1>6, ThreadFrame DEF shmVars, semVars, lockVars, doorVars, petentVars
<1>7. CASE RemoveIpc
  BY <1>5, <1>7 DEF RemoveIpc, shmVars, semVars, lockVars, doorVars, petentVars,
     directorVars
<1>8. CASE UNCHANGED vars
  BY <1>5, <1>8 DEF vars, shmVars, semVars, lockVars, doorVars, petentVars,
     directorVars
<1> QED
  BY <1>1, <1>2, <1>3, <1>4, <1>6, <1>7, <1>8 DEF Next, Rest

\* The four programs that write the semaphore building keep the promise of the
\* abstract lobby: places are given back in full while the office is open, never
\* once it is shut, and only a wait for semlock that a signal interrupted can
\* change that.
THEOREM Refinement == Spec => LobbyImplemented
<1>1. [Lobby!LobbyNext]_mapped => [Lobby!LobbyNext]_(Lobby!lobbyVars)
  BY DEF mapped, insideSet, sizes, Lobby!lobbyVars
<1> QED
  BY LobbyInvInit, LobbyInvStep, LobbyStart, LobbyStep, <1>1, PTL
     DEF Spec, LobbyImplemented, Lobby!LobbySpec

-------------------------------------------------------------------------------
(* No place is lost. *)

LEMMA PlacesMove ==
  ASSUME NEW p \in Petents, PetentStep(p), CapacityInv
  PROVE  LET n == cust[p].people_count IN
         /\ n \in {1, 2} /\ Cardinality(Places) \in Nat
         /\ Cardinality(Places') \in Nat
         /\ ~Inside(p) /\ Inside(p)' =>
              Cardinality(Places') = Cardinality(Places) + n
         /\ Inside(p) /\ ~Inside(p)' =>
              Cardinality(Places) = Cardinality(Places') + n
         /\ (Inside(p)' <=> Inside(p)) => Places' = Places
<1> DEFINE n == cust[p].people_count
<1>1. n \in {1, 2} /\ cust' = cust
  BY PetentFrame, SetsAssumption DEF CapacityInv, Customers
<1>2. \A q \in Petents \ {p} : pc'[q] = pc[q]
  BY PetentMoves
<1>3. IsFiniteSet(Places) /\ Cardinality(Places) \in Nat
  BY PlacesFinite, FS_CardinalityType
<1>4. ASSUME ~Inside(p), Inside(p)'
      PROVE  /\ Cardinality(Places') = Cardinality(Places) + n
             /\ Cardinality(Places') \in Nat
  <2>1. Places' = Places \cup PlacesOf(p, n)
    BY <1>1, <1>2, <1>4 DEF Places, PlacesOf, Inside
  <2>2. \A k \in {1, 2} : <<p, k>> \notin Places
    BY <1>4 DEF Places
  <2>3. Cardinality(Places') = Cardinality(Places) + n
    BY <1>1, <1>3, <2>1, <2>2, AddPlaces
  <2> QED BY <1>1, <1>3, <2>3
<1>5. ASSUME Inside(p), ~Inside(p)'
      PROVE  /\ Cardinality(Places) = Cardinality(Places') + n
             /\ Cardinality(Places') \in Nat
  <2>1. Places = Places' \cup PlacesOf(p, n)
    BY <1>1, <1>2, <1>5 DEF Places, PlacesOf, Inside
  <2>2. \A k \in {1, 2} : <<p, k>> \notin Places'
    BY <1>5 DEF Places, Inside
  <2>3. IsFiniteSet(Places') /\ Cardinality(Places') \in Nat
    BY <2>1, <1>3, FS_Subset, FS_CardinalityType
  <2> QED BY <1>1, <2>1, <2>2, <2>3, AddPlaces
<1>6. (Inside(p)' <=> Inside(p)) => Places' = Places
  BY <1>1, <1>2 DEF Places, Inside
<1> QED BY <1>1, <1>3, <1>4, <1>5, <1>6

LEMMA PlaceStep == LobbyInv /\ NoPlaceLost /\ [Next]_vars => NoPlaceLost'
<1> SUFFICES ASSUME LobbyInv, NoPlaceLost, [Next]_vars,
                    dpc' = "working", ~is_locked'
             PROVE  Cardinality(Places') + building' = BuildingMax
  BY DEF NoPlaceLost
<1>1. ASSUME UNCHANGED <<pc, cust, dpc, is_locked, building>>
      PROVE  Cardinality(Places') + building' = BuildingMax
  <2>1. Places' = Places
    BY <1>1 DEF Places, Inside
  <2> QED BY <1>1, <2>1 DEF NoPlaceLost
<1>2. ASSUME NEW p \in Petents, PetentStep(p)
      PROVE  Cardinality(Places') + building' = BuildingMax
  <2> DEFINE n == cust[p].people_count
  <2>1. UNCHANGED <<is_opened, is_locked, dpc>>
    BY <1>2, PetentFrame DEF directorVars
  <2>2. is_opened /\ ~sig2[p] /\ ~ipcRemoved
    BY <2>1 DEF LobbyInv, DayInv
  <2>3. Cardinality(Places) + building = BuildingMax /\ building \in Nat
    BY <2>1 DEF NoPlaceLost, LobbyInv, CapacityInv
  <2>4. n \in {1, 2} /\ Cardinality(Places) \in Nat /\ Cardinality(Places') \in Nat
    BY <1>2, PlacesMove DEF LobbyInv
  <2>5. CASE ~Inside(p) /\ Inside(p)'
    <3>1. building' = building - n
      BY <1>2, <2>5, PetentMoves DEF LobbyInv, Inside
    <3>2. Cardinality(Places') = Cardinality(Places) + n
      BY <1>2, <2>5, PlacesMove DEF LobbyInv
    <3> QED BY <2>3, <2>4, <3>1, <3>2
  <2>6. CASE Inside(p) /\ ~Inside(p)'
    <3>1. building' = building + n
      BY <1>2, <2>1, <2>2, <2>6, PetentReturns
    <3>2. Cardinality(Places) = Cardinality(Places') + n
      BY <1>2, <2>6, PlacesMove DEF LobbyInv
    <3> QED BY <2>3, <2>4, <3>1, <3>2
  <2>7. CASE Inside(p)' <=> Inside(p)
    <3>1. building' = building
      BY <1>2, <2>7, PetentMoves DEF LobbyInv, Inside
    <3>2. Places' = Places
      BY <1>2, <2>7, PlacesMove DEF LobbyInv
    <3> QED BY <2>3, <3>1, <3>2
  <2> QED BY <2>5, <2>6, <2>7
<1>3. ASSUME NEW m \in Machines, MachineStep(m)
      PROVE  Cardinality(Places') + building' = BuildingMax
  BY <1>1, <1>3, MachineFrame, ShutByMachine DEF petentVars, directorVars
<1>4. ASSUME NEW w \in Workers, WorkerStep(w)
      PROVE  Cardinality(Places') + building' = BuildingMax
  BY <1>1, <1>4, WorkerFrame, ShutByWorker DEF petentVars, directorVars
<1>5. CASE DirectorStep
  <2>1. dpc = "setBuilding" /\ building' = BuildingMax
    BY <1>5, DirectorLobby DEF BeforeOpening
  <2>2. Places' = {}
    BY <1>5, <2>1, DirectorLobby
       DEF LobbyInv, CapacityInv, BeforeOpening, Places, Inside
  <2> QED BY <2>1, <2>2, FS_EmptySet, NumbersAssumption
<1>6. CASE ThreadStep
  BY <1>1, <1>6, ThreadFrame DEF shmVars, semVars, doorVars, petentVars
<1>7. CASE RemoveIpc
  BY <1>1, <1>7 DEF RemoveIpc, shmVars, semVars, doorVars, petentVars, directorVars
<1>8. CASE UNCHANGED vars
  BY <1>1, <1>8 DEF vars, shmVars, semVars, doorVars, petentVars, directorVars
<1> QED
  BY <1>2, <1>3, <1>4, <1>5, <1>6, <1>7, <1>8 DEF Next, Rest

\* While the office is open and not locked, whoever has left has given back
\* every place it took: no way out of petent.c forgets a child.
THEOREM PlacesKept == Spec => []NoPlaceLost
<1>1. Init => NoPlaceLost
  BY DEF Init, NoPlaceLost
<1> QED
  BY LobbyInvInit, LobbyInvStep, PlaceStep, <1>1, PTL DEF Spec

-------------------------------------------------------------------------------
(* The queues. *)

\* Only a petent that queues stands at the two labels that use a semaphore of
\* a clerk without asking again whether it does.
QueueUsers == \A p \in Petents : pc[p] \in {"queue", "freeQueue"} => UsesQueue(p)

QueueInv == TypeInv /\ QueueUsers /\ QueuesConserved

\* The number of members of a set when one element joins it or leaves it.
LEMMA JoinCount ==
  ASSUME NEW S, IsFiniteSet(S), NEW T, NEW x, x \notin S, T = S \cup {x}
  PROVE  Cardinality(T) = Cardinality(S) + 1 /\ Cardinality(S) \in Nat
BY FS_AddElement, FS_CardinalityType

\* How the move of p between the holders of a semaphore changes its counter.
Balanced(held, heldNext, c, d) ==
  \/ ~held /\ heldNext /\ d = c - 1
  \/ held /\ ~heldNext /\ d = c + 1
  \/ (held <=> heldNext) /\ d = c

LEMMA BalancedCount ==
  ASSUME NEW p \in Petents, NEW S \in SUBSET Petents, NEW T \in SUBSET Petents,
         \A q \in Petents \ {p} : q \in S <=> q \in T,
         NEW c \in Int, NEW d, NEW n \in Int, Balanced(p \in S, p \in T, c, d),
         c + Cardinality(S) = n
  PROVE  d + Cardinality(T) = n
<1>1. IsFiniteSet(S) /\ IsFiniteSet(T)
  BY SetsAssumption, FS_Subset
<1>2. Cardinality(S) \in Nat /\ Cardinality(T) \in Nat
  BY <1>1, FS_CardinalityType
<1>3. CASE p \notin S /\ p \in T /\ d = c - 1
  <2>1. T = S \cup {p}
    BY <1>3
  <2> QED BY <2>1, <1>1, <1>2, <1>3, JoinCount
<1>4. CASE p \in S /\ p \notin T /\ d = c + 1
  <2>1. S = T \cup {p}
    BY <1>4
  <2>2. Cardinality(S) = Cardinality(T) + 1
    BY <2>1, <1>1, <1>4, JoinCount
  <2> QED BY <2>2, <1>2, <1>4
<1>5. CASE (p \in S <=> p \in T) /\ d = c
  <2>1. S = T
    BY <1>5
  <2> QED BY <2>1, <1>5
<1> QED BY <1>3, <1>4, <1>5 DEF Balanced

TicketLabels == {"sendTicket", "waitTicket", "leaveTickets", "giveTickets",
                 "freeTickets"}
QueueLabels  == {"send", "waitWorker", "leaveQueue", "giveQueue", "freeQueue"}

\* What a petent does to the two counters, action by action.
LEMMA PetentQueues ==
  ASSUME NEW p \in Petents, PetentStep(p), ~ipcRemoved, TypeInv, QueueUsers
  PROVE  /\ \A q \in Petents \ {p} : pc'[q] = pc[q] /\ tck'[q] = tck[q]
         /\ Balanced(HoldsTickets(p), HoldsTickets(p)', tickets, tickets')
         /\ \A f \in Faculties :
              Balanced(HoldsQueue(p, f), HoldsQueue(p, f)',
                       queueSem[f], queueSem'[f])
         /\ QueueUsers'
<1>0. cust' = cust /\ UsesQueue(p)' = UsesQueue(p)
  BY PetentFrame DEF UsesQueue
<1>m. /\ pc \in [Petents -> PetentLabels] /\ tck \in [Petents -> Tickets]
      /\ queueSem \in [Faculties -> Nat]
  BY DEF TypeInv, CapacityInv, PetentsOK, SharedOK
<1> DEFINE U == UsesQueue(p)
           F(f) == tck[p].facultytype = f
           held == pc[p] \in TicketLabels
           heldNext == pc'[p] \in TicketLabels
           HQ(f) == U /\ F(f) /\ pc[p] \in QueueLabels
           HQN(f) == U /\ tck'[p].facultytype = f /\ pc'[p] \in QueueLabels
           Others == \A q \in Petents \ {p} : pc'[q] = pc[q] /\ tck'[q] = tck[q]
           Goal == /\ Others
                   /\ Balanced(held, heldNext, tickets, tickets')
                   /\ \A f \in Faculties :
                        Balanced(HQ(f), HQN(f), queueSem[f], queueSem'[f])
                   /\ pc'[p] \in {"queue", "freeQueue"} => U
<1>s. SUFFICES Goal
  <2>1. ASSUME Goal PROVE QueueUsers'
    BY <2>1, <1>0 DEF QueueUsers, UsesQueue
  <2>2. HoldsTickets(p) = held /\ HoldsTickets(p)' = heldNext
    BY DEF HoldsTickets, TicketLabels
  <2>3. \A f : HoldsQueue(p, f) = HQ(f) /\ HoldsQueue(p, f)' = HQN(f)
    BY <1>0 DEF HoldsQueue, QueueLabels
  <2> QED BY <2>1, <2>2, <2>3
\* A step that leaves both semaphores and both groups as they are.
<1>a. ASSUME UNCHANGED <<tickets, queueSem, tck>>, NEW l, Goto(p, l),
             held <=> l \in TicketLabels,
             pc[p] \in QueueLabels <=> l \in QueueLabels,
             l \in {"queue", "freeQueue"} => U
      PROVE  Goal
  BY <1>a, <1>m DEF Goto, Balanced
\* A step that takes a token of the machines, or gives one back.
<1>b. ASSUME UNCHANGED <<queueSem>>, NEW l, Goto(p, l),
             Others, l \notin {"freeQueue"}, l = "queue" => U,
             ~U \/ (pc[p] \notin QueueLabels /\ l \notin QueueLabels),
             Balanced(held, l \in TicketLabels, tickets, tickets')
      PROVE  Goal
  BY <1>b, <1>m DEF Goto, Balanced
<1> USE DEF Goto, At, TicketLabels, QueueLabels, semVars, lineVars
<1>1. CASE Register(p)
  BY <1>1, <1>a DEF Register
<1>2. CASE PassConfigured(p)
  BY <1>2, <1>a DEF PassConfigured
<1>3. CASE Arrive(p)
  BY <1>3, <1>a DEF Arrive
<1>4. CASE LockOpened(p)
  BY <1>4, <1>a DEF LockOpened
<1>5. CASE UnlockOpened(p)
  BY <1>5, <1>a DEF UnlockOpened
<1>6. CASE EnterBuilding(p)
  BY <1>6, <1>a DEF EnterBuilding
<1>7. CASE Entered(p)
  BY <1>7, <1>m DEF Entered, Balanced
<1>8. CASE LockTickets(p)
  BY <1>8, <1>m DEF LockTickets, Balanced
<1>9. CASE SendTicketRequest(p)
  BY <1>9, <1>a DEF SendTicketRequest
<1>10. CASE ReceiveTicket(p)
  BY <1>10, <1>b, <1>m DEF ReceiveTicket, NextVisit, Balanced
<1>11. CASE LockQueue(p)
  BY <1>11, <1>m DEF LockQueue, Balanced, QueueUsers
<1>12. CASE SendToWorker(p)
  BY <1>12, <1>a DEF SendToWorker
<1>13. CASE ReceiveFromWorker(p)
  <2>1. pc[p] = "waitWorker" /\ tck[p].facultytype \in Faculties
    BY <1>13 DEF ReceiveFromWorker, TypeInv, PetentsOK, HasTicket, Live
  <2> DEFINE next(l) == /\ l \notin QueueLabels \/ ~U
                        /\ l \notin TicketLabels /\ l # "freeQueue"
                        /\ l = "queue" => U
  <2>a. \A t : next(NextVisit(p, t))
    BY DEF NextVisit
  <2>b. next("frustrated") /\ next("leave")
    OBVIOUS
  <2>c. \E l : /\ Goto(p, l)
               /\ l = NextVisit(p, Head(msgs[p])) \/ l \in {"frustrated", "leave"}
    BY <1>13 DEF ReceiveFromWorker
  <2> HIDE DEF next
  <2>d. PICK l : Goto(p, l) /\ next(l)
    BY <2>a, <2>b, <2>c
  <2>2. /\ Goto(p, l) /\ (l \notin QueueLabels \/ ~U)
        /\ l \notin TicketLabels /\ l # "freeQueue" /\ (l = "queue" => U)
    BY <2>d DEF next
  <2>3. \A f \in Faculties : Balanced(HQ(f), HQN(f), queueSem[f], queueSem'[f])
    BY <1>13, <1>m, <2>1, <2>2 DEF ReceiveFromWorker, Balanced
  <2>4. Others /\ tickets' = tickets
    BY <1>13, <1>m DEF ReceiveFromWorker
  <2> QED BY <2>1, <2>2, <2>3, <2>4, <1>m DEF Balanced
<1>14. CASE WakeFrustrated(p)
  BY <1>14, <1>b, <1>m DEF WakeFrustrated, NextVisit, Balanced
<1>15. CASE LeaveBuilding(p)
  <2>1. CASE is_opened /\ ~is_locked
    BY <1>15, <2>1, <1>a DEF LeaveBuilding, LeaveLabels, GiveLabel
  <2>2. CASE ~is_opened \/ is_locked
    <3>1. CASE pc[p] = "leaveQueue" /\ ~U
      <4>1. AfterLeave(p, pc[p]) = "gone"
        BY <3>1 DEF AfterLeave
      <4>2. Goto(p, "gone") /\ UNCHANGED <<tickets, queueSem, tck>>
        BY <1>15, <2>2, <4>1 DEF LeaveBuilding
      <4>3. Others
        BY <4>2, <1>m
      <4> QED BY <3>1, <4>2, <4>3, <1>b DEF Balanced
    <3>2. CASE ~(pc[p] = "leaveQueue" /\ ~U)
      BY <1>15, <2>2, <3>2, <1>a DEF LeaveBuilding, LeaveLabels, AfterLeave
    <3> QED BY <3>1, <3>2
  <2> QED BY <2>1, <2>2
<1>16. CASE GivePlaces(p)
  <2>1. CASE pc[p] = "giveQueue" /\ ~U
    BY <1>16, <2>1, <1>b DEF GivePlaces, AfterLeave, Balanced
  <2>2. CASE ~(pc[p] = "giveQueue" /\ ~U)
    BY <1>16, <2>2, <1>a DEF GivePlaces, GiveLabels, AfterLeave
  <2> QED BY <2>1, <2>2
<1>17. CASE FreeTickets(p)
  BY <1>17, <1>m DEF FreeTickets, Balanced
<1>18. CASE FreeQueue(p)
  BY <1>18, <1>m DEF FreeQueue, Balanced, QueueUsers
<1>19. CASE ExitOnRemovedIpc(p)
  BY <1>19 DEF ExitOnRemovedIpc
<1> QED
  BY <1>1, <1>2, <1>3, <1>4, <1>5, <1>6, <1>7, <1>8, <1>9, <1>10, <1>11,
     <1>12, <1>13, <1>14, <1>15, <1>16, <1>17, <1>18, <1>19 DEF PetentStep

\* Signal 2 takes a token from nobody: the error path of an interrupted call
\* still knows which semaphore the petent holds.
LEMMA DirectorQueues ==
  ASSUME DirectorStep, TypeInv, QueueUsers
  PROVE  /\ \A p \in Petents : HoldsTickets(p)' = HoldsTickets(p)
         /\ \A p \in Petents : \A f : HoldsQueue(p, f)' = HoldsQueue(p, f)
         /\ QueueUsers'
<1>0. tck' = tck /\ cust' = cust /\ pc \in [Petents -> PetentLabels]
  BY DirectorFrame DEF TypeInv, CapacityInv
<1> DEFINE Same == \A p \in Petents :
                     /\ pc'[p] \in TicketLabels <=> pc[p] \in TicketLabels
                     /\ pc'[p] \in QueueLabels <=> pc[p] \in QueueLabels
                     /\ pc'[p] \in {"queue", "freeQueue"} => pc'[p] = pc[p]
<1>1. SUFFICES Same
  BY <1>0, <1>1
     DEF HoldsTickets, HoldsQueue, UsesQueue, QueueUsers, TicketLabels,
         QueueLabels
<1>2. ASSUME NEW p \in Petents, Blocked(p), Goto(p, OnInterrupt(pc[p]))
      PROVE  Same
  BY <1>0, <1>2 DEF Blocked, OnInterrupt, Goto, TicketLabels, QueueLabels
<1>3. ASSUME NEW next, ScanPids(next) PROVE Same
  <2>1. petent_pids \in [1..PidsLimit -> Petents \cup {NoPid}]
    BY DEF TypeInv, SharedOK
  <2>2. \/ UNCHANGED pc
        \/ \E p \in Petents : Blocked(p) /\ Goto(p, OnInterrupt(pc[p]))
    BY <1>3, <2>1 DEF ScanPids, Signal2
  <2> QED BY <1>2, <2>2
<1>4. CASE UNCHANGED pc
  BY <1>4
<1>5. CASE Evacuate \/ KillRemaining
  BY <1>3, <1>5 DEF Evacuate, KillRemaining
<1>6. Evacuate \/ KillRemaining \/ UNCHANGED pc
  BY DEF DirectorStep, Configure, OpenOffice, SetOpened, SetBuilding, TimeUp,
     Event1, SendSignal1, Event2, CloseOpened, CloseFlag, CloseBuilding,
     WriteReport, StopThread, JoinThread, unsignalled
<1> QED BY <1>4, <1>5, <1>6

LEMMA QueuesInit == Init => QueueInv
<1> SUFFICES ASSUME Init PROVE QueueInv
  OBVIOUS
<1>1. /\ {p \in Petents : HoldsTickets(p)} = {}
      /\ \A f \in Faculties : {p \in Petents : HoldsQueue(p, f)} = {}
  BY DEF Init, HoldsTickets, HoldsQueue
<1>2. Cardinality({p \in Petents : HoldsTickets(p)}) = 0
  BY <1>1, FS_EmptySet
<1>3. \A f \in Faculties : Cardinality({p \in Petents : HoldsQueue(p, f)}) = 0
  BY <1>1, FS_EmptySet
<1>4. QueuesConserved
  <2>1. /\ tickets = TicketMachineCount /\ TicketMachineCount \in Int
        /\ \A f \in Faculties : queueSem[f] = QueueSlots(f)
        /\ \A f : QueueSlots(f) \in Int
    BY NumbersAssumption DEF Init, QueueSlots
  <2> QED BY <1>2, <1>3, <2>1 DEF QueuesConserved
<1>5. QueueUsers
  BY DEF Init, QueueUsers
<1> QED BY <1>4, <1>5, TypeInit DEF QueueInv

LEMMA QueuesStep == QueueInv /\ [Next]_vars => QueueInv'
<1> SUFFICES ASSUME QueueInv, [Next]_vars PROVE QueueInv'
  OBVIOUS
<1>0. TypeInv' /\ TypeInv /\ QueueUsers /\ QueuesConserved
  BY TypeStep DEF QueueInv
<1>k. /\ tickets \in Nat /\ queueSem \in [Faculties -> Nat]
      /\ TicketMachineCount \in Int /\ \A f : QueueSlots(f) \in Int
  BY <1>0, NumbersAssumption DEF TypeInv, SharedOK, QueueSlots
<1> SUFFICES QueueUsers' /\ QueuesConserved'
  BY <1>0 DEF QueueInv
\* Nobody's hands and no counter change.
<1>a. ASSUME /\ \A p \in Petents : HoldsTickets(p)' = HoldsTickets(p)
             /\ \A p \in Petents : \A f : HoldsQueue(p, f)' = HoldsQueue(p, f),
             QueueUsers', UNCHANGED <<tickets, queueSem, ipcRemoved>>
      PROVE  QueueUsers' /\ QueuesConserved'
  <2>1. {p \in Petents : HoldsTickets(p)'} = {p \in Petents : HoldsTickets(p)}
    BY <1>a
  <2>2. \A f : {p \in Petents : HoldsQueue(p, f)'}
                 = {p \in Petents : HoldsQueue(p, f)}
    BY <1>a
  <2> QED BY <1>0, <1>a, <2>1, <2>2 DEF QueuesConserved
<1>b. ASSUME UNCHANGED <<petentVars, tickets, queueSem, ipcRemoved>>
      PROVE  QueueUsers' /\ QueuesConserved'
  <2>1. /\ \A p \in Petents : HoldsTickets(p)' = HoldsTickets(p)
        /\ \A p \in Petents : \A f : HoldsQueue(p, f)' = HoldsQueue(p, f)
        /\ QueueUsers'
    BY <1>0, <1>b DEF petentVars, HoldsTickets, HoldsQueue, UsesQueue, QueueUsers
  <2> QED BY <1>a, <1>b, <2>1
<1>1. ASSUME NEW p \in Petents, PetentStep(p)
      PROVE  QueueUsers' /\ QueuesConserved'
  <2>0. ipcRemoved' = ipcRemoved /\ cust' = cust
    BY <1>1, PetentFrame
  <2>1. CASE ipcRemoved
    <3>1. pc'[p] = "gone" /\ \A q \in Petents \ {p} : pc'[q] = pc[q]
      BY <1>1, <1>0, <2>1
         DEF PetentStep, ExitOnRemovedIpc, Goto, At, Register, PassConfigured,
         Arrive, LockOpened, UnlockOpened, EnterBuilding, Entered, LockTickets,
         SendTicketRequest, ReceiveTicket, LockQueue, SendToWorker,
         ReceiveFromWorker, WakeFrustrated, LeaveBuilding, GivePlaces,
         FreeTickets, FreeQueue, TypeInv, CapacityInv
    <3> QED
      BY <1>0, <2>0, <2>1, <3>1 DEF QueueUsers, QueuesConserved, UsesQueue
  <2>2. CASE ~ipcRemoved
    <3>1. /\ \A q \in Petents \ {p} : pc'[q] = pc[q] /\ tck'[q] = tck[q]
          /\ Balanced(HoldsTickets(p), HoldsTickets(p)', tickets, tickets')
          /\ \A f \in Faculties :
               Balanced(HoldsQueue(p, f), HoldsQueue(p, f)',
                        queueSem[f], queueSem'[f])
          /\ QueueUsers'
      BY <1>0, <1>1, <2>2, PetentQueues
    <3>2. \A q \in Petents \ {p} : /\ HoldsTickets(q)' = HoldsTickets(q)
                                   /\ \A f : HoldsQueue(q, f)' = HoldsQueue(q, f)
      BY <2>0, <3>1 DEF HoldsTickets, HoldsQueue, UsesQueue
    <3>3. tickets' + Cardinality({q \in Petents : HoldsTickets(q)'})
            = TicketMachineCount
      <4> DEFINE S == {q \in Petents : HoldsTickets(q)}
                 T == {q \in Petents : HoldsTickets(q)'}
      <4>1. /\ \A q \in Petents \ {p} : q \in S <=> q \in T
            /\ Balanced(p \in S, p \in T, tickets, tickets')
            /\ tickets + Cardinality(S) = TicketMachineCount
        BY <1>0, <2>2, <3>1, <3>2 DEF QueuesConserved, Balanced
      <4> HIDE DEF S, T
      <4>2. S \in SUBSET Petents /\ T \in SUBSET Petents
        BY DEF S, T
      <4>3. tickets' + Cardinality(T) = TicketMachineCount
        BY <1>k, <4>1, <4>2, BalancedCount
      <4> QED BY <4>3 DEF T
    <3>4. ASSUME NEW f \in Faculties
          PROVE  queueSem'[f] + Cardinality({q \in Petents : HoldsQueue(q, f)'})
                   = QueueSlots(f)
      <4> DEFINE S == {q \in Petents : HoldsQueue(q, f)}
                 T == {q \in Petents : HoldsQueue(q, f)'}
      <4>1. /\ \A q \in Petents \ {p} : q \in S <=> q \in T
            /\ Balanced(p \in S, p \in T, queueSem[f], queueSem'[f])
            /\ queueSem[f] + Cardinality(S) = QueueSlots(f)
        BY <1>0, <2>2, <3>1, <3>2 DEF QueuesConserved, Balanced
      <4> HIDE DEF S, T
      <4>2. /\ S \in SUBSET Petents /\ T \in SUBSET Petents
            /\ queueSem[f] \in Int
        BY <1>k DEF S, T
      <4>3. queueSem'[f] + Cardinality(T) = QueueSlots(f)
        BY <1>k, <4>1, <4>2, BalancedCount
      <4> QED BY <4>3 DEF T
    <3> QED BY <3>1, <3>3, <3>4 DEF QueuesConserved
  <2> QED BY <2>1, <2>2
<1>2. ASSUME NEW m \in Machines, MachineStep(m)
      PROVE  QueueUsers' /\ QueuesConserved'
  BY <1>2, <1>b, MachineFrame
<1>3. ASSUME NEW w \in Workers, WorkerStep(w)
      PROVE  QueueUsers' /\ QueuesConserved'
  BY <1>3, <1>b, WorkerFrame
<1>4. CASE DirectorStep
  BY <1>0, <1>4, <1>a, DirectorQueues, DirectorFrame
<1>5. CASE ThreadStep
  BY <1>5, <1>b, ThreadFrame DEF semVars, lineVars
<1>6. CASE RemoveIpc
  <2>1. ipcRemoved' /\ QueueUsers'
    BY <1>0, <1>6 DEF RemoveIpc, petentVars, QueueUsers, UsesQueue
  <2> QED BY <2>1 DEF QueuesConserved
<1>7. CASE UNCHANGED vars
  BY <1>7, <1>b DEF vars, semVars, lineVars
<1> QED
  BY <1>1, <1>2, <1>3, <1>4, <1>5, <1>6, <1>7 DEF Next, Rest

\* No way through petent.c loses a token of the semaphores tickets, dean or
\* faculties, or gives one back twice, for any number of petents, machines,
\* clerks and desks, whatever garbage vip holds and wherever signal 2 strikes.
THEOREM Queues == Spec => []QueuesConserved
<1>1. QueueInv => QueuesConserved
  BY DEF QueueInv
<1> QED BY QueuesInit, QueuesStep, <1>1, PTL DEF Spec
===============================================================================
