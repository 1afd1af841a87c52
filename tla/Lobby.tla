-------------------------------- MODULE Lobby --------------------------------
(***************************************************************************)
(* What the semaphore building promises, without the programs that keep    *)
(* the promise. The lobby has Max places. People take their places when    *)
(* they enter; a person who leaves gives them back exactly while the       *)
(* lobby is open, perhaps while it is being closed, and never once it is   *)
(* shut. Only when a signal has made an unchecked call fail (loose) may    *)
(* somebody give places back to a lobby that is shut.                      *)
(***************************************************************************)
EXTENDS Naturals

CONSTANTS People, Max

VARIABLES
  inside,   \* who is in the building
  size,     \* the places each person needs, a child counting as one
  free,     \* the places on offer
  phase,    \* before the day, open, ending, shut
  loose     \* an unchecked call has failed

lobbyVars == <<inside, size, free, phase, loose>>

LobbyInit ==
  /\ inside = {} /\ size \in [People -> {1, 2}]
  /\ free = 0 /\ phase = "before" /\ loose = FALSE

Open ==
  /\ phase = "before" /\ phase' = "open"
  /\ free' = Max
  /\ UNCHANGED <<inside, size, loose>>

Enter(p) ==
  /\ p \notin inside /\ free >= size[p]
  /\ inside' = inside \cup {p}
  /\ free' = free - size[p]
  /\ UNCHANGED <<size, phase, loose>>

\* What p may give back.
Returned(p) ==
  CASE phase = "open"               -> {size[p]}
    [] phase = "ending" \/ loose    -> {0, size[p]}
    [] phase = "shut" /\ ~loose     -> {0}

Leave(p) ==
  /\ p \in inside /\ phase # "before"
  /\ inside' = inside \ {p}
  /\ \E n \in Returned(p) : free' = free + n
  /\ UNCHANGED <<size, phase, loose>>

\* The day is coming to its end.
End ==
  /\ phase = "open" /\ phase' = "ending"
  /\ UNCHANGED <<inside, size, free, loose>>

\* Whatever is on offer is taken away, at the end and when all limits are used
\* up; this may happen more than once.
Shut ==
  /\ phase # "before" /\ phase' = "shut"
  /\ free' = 0
  /\ UNCHANGED <<inside, size, loose>>

Loosen ==
  /\ phase \in {"ending", "shut"} /\ loose' = TRUE
  /\ UNCHANGED <<inside, size, free, phase>>

LobbyNext ==
  \/ Open \/ End \/ Shut \/ Loosen
  \/ \E p \in People : Enter(p) \/ Leave(p)

LobbySpec == LobbyInit /\ [][LobbyNext]_lobbyVars
===============================================================================
