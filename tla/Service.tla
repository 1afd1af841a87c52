------------------------------- MODULE Service -------------------------------
(***************************************************************************)
(* What the office promises a petent about its matter, without the paper   *)
(* that carries it: how far the matter is in the book of the office, and   *)
(* what the petent has heard of it. The office writes one line for a       *)
(* petent and none more until the petent has read it; it refuses only for  *)
(* a limit that is used up, or when it closes; each place of a limit goes  *)
(* to one matter; who has to pay is settled after it has paid.             *)
(***************************************************************************)
EXTENDS Naturals

CONSTANTS
  People, Desks,
  Front,    \* the desk whose clerks may send a petent on to another
  Limit     \* the places of each desk for the day

VARIABLES
  book,     \* the matter of each petent, in the book of the office
  heard,    \* the same, as far as the petent has heard
  left,     \* the places left
  closing,  \* the office is about to close, or has closed
  loose     \* an unchecked call has failed

serviceVars == <<book, heard, left, closing, loose>>

\* A matter that is for a desk, and one that is over or has not begun.
For(stage, f) == [stage |-> stage, desk |-> f]
Idle(stage)   == For(stage, 0)

ServiceInit ==
  /\ book = [p \in People |-> Idle("none")] /\ heard = book
  /\ left = Limit /\ closing = FALSE /\ loose = FALSE

Apply(p) ==
  /\ book[p] = Idle("none") /\ heard[p] = book[p]
  /\ \E f \in Desks :
       /\ book'  = [book EXCEPT ![p] = For("asked", f)]
       /\ heard' = [heard EXCEPT ![p] = For("asked", f)]
  /\ UNCHANGED <<left, closing, loose>>

\* The office writes the next line about p, at the stage it has been at.
Enter(p, stages, line) ==
  /\ book[p].stage \in stages
  /\ book' = [book EXCEPT ![p] = line]
  /\ UNCHANGED <<heard, closing, loose>>

\* There is a place at f and p gets it, or there is none.
Place(p, stage, f) ==
  \/ /\ Enter(p, {stage}, For("ticket", f))
     /\ left[f] > 0 /\ left' = [left EXCEPT ![f] = @ - 1]
  \/ /\ Enter(p, {stage}, Idle("refused"))
     /\ left[f] = 0 /\ UNCHANGED left

Answer(p)   == Place(p, "asked", book[p].desk)
Redirect(p) == /\ book[p].desk = Front
               /\ \E f \in Desks \ {Front} : Place(p, "ticket", f)

\* Only the other desks charge a fee; it is paid before the petent comes back.
Charge(p) == /\ book[p].desk # Front
             /\ Enter(p, {"ticket"}, For("due", book[p].desk)) /\ UNCHANGED left
Pay(p)    == Enter(p, {"due"}, For("paid", book[p].desk)) /\ UNCHANGED left
Settle(p) == Enter(p, {"ticket", "paid"}, Idle("settled")) /\ UNCHANGED left

TurnAway(p) ==
  /\ closing
  /\ Enter(p, {"ticket", "due", "paid"}, Idle("refused")) /\ UNCHANGED left

\* No line is written before p has heard the one before it.
Write(p) ==
  /\ heard[p] = book[p]
  /\ \/ Answer(p) \/ Redirect(p) \/ Charge(p) \/ Pay(p) \/ Settle(p)
     \/ TurnAway(p)

Hear(p) ==
  /\ heard' = [heard EXCEPT ![p] = book[p]]
  /\ UNCHANGED <<book, left, closing, loose>>

Close == closing' = TRUE /\ UNCHANGED <<book, heard, left, loose>>

\* Lines that the office loses before they are read, by failed calls.
Lose(P) ==
  /\ closing /\ loose' = TRUE
  /\ book' = [p \in People |-> IF p \in P THEN heard[p] ELSE book[p]]
  /\ UNCHANGED <<heard, left, closing>>

ServiceNext ==
  \/ \E p \in People : Hear(p) \/ Apply(p) \/ Write(p)
  \/ Close
  \/ \E P \in SUBSET People : Lose(P)

ServiceSpec == ServiceInit /\ [][ServiceNext]_serviceVars
===============================================================================
