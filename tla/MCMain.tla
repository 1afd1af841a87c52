-------------------------------- MODULE MCMain --------------------------------
(***************************************************************************)
(* Constants of the runs of Main, and of Ustawienia, what main and the     *)
(* director set before the day.                                            *)
(***************************************************************************)
EXTENDS Main

OneMachine == {"rejestracja"}
OneClerk   == {"urzednik"}

\* Ends and middle of a UTC day in January 2026, and of the night before it.
AroundTheClock ==
  {1767225600 + s : s \in {-1, 0, 1, 3599, 28800, 43259, 57540, 82800, 86399}}
SomeMinutes     == {0, 479, 480, 960, 1439}
SomeDraws       == {0, 1, 60, 28859, 28860, 2147483647}
AroundTheGlobe  == {-43200, -18000, 0, 3600, 7200, 50400}
===============================================================================
