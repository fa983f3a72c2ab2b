-------------------------- MODULE MCWinws2Runner --------------------------
(* The instance of Winws2Runner that TLC checks.  A leftover engine may serve *)
(* a preset; three processes are an old engine, a new one and a survivor.     *)
EXTENDS Winws2Runner

CONSTANTS p1, p2, p3

AllPids == {p1, p2, p3}
OneSurvivor == {p1}
NoWindow == {}
=============================================================================
