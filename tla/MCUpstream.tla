----------------------------- MODULE MCUpstream -----------------------------
(* The instance of UpstreamConnections that TLC checks: the times of the code *)
(* shrunk to one unit, its limits to two failures.                            *)
EXTENDS UpstreamConnections, TLC

CONSTANTS a, b

TwoDelays == <<1, 2>>
OneOrder == {<<a, b>>}
Orders == {<<a, b>>, <<b, a>>}
OrdersOrOff == {<<a, b>>, <<b, a>>, <<>>}
Alike == Permutations(Sessions)
=============================================================================
