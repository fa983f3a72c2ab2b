---------------------------- MODULE MCWorkerLane ----------------------------
(* A lane and a page that uses its runtime directly; two slots.              *)
EXTENDS LatestWorkerLane

NoWindows == {}
=============================================================================
