---------------------------- MODULE MCCoreUpdate ----------------------------
(* Instances of CoreUpdate: an executable and a library that change, a file  *)
(* that is new, a file that goes away.                                       *)
EXTENDS CoreUpdate

MCReplaced == {"exe", "lib"}
MCAdded == {"plugin"}
MCRemoved == {"gone"}
NoWindows == {}
RetryWindow == {"retry"}
=============================================================================
