---------------------------- MODULE AtomicUpdate ----------------------------
(***************************************************************************)
(* What an update of the program promises its user: the program is at any   *)
(* quiet moment one whole version; an update that begins ends with the new  *)
(* version or with the one it began from, never with a mixture; and a       *)
(* version once accepted stays until the next update or reinstallation.     *)
(***************************************************************************)

VARIABLES version,   \* the whole version in place, or "changing"
          base       \* the version a failed update returns to

vars == <<version, base>>

Versions == {"old", "new", "other"}
Bases == {"old", "other"}

Init == version = "old" /\ base = "old"

Begin ==
    /\ version \in Bases
    /\ version' = "changing"
    /\ base' = version

Commit == version = "changing" /\ version' = "new" /\ UNCHANGED base

Abort == version = "changing" /\ version' = base /\ UNCHANGED base

(* The user puts a whole version over whatever is there. *)
Reinstall ==
    /\ version' \in IF version = "changing" THEN {"changing", "other"} ELSE {"other"}
    /\ base' = "other"

Next == Begin \/ Commit \/ Abort \/ Reinstall

Safety == Init /\ [][Next]_vars

(* An update that has begun is settled, as long as the program is used.      *)
Progress == WF_vars(Commit \/ Abort)

Spec == Safety /\ Progress
=============================================================================
