----------------------------- MODULE CoreUpdate -----------------------------
(***************************************************************************)
(* zapret_update/apply.py, rescue.py and updater/install/file_update.py: a  *)
(* new version installs itself over the program, with power loss at any     *)
(* step, and three others that may have to finish a rollback: the next      *)
(* attempt, the program's own housekeeping at its start, and the RunOnce    *)
(* script at the next login.                                                *)
(*                                                                          *)
(* Windows names the moments a run lets a fault strike in:                  *)
(*   "gap"      the installation ends while a rename it did is not in the   *)
(*              journal on the disk (power loss right after the rename, or   *)
(*              after a write of the journal failed);                        *)
(*   "discard"  a fault while the work folder of an accepted update is      *)
(*              removed (the journal outlives the files it speaks of);      *)
(*   "retry"    a refused rename or write while the next attempt returns    *)
(*              what the previous one left;                                 *)
(*   "rescue"   the RunOnce script is ended while it writes the journal, in *)
(*              place, and leaves one that cannot be read;                  *)
(*   "arm"      the script cannot be installed.                             *)
(* Everywhere else power may fail, renames may be refused, writes of the    *)
(* journal may fail and an error may end the script whatever Windows is.    *)
(***************************************************************************)
EXTENDS FileSwap

CONSTANTS Exe,          \* the program's executable
          Windows,
          MaxCrashes,   \* bound: power losses
          MaxAttempts   \* bound: installations begun, and reinstallations

ASSUME UpdateAssumption ==
    /\ Exe \in Replaced
    /\ Windows \subseteq {"gap", "discard", "retry", "rescue", "arm"}
    /\ MaxCrashes \in Nat /\ MaxAttempts \in Nat

ROLLBACK_ATTEMPTS == 4

VARIABLES
    pc,         \* run_apply
    tries,      \* rollbacks done by _recover
    armed,      \* the RunOnce entry of the rescue script
    failed,     \* <work>/failure.txt
    fresh,      \* the journal is younger than INTERRUPTED_SWAP_MIN_AGE_SECONDS
    crashes, attempts,
    base,       \* history: the version the running update began from
    cut         \* history: the last run of the script was cut short

updateVars == <<pc, tries, armed, failed, fresh, crashes, attempts, base, cut>>
vars == <<swapVars, updateVars>>

Pcs == {"off", "prepare", "commit", "verify", "discard", "discarded", "disarm", "failed", "rollback"}

TypeOK ==
    /\ SwapTypeOK
    /\ pc \in Pcs
    /\ tries \in 0..ROLLBACK_ATTEMPTS
    /\ armed \in BOOLEAN /\ failed \in BOOLEAN /\ fresh \in BOOLEAN
    /\ crashes \in 0..MaxCrashes /\ attempts \in 0..MaxAttempts
    /\ base \in {"old", "other"} /\ cut \in BOOLEAN

Init ==
    /\ SwapInit
    /\ pc = "off" /\ tries = 0
    /\ armed = FALSE /\ failed = FALSE /\ fresh = FALSE
    /\ crashes = 0 /\ attempts = 0
    /\ base = "old" /\ cut = FALSE

IsOld == \A f \in Files : app[f] = IF f \in Added THEN "none" ELSE "old"
IsNew == \A f \in Incoming : app[f] = "new"
IsOther == \A f \in Incoming : app[f] = "other"

idle == pc = "off" /\ undo.who = "none"
exe_exists == app[Exe] # "none"
settled == idle /\ ~ pending
covers(j, k) == k.out \subseteq j.out /\ k.in \subseteq j.in

-----------------------------------------------------------------------------
(* file_update.prepare and launch, then run_apply. *)

Begin ==
    /\ idle /\ exe_exists /\ ~ IsNew /\ ~ failed
    /\ attempts < MaxAttempts
    /\ attempts' = attempts + 1
    /\ pc' = "prepare"
    /\ mem' = NoMoves
    /\ base' = IF IsOther THEN "other" ELSE IF settled THEN "old" ELSE base
    /\ UNCHANGED <<app, old, new, disk, commitVars, undo, locks, saves,
                   tries, armed, failed, fresh, crashes, cut>>

PrepareRecover ==
    /\ pc = "prepare" /\ undo.who = "none" /\ pending
    /\ start_undo("prepare", disk)
    /\ UNCHANGED <<app, old, new, disk, mem, commitVars, locks, saves, updateVars>>

(* recover() as FileSwap.prepare calls it: what is left stops the attempt.   *)
PrepareRecovered ==
    /\ undone("prepare")
    /\ disk' = undo.left
    /\ undo' = NoUndo
    /\ fresh' = TRUE
    /\ pc' = IF undo.left = NoMoves THEN pc ELSE "failed"
    /\ UNCHANGED <<app, old, new, mem, commitVars, locks, saves,
                   tries, armed, failed, crashes, attempts, base, cut>>

(* The shortened journal cannot be written, or the empty one not removed:    *)
(* recover raises.                                                           *)
PrepareUnsaved ==
    /\ undone("prepare")
    /\ WriteFails
    /\ undo' = NoUndo
    /\ pc' = "failed"
    /\ UNCHANGED <<app, old, new, disk, mem, commitVars,
                   tries, armed, failed, fresh, crashes, attempts, base, cut>>

(* The program is closed and the rescue script installed before the swap.    *)
MutPrepareAnyway ==
    /\ pc = "prepare" /\ undo.who = "none"
    /\ prepare
    /\ pc' = "commit"
    /\ armed' \in IF "arm" \in Windows THEN BOOLEAN ELSE {TRUE}
    /\ fresh' = TRUE /\ cut' = FALSE
    /\ UNCHANGED <<tries, failed, crashes, attempts, base>>

Prepare ==
    /\ pc = "prepare" /\ undo.who = "none" /\ ~ pending
    /\ prepare
    /\ pc' = "commit"
    /\ armed' \in IF "arm" \in Windows THEN BOOLEAN ELSE {TRUE}
    /\ fresh' = TRUE /\ cut' = FALSE
    /\ UNCHANGED <<tries, failed, crashes, attempts, base>>

(* No space, an unreadable file, a hook that raises: nothing was moved.      *)
PrepareFails ==
    /\ pc = "prepare" /\ undo.who = "none" /\ ~ pending
    /\ pc' = "failed"
    /\ UNCHANGED <<swapVars, tries, armed, failed, fresh, crashes, attempts, base, cut>>

CommitStep ==
    /\ pc = "commit"
    /\ \/ \E f \in Files : TakeOutExtra(f) \/ TakeOutReplaced(f)
       \/ PutIn
       \/ _record
    /\ fresh' = TRUE
    /\ UNCHANGED <<pc, tries, armed, failed, crashes, attempts, base, cut>>

CommitFails ==
    /\ pc = "commit"
    /\ MoveRefused \/ RecordFails
    /\ pc' = "failed"
    /\ UNCHANGED <<tries, armed, failed, fresh, crashes, attempts, base, cut>>

CommitDone ==
    /\ pc = "commit" /\ committed
    /\ pc' = "verify"
    /\ UNCHANGED <<swapVars, tries, armed, failed, fresh, crashes, attempts, base, cut>>

(* The new version said it is ready, or outlived the wait; or it exited.     *)
StartAndVerify ==
    /\ pc = "verify"
    /\ pc' \in {"discard", "failed"}
    /\ UNCHANGED <<swapVars, tries, armed, failed, fresh, crashes, attempts, base, cut>>

(* rmtree removes the folders first and the journal last, and ignores what   *)
(* it cannot remove.                                                         *)
Discard ==
    /\ pc = "discard"
    /\ empty_work
    /\ pc' = "discarded"
    /\ UNCHANGED <<app, disk, mem, commitVars, undo, locks, saves,
                   tries, armed, failed, fresh, crashes, attempts, base, cut>>

DiscardJournal ==
    /\ pc = "discarded"
    /\ disk' \in IF "discard" \in Windows THEN {NoMoves, disk} ELSE {NoMoves}
    /\ pc' = "disarm"
    /\ UNCHANGED <<app, old, new, mem, commitVars, undo, locks, saves,
                   tries, armed, failed, fresh, crashes, attempts, base, cut>>

Disarm ==
    /\ pc = "disarm"
    /\ armed' = FALSE
    /\ pc' = "off" /\ mem' = NoMoves
    /\ UNCHANGED <<app, old, new, disk, commitVars, undo, locks, saves,
                   tries, failed, fresh, crashes, attempts, base, cut>>

-----------------------------------------------------------------------------
(* run_apply's except branch and _recover. *)

StartRollback ==
    /\ pc = "failed"
    /\ failed' = TRUE
    /\ start_undo("rollback", mem)
    /\ pc' = "rollback" /\ tries' = 1
    /\ UNCHANGED <<app, old, new, disk, mem, commitVars, locks, saves,
                   armed, fresh, crashes, attempts, base, cut>>

(* Everything is back: the work folder goes, and the rescue with it.         *)
RollbackDone ==
    /\ undone("rollback") /\ undo.left = NoMoves
    /\ mem' = NoMoves /\ _save_journal(NoMoves)
    /\ empty_work
    /\ undo' = NoUndo
    /\ armed' = FALSE
    /\ pc' = "off"
    /\ UNCHANGED <<app, commitVars, tries, failed, fresh, crashes, attempts, base, cut>>

MutOneTooMany ==
    /\ undone("rollback") /\ undo.left # NoMoves
    /\ _save_journal(undo.left)
    /\ fresh' = TRUE
    /\ IF tries <= ROLLBACK_ATTEMPTS
       THEN /\ mem' = undo.left /\ start_undo("rollback", undo.left)
            /\ tries' = tries + 1 /\ UNCHANGED pc
       ELSE /\ mem' = NoMoves /\ undo' = NoUndo
            /\ pc' = "off" /\ UNCHANGED tries
    /\ UNCHANGED <<app, old, new, commitVars, armed, failed, crashes, attempts, base, cut>>

RollbackAgain ==
    /\ undone("rollback") /\ undo.left # NoMoves
    /\ _save_journal(undo.left)
    /\ fresh' = TRUE
    /\ IF tries < ROLLBACK_ATTEMPTS
       THEN /\ mem' = undo.left /\ start_undo("rollback", undo.left)
            /\ tries' = tries + 1 /\ UNCHANGED pc
       ELSE /\ mem' = NoMoves /\ undo' = NoUndo
            /\ pc' = "off" /\ UNCHANGED tries
    /\ UNCHANGED <<app, old, new, commitVars, armed, failed, crashes, attempts, base, cut>>

(* The journal cannot be written: _recover ends there, the rescue stays.     *)
RollbackUnsaved ==
    /\ undone("rollback")
    /\ ~ covers(disk, undo.left) => "gap" \in Windows
    /\ WriteFails
    /\ undo' = NoUndo
    /\ pc' = "off" /\ mem' = NoMoves
    /\ UNCHANGED <<app, old, new, disk, commitVars,
                   tries, armed, failed, fresh, crashes, attempts, base, cut>>

-----------------------------------------------------------------------------
(* The program's start: file_update.housekeeping.  The new version on trial  *)
(* runs it too; the age of the journal keeps it from undoing itself.  What    *)
(* else keeps it (HOLD_ENV, set for a version on trial) is left out.         *)

MutNeverYoung == FALSE

young == fresh

Housekeeping ==
    /\ pc \in {"off", "verify"} /\ undo.who = "none"
    /\ exe_exists /\ pending /\ ~ young
    /\ start_undo("housekeeping", disk)
    /\ UNCHANGED <<app, old, new, disk, mem, commitVars, locks, saves, updateVars>>

MutDisarmsAnyway ==
    /\ undone("housekeeping")
    /\ disk' = undo.left
    /\ undo' = NoUndo
    /\ fresh' = (undo.left # NoMoves)
    /\ armed' = FALSE
    /\ UNCHANGED <<app, old, new, mem, commitVars, locks, saves,
                   pc, tries, failed, crashes, attempts, base, cut>>

HousekeepingDone ==
    /\ undone("housekeeping")
    /\ disk' = undo.left
    /\ undo' = NoUndo
    /\ fresh' = (undo.left # NoMoves)
    /\ armed' = (armed /\ undo.left # NoMoves)
    /\ UNCHANGED <<app, old, new, mem, commitVars, locks, saves,
                   pc, tries, failed, crashes, attempts, base, cut>>

HousekeepingUnsaved ==
    /\ undone("housekeeping")
    /\ WriteFails
    /\ undo' = NoUndo
    /\ UNCHANGED <<app, old, new, disk, mem, commitVars, updateVars>>

(* A day later the work folder of a settled update is removed. *)
Cleanup ==
    /\ idle /\ exe_exists /\ ~ pending
    /\ failed \/ new # {}
    /\ empty_work
    /\ failed' = FALSE
    /\ UNCHANGED <<app, disk, mem, commitVars, undo, locks, saves,
                   pc, tries, armed, fresh, crashes, attempts, base, cut>>

-----------------------------------------------------------------------------
(* The next login: RunOnce takes the entry out, then runs the script.        *)

Login ==
    /\ idle /\ armed
    /\ armed' = FALSE
    /\ IF pending THEN start_undo("rescue", disk) ELSE UNCHANGED undo
    /\ UNCHANGED <<app, old, new, disk, mem, commitVars, locks, saves,
                   pc, tries, failed, fresh, crashes, attempts, base, cut>>

MutRescueOnce ==
    /\ undone("rescue")
    /\ disk' = undo.left
    /\ armed' = FALSE
    /\ fresh' = (undo.left # NoMoves)
    /\ undo' = NoUndo
    /\ UNCHANGED <<app, old, new, mem, commitVars, locks, saves,
                   pc, tries, failed, crashes, attempts, base, cut>>

RescueDone ==
    /\ undone("rescue")
    /\ disk' = undo.left
    /\ armed' = (undo.left # NoMoves)
    /\ fresh' = (undo.left # NoMoves)
    /\ undo' = NoUndo
    /\ UNCHANGED <<app, old, new, mem, commitVars, locks, saves,
                   pc, tries, failed, crashes, attempts, base, cut>>

(* An error outside its two try blocks ends the script before it has put     *)
(* itself back: the journal is held or cannot be written, the processes      *)
(* cannot be listed, a file goes away between two looks at it.               *)
RescueStops ==
    /\ undo.who = "rescue"
    /\ WriteFails
    /\ disk' \in IF "rescue" \in Windows THEN {NoMoves, disk} ELSE {disk}
    /\ undo' = NoUndo
    /\ cut' = TRUE
    /\ UNCHANGED <<app, old, new, mem, commitVars,
                   pc, tries, armed, failed, fresh, crashes, attempts, base>>

UndoStep ==
    /\ undo.who = "prepare" /\ "retry" \notin Windows => UNCHANGED locks
    /\ \E f \in Files : UndoIn(f) \/ UndoOut(f)
    /\ UNCHANGED updateVars

-----------------------------------------------------------------------------
(* The machine and its user. *)

CrashAllowed ==
    /\ gap # NoMoves \/ ~ covers(disk, mem) => "gap" \in Windows
    /\ pc = "discarded" => "discard" \in Windows

Crash ==
    /\ ~ idle /\ crashes < MaxCrashes /\ CrashAllowed
    /\ crashes' = crashes + 1
    /\ pc' = "off" /\ undo' = NoUndo
    /\ mem' = NoMoves /\ gap' = NoMoves
    /\ extras' = {} /\ todo' = {} /\ cur' = NoFile
    /\ cut' = (cut \/ undo.who = "rescue")
    /\ UNCHANGED <<app, old, new, disk, locks, saves,
                   tries, armed, failed, fresh, attempts, base>>

Age ==
    /\ pc = "off" /\ fresh
    /\ fresh' = FALSE
    /\ UNCHANGED <<swapVars, pc, tries, armed, failed, crashes, attempts, base, cut>>

(* The full installer over the program's folder, whatever state it is in.    *)
Reinstall ==
    /\ idle /\ attempts < MaxAttempts
    /\ attempts' = attempts + 1
    /\ app' = [f \in Files |-> IF f \in Incoming THEN "other" ELSE app[f]]
    /\ base' = "other"
    /\ UNCHANGED <<old, new, disk, mem, commitVars, undo, locks, saves,
                   pc, tries, armed, failed, fresh, crashes, cut>>

Installer ==
    \/ PrepareRecover \/ PrepareRecovered \/ PrepareUnsaved \/ Prepare \/ PrepareFails
    \/ CommitStep \/ CommitFails \/ CommitDone \/ StartAndVerify
    \/ Discard \/ DiscardJournal \/ Disarm
    \/ StartRollback \/ RollbackDone \/ RollbackAgain \/ RollbackUnsaved

Recovery ==
    \/ Housekeeping \/ HousekeepingDone \/ HousekeepingUnsaved
    \/ Login \/ RescueDone \/ RescueStops \/ UndoStep \/ Age

Next == Begin \/ Installer \/ Recovery \/ Cleanup \/ Crash \/ Reinstall

Spec == Init /\ [][Next]_vars

(* The installer and every walk back run to their end; the user goes on      *)
(* using the machine: time passes, the program is started, somebody logs in. *)
LiveSpec == Spec /\ WF_vars(Installer) /\ WF_vars(UndoStep)
                 /\ WF_vars(HousekeepingDone) /\ WF_vars(RescueDone)
                 /\ WF_vars(Age) /\ WF_vars(Housekeeping) /\ WF_vars(Login)

-----------------------------------------------------------------------------
(* Properties. *)

(* When nothing runs and the code sees nothing left to return, the program   *)
(* is one whole version: the old one, the new one or a reinstalled one.      *)
(* swap.py: "recover returns everything at the next start".                  *)
WholeVersion == settled => IsOld \/ IsNew \/ IsOther

(* At every moment some whole version can still be put together from what    *)
(* lies in the program's folder and in "old": no step deletes the last copy  *)
(* of a file before the version it belongs to was replaced.                  *)
HasWhole(v, files) == \A f \in files : v \in {app[f], old[f]}
SomeVersionWhole == HasWhole("old", Outgoing) \/ HasWhole("other", Incoming) \/ IsNew

(* Nobody is left to finish a rollback: the program cannot start without its *)
(* exe, and no RunOnce entry will run the script.                            *)
Stranded == idle /\ pending /\ ~ exe_exists /\ ~ armed

(* That happens only after a run of the script that was itself cut short, by *)
(* power loss or by an error before it could put itself back (rescue.py:145).*)
(* No refused rename, no unwritten journal of the installation, no attempt,  *)
(* start or reinstallation leads there.                                      *)
CanFinish == Stranded => cut

(* A walk back through a journal of before a reinstallation does not touch   *)
(* the reinstalled files, whoever takes it and wherever it was interrupted.  *)
ReinstallKept ==
    [][undo.who # "none" =>
         \A f \in Incoming : app[f] = "other" => app'[f] = "other"]_vars

(* The update is one transaction. *)
version == IF ~ settled THEN "changing"
           ELSE IF IsNew THEN "new"
           ELSE IF IsOld THEN "old"
           ELSE IF IsOther THEN "other"
           ELSE "mixed"

Atomic == INSTANCE AtomicUpdate

(* Every behaviour of the installation, its rollback and its recovery is a   *)
(* behaviour of the abstract update; and the update keeps its promise to     *)
(* settle, unless it stays where a script cut short has stranded it.         *)
ImplementsAtomic == Atomic!Safety /\ (Atomic!Progress \/ <>[](Stranded /\ cut))
=============================================================================
