------------------------------ MODULE FileSwap ------------------------------
(***************************************************************************)
(* zapret_update/swap.py: the replacement of the program's files with a     *)
(* journal on the disk.  A file is taken out of the program into "old", the *)
(* staged file takes its place from "new", and every rename is written to   *)
(* the journal after it was done.  Walking the journal back is the rollback.*)
(*                                                                          *)
(* Abstractions.  A file is its path; its content is the version it comes   *)
(* from.  The journal is kept as two sets, the files recorded as taken out  *)
(* and the files recorded as put in: for one path the code always appends   *)
(* "out" before "in" and undoes them in the reverse order, and entries of   *)
(* different paths do not touch each other, so the order between paths is   *)
(* left open.  The signature (size and time) of an entry tells a file this  *)
(* update moved from one that was put there since: it is compared as the    *)
(* version of the content.  Directories (created, pruned, emptied) are left *)
(* out.  A rename that stays refused until the lock wait is used up is the  *)
(* failing alternative of a step, at most MaxLocks of them; a journal that  *)
(* cannot be written likewise, at most MaxSaves.                            *)
(***************************************************************************)
EXTENDS Naturals

CONSTANTS Replaced,   \* files both versions have, with different content
          Added,      \* files only the new version has
          Removed,    \* files of the old version the new one does not have
          NoFile,     \* no file is being replaced
          MaxLocks,   \* bound: renames refused for the whole wait
          MaxSaves    \* bound: journal writes that fail

Files == Replaced \cup Added \cup Removed
Incoming == Replaced \cup Added
Outgoing == Replaced \cup Removed

ASSUME FilesAssumption ==
    /\ Replaced \cap Added = {} /\ Replaced \cap Removed = {} /\ Added \cap Removed = {}
    /\ NoFile \notin Files
    /\ MaxLocks \in Nat /\ MaxSaves \in Nat

Contents == {"old", "new", "other", "none"}   \* "other": put there by a reinstallation
Journals == [out : SUBSET Files, in : SUBSET Files]
NoMoves == [out |-> {}, in |-> {}]
Undoers == {"none", "rollback", "prepare", "housekeeping", "rescue"}

VARIABLES
    app,        \* the content of every path in the program's folder
    old,        \* the content of every path in <work>/old
    new,        \* the paths present in <work>/new
    disk,       \* journal.json
    mem,        \* FileSwap._journal of the running installation
    extras,     \* commit: files to remove that were not yet reached
    todo,       \* commit: staged files not yet in place
    cur,        \* commit: the staged file whose predecessor is out of the way
    gap,        \* commit: the rename done and not yet recorded, as a journal
    undo,       \* the walk back through a journal: who, what is left to do, what failed
    locks, saves

swapVars == <<app, old, new, disk, mem, extras, todo, cur, gap, undo, locks, saves>>
commitVars == <<extras, todo, cur, gap>>

NoUndo == [who |-> "none", out |-> {}, in |-> {}, left |-> NoMoves]

SwapTypeOK ==
    /\ app \in [Files -> Contents]
    /\ old \in [Files -> Contents]
    /\ new \subseteq Files
    /\ disk \in Journals /\ mem \in Journals /\ gap \in Journals
    /\ extras \subseteq Files /\ todo \subseteq Files
    /\ cur \in Files \cup {NoFile}
    /\ undo \in [who : Undoers, out : SUBSET Files, in : SUBSET Files, left : Journals]
    /\ locks \in 0..MaxLocks /\ saves \in 0..MaxSaves

SwapInit ==
    /\ app = [f \in Files |-> IF f \in Added THEN "none" ELSE "old"]
    /\ old = [f \in Files |-> "none"]
    /\ new = {}
    /\ disk = NoMoves /\ mem = NoMoves /\ gap = NoMoves
    /\ extras = {} /\ todo = {} /\ cur = NoFile
    /\ undo = NoUndo
    /\ locks = 0 /\ saves = 0

(* The files the code itself considers not yet returned. *)
pending == disk # NoMoves

(* A refused rename and a failed write of the journal, each from its budget. *)
Refused == locks < MaxLocks /\ locks' = locks + 1 /\ UNCHANGED saves
WriteFails == saves < MaxSaves /\ saves' = saves + 1 /\ UNCHANGED locks

-----------------------------------------------------------------------------
(* Preparation: what differs is copied into "new"; the program is untouched. *)

staged == {f \in Incoming : app[f] # "new"}

prepare ==
    /\ new' = staged
    /\ old' = [f \in Files |-> "none"]
    /\ todo' = staged
    /\ extras' = {f \in Removed : app[f] # "none"}
    /\ cur' = NoFile /\ gap' = NoMoves /\ mem' = NoMoves
    /\ UNCHANGED <<app, disk, undo, locks, saves>>

-----------------------------------------------------------------------------
(* The replacement. *)

GoesOut(f) == [out |-> {f}, in |-> {}]
GoesIn(f) == [out |-> {}, in |-> {f}]
join(j, k) == [out |-> j.out \cup k.out, in |-> j.in \cup k.in]

_save_journal(j) == disk' = j /\ UNCHANGED <<locks, saves>>

(* One rename of the program's file into "old"; the entry follows it. *)
_take_out(f) ==
    /\ old' = [old EXCEPT ![f] = app[f]]
    /\ app' = [app EXCEPT ![f] = "none"]
    /\ gap' = GoesOut(f)

TakeOutExtra(f) ==
    /\ gap = NoMoves /\ f \in extras
    /\ extras' = extras \ {f}
    /\ \/ _take_out(f) /\ UNCHANGED <<locks, saves>>
       \/ Refused /\ UNCHANGED <<app, old, gap>>        \* left_behind
    /\ UNCHANGED <<new, disk, mem, todo, cur, undo>>

TakeOutReplaced(f) ==
    /\ gap = NoMoves /\ extras = {} /\ cur = NoFile /\ f \in todo
    /\ cur' = f
    /\ IF app[f] = "none" THEN UNCHANGED <<app, old, gap>> ELSE _take_out(f)
    /\ UNCHANGED <<new, disk, mem, extras, todo, undo, locks, saves>>

PutIn ==
    /\ gap = NoMoves /\ cur # NoFile
    /\ app' = [app EXCEPT ![cur] = "new"]
    /\ new' = new \ {cur}
    /\ todo' = todo \ {cur}
    /\ gap' = GoesIn(cur)
    /\ cur' = NoFile
    /\ UNCHANGED <<old, disk, mem, extras, undo, locks, saves>>

(* Either rename of a replaced file is refused for the whole wait: the       *)
(* replacement ends with InstallError.                                       *)
MoveRefused ==
    /\ gap = NoMoves /\ extras = {}
    /\ cur # NoFile \/ \E f \in todo : app[f] # "none"
    /\ Refused
    /\ UNCHANGED <<app, old, new, disk, mem, commitVars, undo>>

_record ==
    /\ gap # NoMoves
    /\ mem' = join(mem, gap)
    /\ gap' = NoMoves
    /\ _save_journal(mem')
    /\ UNCHANGED <<app, old, new, extras, todo, cur, undo>>

RecordFails ==
    /\ gap # NoMoves
    /\ mem' = join(mem, gap)
    /\ gap' = NoMoves
    /\ WriteFails
    /\ UNCHANGED <<app, old, new, disk, extras, todo, cur, undo>>

committed == extras = {} /\ todo = {} /\ cur = NoFile /\ gap = NoMoves

-----------------------------------------------------------------------------
(* The walk back: _undo, shared by rollback, recover and the rescue script.  *)

start_undo(who, journal) ==
    undo' = [who |-> who, out |-> journal.out, in |-> journal.in, left |-> NoMoves]

(* The file now at the path is the one this update put there. *)
MutAnyFile(f) == app[f] # "none"

ours(f) == app[f] = "new"

UndoIn(f) ==
    /\ f \in undo.in
    /\ \/ /\ ~ ours(f) \/ f \in new
          /\ undo' = [undo EXCEPT !.in = @ \ {f}]
          /\ UNCHANGED <<app, new, locks, saves>>
       \/ /\ ours(f) /\ f \notin new
          /\ undo' = [undo EXCEPT !.in = @ \ {f}]
          /\ app' = [app EXCEPT ![f] = "none"]
          /\ new' = new \cup {f}
          /\ UNCHANGED <<locks, saves>>
       \/ /\ ours(f) /\ f \notin new /\ Refused
          /\ undo' = [undo EXCEPT !.in = @ \ {f}, !.left.in = @ \cup {f}]
          /\ UNCHANGED <<app, new>>
    /\ UNCHANGED <<old, disk, mem, commitVars>>

(* The place is taken: by a file that could not be moved away (the entry     *)
(* stays), or by somebody else's (nothing is done).                          *)
origin_free(f) == app[f] = "none"
stuck(f) == f \in undo.left.in

UndoOut(f) ==
    /\ f \in undo.out /\ f \notin undo.in
    /\ \/ /\ old[f] = "none" \/ (~ origin_free(f) /\ ~ stuck(f))
          /\ undo' = [undo EXCEPT !.out = @ \ {f}]
          /\ UNCHANGED <<app, old, locks, saves>>
       \/ /\ old[f] # "none" /\ ~ origin_free(f) /\ stuck(f)
          /\ undo' = [undo EXCEPT !.out = @ \ {f}, !.left.out = @ \cup {f}]
          /\ UNCHANGED <<app, old, locks, saves>>
       \/ /\ old[f] # "none" /\ origin_free(f)
          /\ undo' = [undo EXCEPT !.out = @ \ {f}]
          /\ app' = [app EXCEPT ![f] = old[f]]
          /\ old' = [old EXCEPT ![f] = "none"]
          /\ UNCHANGED <<locks, saves>>
       \/ /\ old[f] # "none" /\ origin_free(f) /\ Refused
          /\ undo' = [undo EXCEPT !.out = @ \ {f}, !.left.out = @ \cup {f}]
          /\ UNCHANGED <<app, old>>
    /\ UNCHANGED <<new, disk, mem, commitVars>>

undone(who) == undo.who = who /\ undo.out = {} /\ undo.in = {}

(* rmtree of the folders that hold the moved files. *)
empty_work == old' = [f \in Files |-> "none"] /\ new' = {}
=============================================================================
