-------------------------- MODULE CoreUpdateProofs --------------------------
(***************************************************************************)
(* Theorems about CoreUpdate for every set of files and every bound, with   *)
(* none of the windows open (Windows = {}): the power fails, renames are    *)
(* refused and writes of the journal fail anywhere else, as often as the    *)
(* bounds allow, and the bounds are arbitrary.                              *)
(*                                                                          *)
(* The argument.  For a journal j, Returns(j) says that walking j back      *)
(* gives every file its content of before the update.  Every state names a  *)
(* journal for which it holds: the one in memory while files are moved, the *)
(* one on the disk when nothing runs, and during a walk both the journal    *)
(* the walk began from (a crash starts it again) and what the walk has left *)
(* (it is saved at the end).                                                *)
(***************************************************************************)
EXTENDS CoreUpdate, TLAPS

(* The content of a file before the update, of the files that matter. *)
Before(f) == IF base = "other" THEN "other" ELSE IF f \in Added THEN "none" ELSE "old"
Matters(f) == f \in Incoming \/ base = "old"

(* Undoing f, entered in the journal as put in (i) or taken out (o), gives   *)
(* it its content of before.                                                *)
Returned(f, i, o) ==
    /\ o => Before(f) # "none"
    /\ \/ app[f] = Before(f)
       \/ o /\ app[f] = "none" /\ old[f] = Before(f)
       \/ /\ i /\ app[f] = "new" /\ f \notin new
          /\ o => old[f] = Before(f)
          /\ ~ o => Before(f) = "none"

Returns(j) == \A f \in Files : Matters(f) => Returned(f, f \in j.in, f \in j.out)

moves == join(mem, gap)
rest == join([out |-> undo.out, in |-> undo.in], undo.left)

(* The files commit has not reached are as they were; the others are new.   *)
CommitShape ==
    /\ extras \subseteq Removed /\ todo \subseteq Incoming
    /\ \A f \in Incoming \ todo : app[f] = "new"
    /\ todo \cap moves.in = {}
    /\ \A f \in todo \cap moves.out : f = cur
    /\ \A f \in extras : app[f] # "none" /\ f \notin moves.out /\ f \notin moves.in
    /\ cur # NoFile => cur \in todo /\ app[cur] = "none" /\ extras = {}

JournalInv ==
    /\ idle => (disk = NoMoves /\ IsNew) \/ Returns(disk)
    /\ pc = "prepare" => Returns(disk)
    /\ pc = "commit" => disk = mem /\ Returns(moves) /\ CommitShape
    /\ pc \in {"verify", "discard"} => IsNew /\ Returns(disk) /\ mem = disk
    /\ pc \in {"discarded", "disarm"} => IsNew
    /\ pc = "disarm" => disk = NoMoves
    /\ pc \in {"failed", "rollback"} => Returns(mem) /\ (covers(mem, disk) \/ Returns(disk))

UndoInv ==
    /\ undo.who # "none" => Returns(rest)
    /\ undo.who \in {"prepare", "housekeeping", "rescue"} => Returns(disk)
    /\ undo.who = "prepare" => pc = "prepare" /\ undo.left = NoMoves
    /\ undo.who \in {"housekeeping", "rescue"} => pc = "off"
    /\ undo.who = "rollback" <=> pc = "rollback"
    /\ pc \in {"off", "prepare"} => mem = NoMoves
    /\ gap # NoMoves => pc = "commit"
    /\ pc \in {"commit", "verify"} => fresh

(* Whenever something is left to return, the rescue script is installed or   *)
(* was itself cut short.                                                    *)
helped == armed \/ cut

ArmedInv ==
    /\ disk # NoMoves /\ undo.who # "rescue" => helped
    /\ pc \in {"commit", "verify", "discard", "discarded"} => armed
    /\ pc \in {"failed", "rollback"} /\ mem # NoMoves => helped
    /\ undo.who = "rollback" /\ rest # NoMoves => helped
    /\ undo.who = "housekeeping" => helped

NobodyWalks == undo.who = "none" => undo.in = {} /\ undo.out = {}

IInv == TypeOK /\ JournalInv /\ UndoInv /\ ArmedInv /\ NobodyWalks

-----------------------------------------------------------------------------
(* Facts about Returns. *)

(* A journal between two that return everything returns everything. *)
LEMMA ReturnsBetween ==
    ASSUME NEW j, NEW k, NEW m, Returns(j), Returns(m), covers(k, j), covers(m, k)
    PROVE  Returns(k)
  BY DEF Returns, Returned, covers

(* With nothing left to return, a file that matters has its content of before. *)
LEMMA NothingLeft ==
    ASSUME Returns(NoMoves)
    PROVE  \A f \in Files : Matters(f) => app[f] = Before(f)
  BY DEF Returns, Returned, NoMoves

LEMMA NothingLeftConverse ==
    ASSUME \A f \in Files : Matters(f) => app[f] = Before(f)
    PROVE  Returns(NoMoves)
  BY DEF Returns, Returned, NoMoves

(* One step of a walk, seen at one file: a journal that returned the file    *)
(* still does, and so does the rest of the walk.                            *)
LEMMA WalkStepAtFile ==
    ASSUME SwapTypeOK, UNCHANGED base, Returns(rest),
           NEW g \in Files, UndoIn(g) \/ UndoOut(g),
           NEW f \in Files, Matters(f)
    PROVE  /\ Returned(f, f \in disk.in, f \in disk.out) => Returned(f, f \in disk.in, f \in disk.out)'
           /\ Returned(f, f \in mem.in, f \in mem.out) => Returned(f, f \in mem.in, f \in mem.out)'
           /\ Returned(f, f \in rest.in, f \in rest.out)'
  <1>. DEFINE back(i, o) == Returned(f, i, o)
  <1>1. back(f \in rest.in, f \in rest.out)
    BY DEF Returns
  <1>2. /\ disk' = disk /\ mem' = mem
        /\ undo \in [who : Undoers, out : SUBSET Files, in : SUBSET Files, left : Journals]
        /\ app \in [Files -> Contents] /\ old \in [Files -> Contents]
    BY DEF UndoIn, UndoOut, SwapTypeOK
  <1>3. Before(f)' = Before(f)
    BY DEF Before
  <1>4. CASE UndoIn(g)
    <2>1. /\ undo'.in = undo.in \ {g} /\ undo'.out = undo.out
          /\ undo'.left.out = undo.left.out /\ old' = old
          /\ \/ undo'.left.in = undo.left.in
             \/ undo'.left.in = undo.left.in \cup {g} /\ UNCHANGED <<app, new>>
      BY <1>2, <1>4 DEF UndoIn, Journals
    <2>2. CASE f # g
      <3>1. app'[f] = app[f] /\ (f \in new' <=> f \in new)
        BY <1>2, <1>4, <2>2 DEF UndoIn
      <3>2. f \in rest.in <=> f \in rest'.in
        BY <2>1, <2>2 DEF rest, join
      <3>3. f \in rest.out <=> f \in rest'.out
        BY <2>1 DEF rest, join
      <3>. QED BY <1>1, <1>2, <1>3, <2>1, <3>1, <3>2, <3>3 DEF Returned
    <2>3. CASE f = g
      <3>1. f \in rest.out <=> f \in rest'.out
        BY <2>1 DEF rest, join
      <3>2. CASE (~ ours(g) \/ f \in new) /\ UNCHANGED <<app, new>>
        BY <1>1, <1>2, <1>3, <2>1, <2>3, <3>1, <3>2 DEF Returned, ours
      <3>3. CASE ours(g) /\ f \notin new /\ app' = [app EXCEPT ![g] = "none"]
        <4>1. app[f] = "new" /\ app'[f] = "none" /\ Before(f) # "new"
          BY <1>2, <2>3, <3>3 DEF ours, Before
        <4>. QED BY <1>1, <1>2, <1>3, <2>1, <3>1, <4>1 DEF Returned
      <3>4. CASE UNCHANGED <<app, new>> /\ undo'.left.in = undo.left.in \cup {g}
        <4>1. f \in rest'.in
          BY <2>3, <3>4 DEF rest, join
        <4>. QED BY <1>1, <1>2, <1>3, <2>1, <3>1, <3>4, <4>1 DEF Returned
      <3>5. (Refused /\ UNCHANGED <<app, new>>) /\ undo' = [undo EXCEPT !.in = @ \ {g},
                                    !.left.in = @ \cup {g}]
                => undo'.left.in = undo.left.in \cup {g}
        BY <1>2 DEF Journals
      <3>. QED BY <1>4, <2>3, <3>2, <3>3, <3>4, <3>5 DEF UndoIn
    <2>. QED BY <2>2, <2>3
  <1>5. CASE UndoOut(g)
    <2>1. /\ undo'.in = undo.in /\ undo'.out = undo.out \ {g}
          /\ undo'.left.in = undo.left.in /\ new' = new
          /\ \/ undo'.left.out = undo.left.out
             \/ undo'.left.out = undo.left.out \cup {g} /\ UNCHANGED <<app, old>>
          /\ g \notin undo.in
      BY <1>2, <1>5 DEF UndoOut, Journals
    <2>2. f \in rest.in <=> f \in rest'.in
      BY <2>1 DEF rest, join
    <2>3. CASE f # g
      <3>1. app'[f] = app[f] /\ old'[f] = old[f]
        BY <1>2, <1>5, <2>3 DEF UndoOut
      <3>2. f \in rest.out <=> f \in rest'.out
        BY <2>1, <2>3 DEF rest, join
      <3>. QED BY <1>1, <1>2, <1>3, <2>1, <2>2, <3>1, <3>2 DEF Returned
    <2>4. CASE f = g
      <3>0. f \in rest.out /\ (f \in rest.in => stuck(f))
        BY <1>5, <2>1, <2>4 DEF UndoOut, rest, join, stuck
      <3>1. CASE /\ old[g] = "none" \/ (~ origin_free(g) /\ ~ stuck(g))
                 /\ UNCHANGED <<app, old>>
        BY <1>1, <1>2, <1>3, <2>1, <2>2, <2>4, <3>0, <3>1 DEF Returned, origin_free
      <3>2. CASE /\ origin_free(g) /\ old[g] # "none"
                 /\ app' = [app EXCEPT ![g] = old[g]]
        <4>1. app'[f] = Before(f)
          BY <1>1, <1>2, <2>4, <3>0, <3>2 DEF Returned, origin_free
        <4>. QED BY <1>2, <1>3, <4>1, <1>1, <3>0 DEF Returned
      <3>3. CASE UNCHANGED <<app, old>> /\ undo'.left.out = undo.left.out \cup {g}
        <4>1. f \in rest'.out
          BY <2>4, <3>3 DEF rest, join
        <4>. QED BY <1>1, <1>2, <1>3, <2>1, <2>2, <3>3, <3>0, <4>1 DEF Returned
      <3>4. undo' = [undo EXCEPT !.out = @ \ {g}, !.left.out = @ \cup {g}]
                => undo'.left.out = undo.left.out \cup {g}
        BY <1>2 DEF Journals
      <3>. QED BY <1>5, <2>4, <3>1, <3>2, <3>3, <3>4 DEF UndoOut
    <2>. QED BY <2>3, <2>4
  <1>. QED BY <1>4, <1>5

LEMMA WalkStep ==
    ASSUME SwapTypeOK, UNCHANGED base, Returns(rest),
           NEW g \in Files, UndoIn(g) \/ UndoOut(g)
    PROVE  /\ Returns(disk) => Returns(disk)'
           /\ Returns(mem) => Returns(mem)'
           /\ Returns(rest)'
  <1>1. \A f \in Files : Matters(f)' <=> Matters(f)
    BY DEF Matters
  <1>2. ASSUME NEW f \in Files, Matters(f)
        PROVE  /\ Returned(f, f \in disk.in, f \in disk.out)
                    => Returned(f, f \in disk.in, f \in disk.out)'
               /\ Returned(f, f \in mem.in, f \in mem.out) => Returned(f, f \in mem.in, f \in mem.out)'
               /\ Returned(f, f \in rest.in, f \in rest.out)'
    BY <1>2, WalkStepAtFile
  <1>. QED BY <1>1, <1>2 DEF Returns

-----------------------------------------------------------------------------
(* Type correctness. *)

LEMMA TypeInit == Init => TypeOK
  <1>. SUFFICES ASSUME Init PROVE TypeOK
    OBVIOUS
  <1>. USE DEF Init, SwapInit
  <1>1. NoMoves \in Journals
    BY DEF NoMoves, Journals
  <1>2. undo \in [who : Undoers, out : SUBSET Files, in : SUBSET Files, left : Journals]
    BY <1>1 DEF NoUndo, Undoers
  <1>3. SwapTypeOK
    BY <1>1, <1>2, FilesAssumption DEF SwapTypeOK, Contents
  <1>4. /\ pc = "off" /\ tries = 0 /\ armed = FALSE /\ failed = FALSE /\ fresh = FALSE
        /\ crashes = 0 /\ attempts = 0 /\ base = "old" /\ cut = FALSE
    OBVIOUS
  <1>5. tries \in 0..ROLLBACK_ATTEMPTS /\ crashes \in 0..MaxCrashes /\ attempts \in 0..MaxAttempts
    BY <1>4, UpdateAssumption DEF ROLLBACK_ATTEMPTS
  <1>. QED BY <1>3, <1>4, <1>5 DEF TypeOK, Pcs

LEMMA NoMovesType == NoMoves \in Journals
  BY DEF NoMoves, Journals

LEMMA RefusedType ==
    ASSUME TypeOK
    PROVE  /\ Refused => locks' \in 0..MaxLocks /\ saves' \in 0..MaxSaves
           /\ WriteFails => locks' \in 0..MaxLocks /\ saves' \in 0..MaxSaves
           /\ UNCHANGED <<locks, saves>> => locks' \in 0..MaxLocks /\ saves' \in 0..MaxSaves
  BY FilesAssumption DEF TypeOK, SwapTypeOK, Refused, WriteFails

LEMMA WalkType ==
    ASSUME TypeOK, UndoStep
    PROVE  TypeOK'
  <1>. USE FilesAssumption DEF TypeOK, SwapTypeOK
  <1>. DEFINE Walks == [who : Undoers, out : SUBSET Files, in : SUBSET Files, left : Journals]
  <1>1. PICK g \in Files : UndoIn(g) \/ UndoOut(g)
    BY DEF UndoStep
  <1>2. UNCHANGED updateVars /\ UNCHANGED <<disk, mem, commitVars>>
    BY <1>1 DEF UndoStep, UndoIn, UndoOut
  <1>3. locks' \in 0..MaxLocks /\ saves' \in 0..MaxSaves
    BY <1>1, RefusedType DEF UndoIn, UndoOut
  <1>4. app' \in [Files -> Contents] /\ old' \in [Files -> Contents] /\ new' \subseteq Files
    BY <1>1 DEF UndoIn, UndoOut, Contents
  <1>5. undo' \in [who : Undoers, out : SUBSET Files, in : SUBSET Files, left : Journals]
    <2>1. /\ [undo.left EXCEPT !.in = @ \cup {g}] \in Journals
          /\ [undo.left EXCEPT !.out = @ \cup {g}] \in Journals
      BY DEF Journals
    <2>2. /\ [undo EXCEPT !.in = @ \ {g}] \in Walks
          /\ [undo EXCEPT !.out = @ \ {g}] \in Walks
          /\ [undo EXCEPT !.in = @ \ {g}, !.left = [undo.left EXCEPT !.in = @ \cup {g}]] \in Walks
          /\ [undo EXCEPT !.out = @ \ {g}, !.left = [undo.left EXCEPT !.out = @ \cup {g}]] \in Walks
      BY <2>1
    <2>3. \/ undo' = [undo EXCEPT !.in = @ \ {g}]
          \/ undo' = [undo EXCEPT !.out = @ \ {g}]
          \/ undo' = [undo EXCEPT !.in = @ \ {g}, !.left = [undo.left EXCEPT !.in = @ \cup {g}]]
          \/ undo' = [undo EXCEPT !.out = @ \ {g}, !.left = [undo.left EXCEPT !.out = @ \cup {g}]]
      BY <1>1 DEF UndoIn, UndoOut
    <2>. QED BY <2>2, <2>3
  <1>. QED BY <1>2, <1>3, <1>4, <1>5 DEF updateVars, commitVars, Pcs, ROLLBACK_ATTEMPTS

LEMMA TypeStep ==
    ASSUME TypeOK, [Next]_vars
    PROVE  TypeOK'
  <1>. USE FilesAssumption, UpdateAssumption, NoMovesType
  <1>. DEFINE Walks == [who : Undoers, out : SUBSET Files, in : SUBSET Files, left : Journals]
  <1>1. NoUndo \in Walks
    BY DEF NoUndo, Undoers
  <1>2. \A who \in Undoers, j \in Journals :
            [who |-> who, out |-> j.out, in |-> j.in, left |-> NoMoves] \in Walks
    BY DEF Journals
  <1>3. undo.left \in Journals
    BY DEF TypeOK, SwapTypeOK
  <1>4. {"rollback", "prepare", "housekeeping", "rescue"} \subseteq Undoers
    BY DEF Undoers
  <1>5. CASE Begin
    <2>1. attempts' \in 0..MaxAttempts
      BY <1>5 DEF Begin, TypeOK
    <2>. QED BY <1>5, <2>1 DEF Begin, TypeOK, SwapTypeOK, commitVars, Pcs
  <1>6. CASE PrepareRecover \/ PrepareRecovered \/ PrepareUnsaved \/ PrepareFails \/ Prepare
    <2>1. CASE PrepareRecover
      BY <2>1, <1>2, <1>4 DEF PrepareRecover, start_undo, TypeOK, SwapTypeOK, commitVars, updateVars
    <2>2. CASE PrepareRecovered
      BY <2>2, <1>1, <1>3 DEF PrepareRecovered, TypeOK, SwapTypeOK, commitVars, Pcs
    <2>3. CASE PrepareFails
      BY <2>3 DEF PrepareFails, TypeOK, SwapTypeOK, swapVars, commitVars, Pcs
    <2>4. CASE Prepare
      <3>1. staged \subseteq Files /\ {f \in Removed : app[f] # "none"} \subseteq Files
        BY DEF staged, Incoming, Files
      <3>2. old' \in [Files -> Contents]
        BY <2>4 DEF Prepare, prepare, Contents
      <3>. QED BY <2>4, <3>1, <3>2 DEF Prepare, prepare, TypeOK, SwapTypeOK, Pcs
    <2>5. CASE PrepareUnsaved
      BY <2>5, <1>1, RefusedType DEF PrepareUnsaved, TypeOK, SwapTypeOK, commitVars, Pcs
    <2>. QED BY <1>6, <2>1, <2>2, <2>3, <2>4, <2>5
  <1>7. CASE CommitStep \/ CommitFails
    <2>1. \A j, k \in Journals : join(j, k) \in Journals
      BY DEF join, Journals
    <2>2. \A f \in Files : GoesOut(f) \in Journals /\ GoesIn(f) \in Journals
      BY DEF GoesOut, GoesIn, Journals
    <2>3. ASSUME NEW f \in Files, TakeOutExtra(f) \/ TakeOutReplaced(f)
          PROVE  SwapTypeOK'
      <3>1. locks' \in 0..MaxLocks /\ saves' \in 0..MaxSaves
        BY <2>3, RefusedType DEF TakeOutExtra, TakeOutReplaced
      <3>2. app' \in [Files -> Contents] /\ old' \in [Files -> Contents] /\ gap' \in Journals
        BY <2>2, <2>3 DEF TakeOutExtra, TakeOutReplaced, _take_out, TypeOK, SwapTypeOK, Contents
      <3>3. extras' \subseteq Files /\ cur' \in Files \cup {NoFile}
        BY <2>3 DEF TakeOutExtra, TakeOutReplaced, TypeOK, SwapTypeOK
      <3>4. UNCHANGED <<new, disk, mem, todo, undo>>
        BY <2>3 DEF TakeOutExtra, TakeOutReplaced
      <3>. QED BY <3>1, <3>2, <3>3, <3>4 DEF TypeOK, SwapTypeOK
    <2>4. ASSUME PutIn PROVE SwapTypeOK'
      <3>1. cur \in Files
        BY <2>4 DEF PutIn, TypeOK, SwapTypeOK
      <3>. QED BY <2>2, <2>4, <3>1 DEF PutIn, TypeOK, SwapTypeOK, Contents
    <2>5. ASSUME _record PROVE SwapTypeOK'
      BY <2>1, <2>5 DEF _record, _save_journal, TypeOK, SwapTypeOK
    <2>6. ASSUME MoveRefused \/ RecordFails PROVE SwapTypeOK'
      BY <2>1, <2>6, RefusedType DEF MoveRefused, RecordFails, TypeOK, SwapTypeOK, commitVars
    <2>. QED BY <1>7, <2>3, <2>4, <2>5, <2>6 DEF CommitStep, CommitFails, TypeOK, Pcs
  <1>8. CASE CommitDone \/ StartAndVerify \/ Discard \/ DiscardJournal \/ Disarm
    <2>1. CASE CommitDone \/ StartAndVerify
      BY <2>1 DEF CommitDone, StartAndVerify, TypeOK, SwapTypeOK, swapVars, commitVars, Pcs
    <2>2. CASE Discard
      BY <2>2 DEF Discard, empty_work, TypeOK, SwapTypeOK, commitVars, Pcs, Contents
    <2>3. CASE DiscardJournal \/ Disarm
      BY <2>3 DEF DiscardJournal, Disarm, TypeOK, SwapTypeOK, commitVars, Pcs
    <2>. QED BY <1>8, <2>1, <2>2, <2>3
  <1>9. CASE StartRollback \/ RollbackDone \/ RollbackAgain \/ RollbackUnsaved
    <2>1. CASE StartRollback
      <3>1. tries' \in 0..ROLLBACK_ATTEMPTS
        BY <2>1 DEF StartRollback, ROLLBACK_ATTEMPTS
      <3>2. undo' \in Walks
        BY <2>1, <1>2, <1>4 DEF StartRollback, start_undo, TypeOK, SwapTypeOK
      <3>. QED BY <2>1, <3>1, <3>2 DEF StartRollback, TypeOK, SwapTypeOK, commitVars, Pcs
    <2>2. CASE RollbackDone
      BY <2>2, <1>1 DEF RollbackDone, _save_journal, empty_work, TypeOK, SwapTypeOK,
                        commitVars, Pcs, Contents
    <2>3. CASE RollbackAgain
      <3>1. tries' \in 0..ROLLBACK_ATTEMPTS
        BY <2>3 DEF RollbackAgain, TypeOK, ROLLBACK_ATTEMPTS
      <3>2. undo' \in Walks
        BY <2>3, <1>1, <1>2, <1>3, <1>4 DEF RollbackAgain, start_undo
      <3>3. pc' \in Pcs
        BY <2>3 DEF RollbackAgain, TypeOK, Pcs
      <3>4. mem' \in Journals /\ disk' \in Journals
        BY <2>3, <1>3 DEF RollbackAgain, _save_journal
      <3>. QED BY <2>3, <3>1, <3>2, <3>3, <3>4
               DEF RollbackAgain, _save_journal, TypeOK, SwapTypeOK, commitVars
    <2>4. CASE RollbackUnsaved
      BY <2>4, <1>1, RefusedType DEF RollbackUnsaved, TypeOK, SwapTypeOK, commitVars, Pcs
    <2>. QED BY <1>9, <2>1, <2>2, <2>3, <2>4
  <1>10. CASE Housekeeping \/ HousekeepingDone \/ HousekeepingUnsaved
    <2>1. CASE Housekeeping
      BY <2>1, <1>2, <1>4 DEF Housekeeping, start_undo, TypeOK, SwapTypeOK, commitVars, updateVars
    <2>2. CASE HousekeepingDone
      BY <2>2, <1>1, <1>3 DEF HousekeepingDone, TypeOK, SwapTypeOK, commitVars
    <2>3. CASE HousekeepingUnsaved
      BY <2>3, <1>1, RefusedType DEF HousekeepingUnsaved, TypeOK, SwapTypeOK, commitVars, updateVars
    <2>. QED BY <1>10, <2>1, <2>2, <2>3
  <1>11. CASE Login \/ RescueDone \/ RescueStops \/ Age \/ Cleanup
    <2>1. CASE Login
      <3>1. undo' \in Walks
        BY <2>1, <1>2, <1>4 DEF Login, start_undo, TypeOK, SwapTypeOK
      <3>. QED BY <2>1, <3>1 DEF Login, TypeOK, SwapTypeOK, commitVars
    <2>2. CASE RescueDone
      BY <2>2, <1>1, <1>3 DEF RescueDone, TypeOK, SwapTypeOK, commitVars
    <2>3. CASE Age
      BY <2>3 DEF Age, TypeOK, SwapTypeOK, swapVars, commitVars
    <2>4. CASE Cleanup
      BY <2>4 DEF Cleanup, empty_work, TypeOK, SwapTypeOK, commitVars, Contents
    <2>5. CASE RescueStops
      BY <2>5, <1>1, RefusedType DEF RescueStops, TypeOK, SwapTypeOK, commitVars
    <2>. QED BY <1>11, <2>1, <2>2, <2>3, <2>4, <2>5
  <1>12. CASE UndoStep
    BY <1>12, WalkType
  <1>13. CASE Crash
    <2>1. crashes' \in 0..MaxCrashes
      BY <1>13 DEF Crash, TypeOK
    <2>2. /\ UNCHANGED <<app, old, new, disk, locks, saves, tries, armed, failed, fresh, attempts,
                         base>>
          /\ pc' = "off" /\ undo' = NoUndo /\ mem' = NoMoves /\ gap' = NoMoves
          /\ extras' = {} /\ todo' = {} /\ cur' = NoFile
          /\ cut' = (cut \/ undo.who = "rescue")
      BY <1>13 DEF Crash
    <2>3. SwapTypeOK'
      BY <2>2, <1>1 DEF TypeOK, SwapTypeOK
    <2>4. pc' \in Pcs
      BY <2>2 DEF Pcs
    <2>. QED BY <2>1, <2>2, <2>3, <2>4 DEF TypeOK
  <1>14. CASE Reinstall
    <2>1. attempts' \in 0..MaxAttempts
      BY <1>14 DEF Reinstall, TypeOK
    <2>2. app' \in [Files -> Contents]
      BY <1>14 DEF Reinstall, TypeOK, SwapTypeOK, Contents
    <2>. QED BY <1>14, <2>1, <2>2 DEF Reinstall, TypeOK, SwapTypeOK, commitVars
  <1>15. CASE UNCHANGED vars
    BY <1>15 DEF vars, swapVars, commitVars, updateVars, TypeOK, SwapTypeOK
  <1>. QED BY <1>5, <1>6, <1>7, <1>8, <1>9, <1>10, <1>11, <1>12, <1>13, <1>14, <1>15
           DEF Next, Installer, Recovery

(* The state of the installation, its rollback and its recovery is always   *)
(* one the code can be in, whatever the files, the bounds and the windows.  *)
THEOREM TypeCorrect == Spec => []TypeOK
  <1>1. Init => TypeOK
    BY TypeInit
  <1>2. TypeOK /\ [Next]_vars => TypeOK'
    BY TypeStep
  <1>. QED BY <1>1, <1>2, PTL DEF Spec

-----------------------------------------------------------------------------
(* The inductive invariant. *)

LEMMA InitInv == Init => IInv
  <1>. SUFFICES ASSUME Init PROVE IInv
    OBVIOUS
  <1>1. TypeOK
    BY TypeInit
  <1>2. /\ pc = "off" /\ undo.who = "none" /\ disk = NoMoves /\ mem = NoMoves /\ gap = NoMoves
        /\ base = "old" /\ app = [f \in Files |-> IF f \in Added THEN "none" ELSE "old"]
    BY DEF Init, SwapInit, NoUndo
  <1>3. Returns(NoMoves)
    BY <1>2, NothingLeftConverse DEF Before
  <1>4. NobodyWalks
    BY DEF Init, SwapInit, NoUndo, NobodyWalks
  <1>. QED BY <1>1, <1>2, <1>3, <1>4
       DEF IInv, JournalInv, UndoInv, ArmedInv, helped, idle

(* While the files stay as they are, a journal that returns everything does  *)
(* so under whatever name it is kept.                                       *)
LEMMA SameFiles ==
    ASSUME UNCHANGED <<app, old, new, base>>
    PROVE  /\ \A d : Returns(d) /\ disk' = d => Returns(disk)'
           /\ \A d : Returns(d) /\ mem' = d => Returns(mem)'
           /\ \A d : Returns(d) /\ rest' = d => Returns(rest)'
           /\ \A d : Returns(d) /\ moves' = d => Returns(moves)'
           /\ IsNew' <=> IsNew
  BY DEF Returns, Returned, Before, Matters, IsNew

(* What a walk has left when it begins and when it ends. *)
LEMMA RestOfWalk ==
    ASSUME TypeOK
    PROVE  /\ undo.in = {} /\ undo.out = {} => rest = undo.left
           /\ \A who \in Undoers, j \in Journals : start_undo(who, j) => rest' = j
  <1>1. \A j \in Journals : join([out |-> {}, in |-> {}], j) = j
    BY DEF join, Journals
  <1>2. \A j \in Journals : join([out |-> j.out, in |-> j.in], NoMoves) = j
    BY DEF join, Journals, NoMoves
  <1>3. undo.left \in Journals
    BY DEF TypeOK, SwapTypeOK
  <1>4. undo.in = {} /\ undo.out = {} => rest = undo.left
    BY <1>1, <1>3 DEF rest
  <1>5. ASSUME NEW who \in Undoers, NEW j \in Journals, start_undo(who, j)
        PROVE  rest' = j
    <2>1. undo'.out = j.out /\ undo'.in = j.in /\ undo'.left = NoMoves
      BY <1>5 DEF start_undo
    <2>. QED BY <1>2, <2>1 DEF rest
  <1>. QED BY <1>4, <1>5

LEMMA JoinNothing == \A j \in Journals : join(j, NoMoves) = j /\ join(NoMoves, j) = j
  BY DEF join, Journals, NoMoves

(* An update begins from the version the last one settled on. *)
LEMMA BeginKeepsBase ==
    ASSUME IInv, Begin
    PROVE  Returns(disk) /\ base' = base
  <1>1. Returns(disk)
    BY DEF Begin, IInv, JournalInv
  <1>2. base \in {"old", "other"}
    BY DEF IInv, TypeOK
  <1>3. CASE IsOther /\ base = "old"
    <2>1. Exe \in Files /\ Exe \in Incoming /\ Exe \notin Added
      BY UpdateAssumption, FilesAssumption DEF Files, Incoming
    <2>2. app[Exe] = "other" /\ app[Exe] \in {"old", "none", "new"}
      BY <1>1, <1>3, <2>1 DEF IsOther, Returns, Returned, Matters, Before
    <2>. QED BY <2>2
  <1>4. CASE ~ IsOther /\ settled /\ base = "other"
    <2>1. \A f \in Files : Matters(f) => app[f] = Before(f)
      BY <1>1, <1>4, NothingLeft DEF settled, pending
    <2>2. IsOther
      BY <1>4, <2>1 DEF Matters, Before, IsOther, Files, Incoming
    <2>. QED BY <1>4, <2>2
  <1>. QED BY <1>1, <1>2, <1>3, <1>4 DEF Begin

LEMMA BeginInv ==
    ASSUME IInv, Begin
    PROVE  JournalInv' /\ UndoInv' /\ ArmedInv'
  <1>1. Returns(disk)
    BY BeginKeepsBase
  <1>2. base' = base
    BY BeginKeepsBase
  <1>3. /\ UNCHANGED <<app, old, new, disk, undo, gap, armed, cut>>
        /\ pc' = "prepare" /\ mem' = NoMoves /\ undo.who = "none" /\ pc = "off"
    BY DEF Begin, idle, commitVars
  <1>4. Returns(disk)'
    BY <1>1, <1>2, <1>3, SameFiles
  <1>5. JournalInv'
    BY <1>3, <1>4 DEF JournalInv, idle
  <1>6. UndoInv'
    BY <1>3 DEF UndoInv, IInv
  <1>7. ArmedInv'
    BY <1>3 DEF ArmedInv, helped, IInv
  <1>. QED BY <1>5, <1>6, <1>7

LEMMA PrepareRecoverInv ==
    ASSUME IInv, PrepareRecover
    PROVE  JournalInv' /\ UndoInv' /\ ArmedInv'
  <1>1. disk \in Journals /\ TypeOK
    BY DEF IInv, TypeOK, SwapTypeOK
  <1>2. /\ UNCHANGED <<app, old, new, base, disk, mem, gap, cur, extras, todo, pc, armed, cut, fresh>>
        /\ pc = "prepare" /\ undo'.who = "prepare" /\ undo'.left = NoMoves
    BY DEF PrepareRecover, start_undo, commitVars, updateVars
  <1>3. rest' = disk
    BY <1>1, RestOfWalk DEF PrepareRecover, Undoers
  <1>4. Returns(disk)
    BY <1>2 DEF IInv, JournalInv
  <1>5. Returns(disk)' /\ Returns(rest)'
    BY <1>2, <1>3, <1>4, SameFiles
  <1>. QED BY <1>2, <1>5
       DEF IInv, JournalInv, UndoInv, ArmedInv, helped, idle

LEMMA PrepareRecoveredInv ==
    ASSUME IInv, PrepareRecovered
    PROVE  JournalInv' /\ UndoInv' /\ ArmedInv'
  <1>1. undo.who = "prepare" /\ undo.left = NoMoves /\ pc = "prepare" /\ rest = undo.left
    BY RestOfWalk DEF PrepareRecovered, undone, IInv, UndoInv
  <1>2. /\ UNCHANGED <<app, old, new, base, mem, gap, pc, armed, cut>>
        /\ disk' = undo.left /\ undo' = NoUndo
    BY <1>1 DEF PrepareRecovered, commitVars
  <1>3. Returns(rest)
    BY <1>1 DEF IInv, UndoInv
  <1>4. Returns(disk)'
    BY <1>1, <1>2, <1>3, SameFiles
  <1>. QED BY <1>1, <1>2, <1>4 DEF IInv, JournalInv, UndoInv, ArmedInv, helped, NoUndo, idle

LEMMA PrepareUnsavedInv ==
    ASSUME IInv, PrepareUnsaved
    PROVE  JournalInv' /\ UndoInv' /\ ArmedInv'
  <1>1. /\ undo.who = "prepare" /\ undo.left = NoMoves /\ pc = "prepare" /\ rest = undo.left
        /\ mem = NoMoves
    BY RestOfWalk DEF PrepareUnsaved, undone, IInv, UndoInv
  <1>2. /\ UNCHANGED <<app, old, new, base, disk, mem, gap, armed, cut>>
        /\ pc' = "failed" /\ undo' = NoUndo
    BY <1>1 DEF PrepareUnsaved, commitVars
  <1>3. Returns(mem) /\ Returns(disk)
    BY <1>1 DEF IInv, UndoInv
  <1>4. Returns(mem)' /\ Returns(disk)'
    BY <1>2, <1>3, SameFiles
  <1>. QED BY <1>1, <1>2, <1>4 DEF IInv, JournalInv, UndoInv, ArmedInv, helped, NoUndo, idle

LEMMA PrepareInv ==
    ASSUME IInv, Prepare, Windows = {}
    PROVE  JournalInv' /\ UndoInv' /\ ArmedInv'
  <1>1. /\ pc = "prepare" /\ undo.who = "none" /\ disk = NoMoves /\ pc' = "commit"
        /\ armed' = TRUE /\ fresh' = TRUE
        /\ UNCHANGED <<app, disk, undo, base>>
        /\ mem' = NoMoves /\ gap' = NoMoves /\ cur' = NoFile
        /\ todo' = staged /\ extras' = {f \in Removed : app[f] # "none"}
    BY DEF Prepare, prepare, pending
  <1>2. Returns(NoMoves)
    BY <1>1 DEF IInv, JournalInv
  <1>3. \A f \in Files : Matters(f) => app[f] = Before(f)
    BY <1>2, NothingLeft
  <1>4. moves' = NoMoves
    BY <1>1, JoinNothing, NoMovesType DEF moves
  <1>5. (\A f \in Files : Matters(f) => app[f] = Before(f))'
    BY <1>1, <1>3 DEF Matters, Before
  <1>6. Returns(moves)'
    BY <1>4, <1>5 DEF Returns, Returned, NoMoves
  <1>7. staged = Incoming
    BY <1>3 DEF staged, Matters, Before, Files, Incoming
  <1>8. CommitShape'
    <2>1. moves'.in = {} /\ moves'.out = {}
      BY <1>4 DEF NoMoves
    <2>. QED BY <1>1, <1>7, <2>1 DEF CommitShape
  <1>. QED BY <1>1, <1>6, <1>8
       DEF IInv, JournalInv, UndoInv, ArmedInv, helped, idle

LEMMA PrepareFailsInv ==
    ASSUME IInv, PrepareFails
    PROVE  JournalInv' /\ UndoInv' /\ ArmedInv'
  <1>1. /\ UNCHANGED <<app, old, new, base, disk, mem, gap, undo, armed, cut>>
        /\ pc = "prepare" /\ pc' = "failed" /\ undo.who = "none" /\ disk = NoMoves /\ mem = NoMoves
    BY DEF PrepareFails, swapVars, commitVars, pending, IInv, UndoInv
  <1>2. Returns(disk)
    BY <1>1 DEF IInv, JournalInv
  <1>3. Returns(mem)' /\ covers(mem, disk)'
    BY <1>1, <1>2, SameFiles DEF covers
  <1>. QED BY <1>1, <1>3
       DEF IInv, JournalInv, UndoInv, ArmedInv, helped, idle

(* A file of before the update that is taken out can be brought back. *)
LEMMA TakenOut ==
    ASSUME TypeOK, Returns(moves), gap = NoMoves,
           NEW g \in Files, app[g] # "none", g \notin moves.in, g \notin moves.out,
           _take_out(g), UNCHANGED <<mem, new, base>>
    PROVE  /\ Returns(moves)'
           /\ moves'.out = moves.out \cup {g} /\ moves'.in = moves.in
  <1>1. /\ app \in [Files -> Contents] /\ old \in [Files -> Contents]
        /\ mem \in Journals
    BY DEF TypeOK, SwapTypeOK
  <1>2. moves'.out = moves.out \cup {g} /\ moves'.in = moves.in
    BY <1>1 DEF moves, join, _take_out, GoesOut, NoMoves
  <1>3. ASSUME NEW f \in Files, Matters(f)
        PROVE  Returned(f, f \in moves.in, f \in moves.out)'
    <2>1. Returned(f, f \in moves.in, f \in moves.out) /\ Before(f)' = Before(f)
      BY <1>3 DEF Returns, Before
    <2>2. CASE f = g
      <3>1. app[g] = Before(g)
        BY <2>1, <2>2 DEF Returned
      <3>2. app'[g] = "none" /\ old'[g] = app[g]
        BY <1>1 DEF _take_out
      <3>. QED BY <2>1, <2>2, <3>1, <3>2, <1>2 DEF Returned
    <2>3. CASE f # g
      <3>1. app'[f] = app[f] /\ old'[f] = old[f]
        BY <1>1, <2>3 DEF _take_out
      <3>. QED BY <1>2, <2>1, <2>3, <3>1 DEF Returned
    <2>. QED BY <2>2, <2>3
  <1>4. \A f \in Files : Matters(f)' <=> Matters(f)
    BY DEF Matters
  <1>. QED BY <1>2, <1>3, <1>4 DEF Returns

LEMMA TakeOutInv ==
    ASSUME IInv, NEW g \in Files, TakeOutExtra(g) \/ TakeOutReplaced(g),
           pc = "commit", UNCHANGED <<pc, base, armed, cut>>, fresh' = TRUE
    PROVE  JournalInv' /\ UndoInv' /\ ArmedInv'
  <1>1. Returns(moves) /\ CommitShape /\ disk = mem /\ TypeOK
    BY DEF IInv, JournalInv
  <1>2. /\ gap = NoMoves /\ UNCHANGED <<disk, mem, new, undo, todo>>
        /\ undo.who = "none"
    BY DEF TakeOutExtra, TakeOutReplaced, IInv, UndoInv, TypeOK, SwapTypeOK, Undoers
  <1>3. app \in [Files -> Contents]
    BY <1>1 DEF TypeOK, SwapTypeOK
  <1>4. Returns(moves)' /\ CommitShape'
    <2>1. CASE TakeOutExtra(g)
      <3>1. /\ g \in extras /\ extras' = extras \ {g} /\ cur' = cur
            /\ cur = NoFile /\ g \notin Incoming
        BY <1>1, <2>1, FilesAssumption DEF TakeOutExtra, CommitShape, Incoming
      <3>2. CASE _take_out(g)
        <4>1. Returns(moves)' /\ moves'.out = moves.out \cup {g} /\ moves'.in = moves.in
          BY <1>1, <1>2, <3>1, <3>2, TakenOut DEF CommitShape
        <4>2. \A f \in Files : f # g => app'[f] = app[f]
          BY <1>3, <3>2 DEF _take_out
        <4>. QED BY <1>1, <1>2, <3>1, <4>1, <4>2 DEF CommitShape, Files, Incoming
      <3>3. CASE UNCHANGED <<app, old, gap>>
        <4>1. moves' = moves
          BY <1>2, <3>3 DEF moves
        <4>2. Returns(moves)'
          BY <1>1, <1>2, <3>3, <4>1, SameFiles
        <4>. QED BY <1>1, <1>2, <3>1, <3>3, <4>1, <4>2 DEF CommitShape
      <3>. QED BY <2>1, <3>2, <3>3 DEF TakeOutExtra
    <2>2. CASE TakeOutReplaced(g)
      <3>1. /\ g \in todo /\ extras = {} /\ cur = NoFile /\ cur' = g
            /\ UNCHANGED extras /\ g \notin moves.in
        BY <1>1, <2>2 DEF TakeOutReplaced, CommitShape
      <3>2. g \notin moves.out
        BY <1>1, <3>1, FilesAssumption DEF CommitShape, Files, Incoming
      <3>3. CASE app[g] # "none" /\ _take_out(g)
        <4>1. Returns(moves)' /\ moves'.out = moves.out \cup {g} /\ moves'.in = moves.in
          BY <1>1, <1>2, <3>1, <3>2, <3>3, TakenOut
        <4>2. \A f \in Files : app'[f] = IF f = g THEN "none" ELSE app[f]
          BY <1>3, <3>3 DEF _take_out
        <4>3. \A f \in todo \cap moves'.out : f = g
          BY <1>1, <3>1, <4>1, FilesAssumption DEF CommitShape, Files, Incoming
        <4>. QED BY <1>1, <1>2, <3>1, <4>1, <4>2, <4>3 DEF CommitShape, Files, Incoming
      <3>4. CASE app[g] = "none" /\ UNCHANGED <<app, old, gap>>
        <4>1. moves' = moves
          BY <1>2, <3>4 DEF moves
        <4>2. Returns(moves)'
          BY <1>1, <1>2, <3>4, <4>1, SameFiles
        <4>3. \A f \in todo \cap moves.out : f = g
          BY <1>1, <3>1, FilesAssumption DEF CommitShape, Files, Incoming
        <4>. QED BY <1>1, <1>2, <3>1, <3>4, <4>1, <4>2, <4>3 DEF CommitShape
      <3>. QED BY <2>2, <3>3, <3>4 DEF TakeOutReplaced
    <2>. QED BY <2>1, <2>2
  <1>. QED BY <1>1, <1>2, <1>4
       DEF IInv, JournalInv, UndoInv, ArmedInv, helped, idle

LEMMA PutInInv ==
    ASSUME IInv, PutIn, pc = "commit", UNCHANGED <<pc, base, armed, cut>>, fresh' = TRUE
    PROVE  JournalInv' /\ UndoInv' /\ ArmedInv'
  <1>1. /\ Returns(moves) /\ CommitShape /\ disk = mem
        /\ app \in [Files -> Contents] /\ mem \in Journals
    BY DEF IInv, JournalInv, TypeOK, SwapTypeOK
  <1>2. /\ gap = NoMoves /\ UNCHANGED <<old, disk, mem, extras, undo>>
        /\ undo.who = "none" /\ cur # NoFile /\ cur' = NoFile /\ todo' = todo \ {cur}
        /\ app' = [app EXCEPT ![cur] = "new"] /\ new' = new \ {cur}
    BY DEF PutIn, IInv, UndoInv, TypeOK, SwapTypeOK, Undoers
  <1>3. cur \in todo /\ cur \in Files /\ cur \in Incoming /\ app[cur] = "none" /\ extras = {}
    BY <1>1, <1>2 DEF CommitShape, Files, Incoming
  <1>4. moves'.in = moves.in \cup {cur} /\ moves'.out = moves.out
    BY <1>1, <1>2 DEF PutIn, moves, join, GoesIn, NoMoves
  <1>5. ASSUME NEW f \in Files, Matters(f)
        PROVE  Returned(f, f \in moves.in, f \in moves.out)'
    <2>1. Returned(f, f \in moves.in, f \in moves.out) /\ Before(f)' = Before(f)
      BY <1>1, <1>5 DEF Returns, Before
    <2>2. CASE f = cur
      <3>1. f \in moves.out => old[f] = Before(f)
        BY <1>3, <2>1, <2>2 DEF Returned
      <3>2. f \notin moves.out => Before(f) = "none"
        BY <1>3, <2>1, <2>2 DEF Returned
      <3>3. app'[f] = "new" /\ f \notin new' /\ f \in moves'.in
        BY <1>1, <1>2, <1>4, <2>2
      <3>. QED BY <1>2, <1>4, <2>1, <3>1, <3>2, <3>3 DEF Returned
    <2>3. CASE f # cur
      <3>1. app'[f] = app[f] /\ (f \in new' <=> f \in new)
        BY <1>1, <1>2, <2>3
      <3>. QED BY <1>2, <1>4, <2>1, <2>3, <3>1 DEF Returned
    <2>. QED BY <2>2, <2>3
  <1>6. Returns(moves)'
    <2>1. \A f \in Files : Matters(f)' <=> Matters(f)
      BY DEF Matters
    <2>. QED BY <1>5, <2>1 DEF Returns
  <1>7. CommitShape'
    <2>1. \A f \in Files : app'[f] = IF f = cur THEN "new" ELSE app[f]
      BY <1>1, <1>2
    <2>2. \A f \in todo \cap moves.out : f = cur
      BY <1>1 DEF CommitShape
    <2>. QED BY <1>1, <1>2, <1>3, <1>4, <2>1, <2>2 DEF CommitShape, Files, Incoming
  <1>. QED BY <1>1, <1>2, <1>6, <1>7
       DEF IInv, JournalInv, UndoInv, ArmedInv, helped, idle

(* Recording a move adds nothing to the moves done. *)
LEMMA RecordInv ==
    ASSUME IInv, pc = "commit", UNCHANGED <<base, armed, cut>>,
           \/ _record /\ pc' = pc /\ fresh' = TRUE
           \/ (MoveRefused \/ RecordFails) /\ pc' = "failed"
    PROVE  JournalInv' /\ UndoInv' /\ ArmedInv'
  <1>1. /\ Returns(moves) /\ CommitShape /\ disk = mem
        /\ mem \in Journals /\ gap \in Journals /\ undo.who = "none"
    BY DEF IInv, JournalInv, UndoInv, TypeOK, SwapTypeOK, Undoers
  <1>2. /\ UNCHANGED <<app, old, new, extras, todo, cur, undo>> /\ gap' = NoMoves
        /\ mem' = moves
    BY <1>1, JoinNothing DEF _record, MoveRefused, RecordFails, moves, commitVars
  <1>3. moves \in Journals
    BY <1>1 DEF moves, join, Journals
  <1>4. moves' = moves
    BY <1>2, <1>3, JoinNothing DEF moves
  <1>5. Returns(moves)' /\ Returns(mem)'
    BY <1>1, <1>2, <1>4, SameFiles
  <1>6. CASE _record /\ pc' = pc /\ fresh' = TRUE
    <2>1. disk' = mem'
      BY <1>6 DEF _record, _save_journal
    <2>2. CommitShape'
      BY <1>1, <1>2, <1>4 DEF CommitShape
    <2>. QED BY <1>1, <1>2, <1>5, <1>6, <2>1, <2>2
       DEF IInv, JournalInv, UndoInv, ArmedInv, helped, idle
  <1>7. CASE (MoveRefused \/ RecordFails) /\ pc' = "failed"
    <2>1. disk' = disk
      BY <1>7 DEF MoveRefused, RecordFails
    <2>2. covers(mem, disk)'
      BY <1>1, <1>2, <2>1 DEF covers, moves, join
    <2>. QED BY <1>1, <1>2, <1>5, <1>7, <2>1, <2>2
       DEF IInv, JournalInv, UndoInv, ArmedInv, helped, idle
  <1>. QED BY <1>6, <1>7

LEMMA CommitDoneInv ==
    ASSUME IInv, CommitDone
    PROVE  JournalInv' /\ UndoInv' /\ ArmedInv'
  <1>1. /\ pc = "commit" /\ pc' = "verify" /\ todo = {} /\ gap = NoMoves
        /\ UNCHANGED <<app, old, new, disk, mem, gap, undo, base, armed, cut, fresh>>
    BY DEF CommitDone, committed, swapVars, commitVars
  <1>2. IsNew /\ disk = mem /\ Returns(moves) /\ mem \in Journals /\ undo.who = "none"
    BY <1>1 DEF IInv, JournalInv, CommitShape, IsNew, UndoInv, TypeOK, SwapTypeOK, Undoers
  <1>3. moves = disk
    BY <1>1, <1>2, JoinNothing DEF moves
  <1>4. Returns(disk)' /\ IsNew'
    BY <1>1, <1>2, <1>3, SameFiles
  <1>. QED BY <1>1, <1>2, <1>4
       DEF IInv, JournalInv, UndoInv, ArmedInv, helped, idle

LEMMA VerifyInv ==
    ASSUME IInv, StartAndVerify
    PROVE  JournalInv' /\ UndoInv' /\ ArmedInv'
  <1>1. /\ pc = "verify" /\ pc' \in {"discard", "failed"}
        /\ UNCHANGED <<app, old, new, disk, mem, gap, undo, base, armed, cut, fresh>>
    BY DEF StartAndVerify, swapVars, commitVars
  <1>2. IsNew /\ disk = mem /\ Returns(disk) /\ undo.who = "none" /\ armed
    BY <1>1 DEF IInv, JournalInv, UndoInv, ArmedInv, TypeOK, SwapTypeOK, Undoers
  <1>3. Returns(disk)' /\ IsNew' /\ Returns(mem)'
    BY <1>1, <1>2, SameFiles
  <1>4. covers(mem, disk)'
    BY <1>1, <1>2 DEF covers
  <1>. QED BY <1>1, <1>2, <1>3, <1>4
       DEF IInv, JournalInv, UndoInv, ArmedInv, helped, idle

LEMMA DiscardInv ==
    ASSUME IInv, Windows = {}, Discard \/ DiscardJournal \/ Disarm
    PROVE  JournalInv' /\ UndoInv' /\ ArmedInv'
  <1>1. IsNew /\ undo.who = "none" /\ pc \in {"discard", "discarded", "disarm"}
    BY DEF Discard, DiscardJournal, Disarm, IInv, JournalInv, UndoInv, TypeOK, SwapTypeOK, Undoers
  <1>2. UNCHANGED <<app, undo, gap, base>>
    BY DEF Discard, DiscardJournal, Disarm, commitVars
  <1>3. IsNew'
    BY <1>1, <1>2 DEF IsNew
  <1>4. CASE Discard
    BY <1>1, <1>2, <1>3, <1>4 DEF Discard, IInv, JournalInv, UndoInv, ArmedInv, helped,
      idle
  <1>5. CASE DiscardJournal
    BY <1>1, <1>2, <1>3, <1>5 DEF DiscardJournal, IInv, JournalInv, UndoInv, ArmedInv, helped,
      idle
  <1>6. CASE Disarm
    BY <1>1, <1>2, <1>3, <1>6 DEF Disarm, IInv, JournalInv, UndoInv, ArmedInv, helped,
      idle
  <1>. QED BY <1>4, <1>5, <1>6

LEMMA StartRollbackInv ==
    ASSUME IInv, StartRollback
    PROVE  JournalInv' /\ UndoInv' /\ ArmedInv'
  <1>1. mem \in Journals /\ TypeOK
    BY DEF IInv, TypeOK, SwapTypeOK
  <1>2. /\ pc = "failed" /\ pc' = "rollback"
        /\ UNCHANGED <<app, old, new, disk, mem, gap, base, armed, cut>>
        /\ undo'.who = "rollback" /\ start_undo("rollback", mem)
    BY DEF StartRollback, start_undo, commitVars
  <1>3. rest' = mem
    BY <1>1, <1>2, RestOfWalk DEF Undoers
  <1>4. Returns(mem) /\ (covers(mem, disk) \/ Returns(disk))
    BY <1>2 DEF IInv, JournalInv
  <1>5. Returns(mem)' /\ Returns(rest)' /\ (covers(mem, disk) \/ Returns(disk))'
    BY <1>2, <1>3, <1>4, SameFiles DEF covers
  <1>. QED BY <1>2, <1>3, <1>5
       DEF IInv, JournalInv, UndoInv, ArmedInv, helped, idle

LEMMA RollbackDoneInv ==
    ASSUME IInv, RollbackDone
    PROVE  JournalInv' /\ UndoInv' /\ ArmedInv'
  <1>1. /\ undo.who = "rollback" /\ rest = NoMoves /\ pc = "rollback"
    BY RestOfWalk DEF RollbackDone, undone, IInv, UndoInv
  <1>2. /\ UNCHANGED <<app, gap, base>> /\ disk' = NoMoves /\ mem' = NoMoves
        /\ undo'.who = "none" /\ pc' = "off"
    BY DEF RollbackDone, _save_journal, commitVars, NoUndo
  <1>3. Returns(NoMoves)
    BY <1>1 DEF IInv, UndoInv
  <1>4. (\A f \in Files : Matters(f) => app[f] = Before(f))'
    BY <1>2, <1>3, NothingLeft DEF Matters, Before
  <1>5. Returns(disk)'
    BY <1>2, <1>4 DEF Returns, Returned, NoMoves
  <1>. QED BY <1>1, <1>2, <1>5
       DEF IInv, JournalInv, UndoInv, ArmedInv, helped, idle

LEMMA RollbackAgainInv ==
    ASSUME IInv, RollbackAgain
    PROVE  JournalInv' /\ UndoInv' /\ ArmedInv'
  <1>1. /\ undo.who = "rollback" /\ rest = undo.left /\ pc = "rollback" /\ undo.left # NoMoves
        /\ undo.left \in Journals /\ TypeOK
    BY RestOfWalk DEF RollbackAgain, undone, IInv, UndoInv, TypeOK, SwapTypeOK
  <1>2. Returns(undo.left) /\ helped
    BY <1>1 DEF IInv, UndoInv, ArmedInv
  <1>3. UNCHANGED <<app, old, new, gap, base, armed, cut>> /\ disk' = undo.left
    BY DEF RollbackAgain, _save_journal, commitVars
  <1>4. Returns(disk)'
    BY <1>2, <1>3, SameFiles
  <1>5. CASE tries < ROLLBACK_ATTEMPTS
    <2>1. mem' = undo.left /\ pc' = pc /\ undo'.who = "rollback" /\ start_undo("rollback", undo.left)
      BY <1>5 DEF RollbackAgain, start_undo
    <2>2. rest' = undo.left
      BY <1>1, <2>1, RestOfWalk DEF Undoers
    <2>3. Returns(mem)' /\ Returns(rest)' /\ covers(mem, disk)'
      BY <1>2, <1>3, <2>1, <2>2, SameFiles DEF covers
    <2>. QED BY <1>1, <1>2, <1>3, <1>4, <2>1, <2>3
       DEF IInv, JournalInv, UndoInv, ArmedInv, helped, idle
  <1>6. CASE ~ (tries < ROLLBACK_ATTEMPTS)
    <2>1. mem' = NoMoves /\ pc' = "off" /\ undo'.who = "none"
      BY <1>6 DEF RollbackAgain, NoUndo
    <2>. QED BY <1>1, <1>2, <1>3, <1>4, <2>1
       DEF IInv, JournalInv, UndoInv, ArmedInv, helped, idle
  <1>. QED BY <1>5, <1>6

LEMMA RollbackUnsavedInv ==
    ASSUME IInv, RollbackUnsaved, Windows = {}
    PROVE  JournalInv' /\ UndoInv' /\ ArmedInv'
  <1>1. /\ undo.who = "rollback" /\ rest = undo.left /\ pc = "rollback"
        /\ covers(disk, undo.left)
    BY RestOfWalk DEF RollbackUnsaved, undone, IInv, UndoInv
  <1>2. Returns(undo.left) /\ Returns(mem) /\ (covers(mem, disk) \/ Returns(disk))
    BY <1>1 DEF IInv, UndoInv, JournalInv
  <1>3. Returns(disk)
    BY <1>1, <1>2, ReturnsBetween
  <1>4. /\ UNCHANGED <<app, old, new, disk, gap, base, armed, cut>>
        /\ pc' = "off" /\ mem' = NoMoves /\ undo'.who = "none"
    BY DEF RollbackUnsaved, commitVars, NoUndo
  <1>5. Returns(disk)'
    BY <1>3, <1>4, SameFiles
  <1>. QED BY <1>1, <1>4, <1>5
       DEF IInv, JournalInv, UndoInv, ArmedInv, helped, idle

(* The program's start and the next login. *)
LEMMA WalkBeginsInv ==
    ASSUME IInv, Housekeeping \/ (Login /\ pending)
    PROVE  JournalInv' /\ UndoInv' /\ ArmedInv'
  <1>1. disk \in Journals /\ TypeOK
    BY DEF IInv, TypeOK, SwapTypeOK
  <1>2. disk # NoMoves /\ pc = "off" /\ undo.who = "none" /\ helped
    BY DEF Housekeeping, Login, young, idle, pending, IInv, UndoInv, ArmedInv
  <1>3. /\ UNCHANGED <<app, old, new, disk, mem, gap, base, pc>>
        /\ undo'.who \in {"housekeeping", "rescue"}
        /\ undo'.left = NoMoves
        /\ start_undo("housekeeping", disk) \/ start_undo("rescue", disk)
        /\ undo'.who = "rescue" \/ helped'
    <2>1. CASE Housekeeping
      BY <1>2, <2>1 DEF Housekeeping, start_undo, commitVars, updateVars, helped
    <2>2. CASE Login /\ pending
      <3>1. start_undo("rescue", disk)
        BY <2>2 DEF Login
      <3>. QED BY <1>2, <2>2, <3>1 DEF Login, start_undo, commitVars
    <2>. QED BY <2>1, <2>2
  <1>4. Returns(disk)
    BY <1>2 DEF IInv, JournalInv, idle
  <1>5. rest' = disk
    BY <1>1, <1>3, RestOfWalk DEF Undoers
  <1>6. Returns(disk)' /\ Returns(rest)'
    BY <1>3, <1>4, <1>5, SameFiles
  <1>. QED BY <1>2, <1>3, <1>6
       DEF IInv, JournalInv, UndoInv, ArmedInv, helped, idle

LEMMA WalkSavedInv ==
    ASSUME IInv, HousekeepingDone \/ RescueDone
    PROVE  JournalInv' /\ UndoInv' /\ ArmedInv'
  <1>1. undo.who \in {"housekeeping", "rescue"} /\ rest = undo.left /\ pc = "off"
    BY RestOfWalk DEF HousekeepingDone, RescueDone, undone, IInv, UndoInv
  <1>2. /\ UNCHANGED <<app, old, new, mem, gap, base, pc>>
        /\ disk' = undo.left /\ undo'.who = "none"
    BY DEF HousekeepingDone, RescueDone, commitVars, NoUndo
  <1>3. Returns(undo.left)
    BY <1>1 DEF IInv, UndoInv
  <1>4. Returns(disk)'
    BY <1>2, <1>3, SameFiles
  <1>5. disk' # NoMoves => helped'
    BY <1>2 DEF HousekeepingDone, RescueDone, undone, IInv, ArmedInv, helped
  <1>. QED BY <1>1, <1>2, <1>4, <1>5
       DEF IInv, JournalInv, UndoInv, ArmedInv, helped, idle

LEMMA UndoStepInv ==
    ASSUME IInv, UndoStep, Windows = {}
    PROVE  JournalInv' /\ UndoInv' /\ ArmedInv' /\ NobodyWalks'
  <1>1. PICK g \in Files : UndoIn(g) \/ UndoOut(g)
    BY DEF UndoStep
  <1>2. /\ UNCHANGED <<disk, mem, gap, pc, base, armed, cut, fresh>>
        /\ SwapTypeOK
    BY <1>1 DEF UndoStep, UndoIn, UndoOut, commitVars, updateVars, IInv, TypeOK
  <1>3. undo'.who = undo.who /\ undo.who \in Undoers /\ undo.who # "none" /\ rest # NoMoves
    <2>1. undo \in [who : Undoers, out : SUBSET Files, in : SUBSET Files, left : Journals]
      BY <1>2 DEF SwapTypeOK
    <2>2. undo'.who = undo.who
      BY <1>1, <2>1 DEF UndoIn, UndoOut
    <2>3. g \in undo.in \cup undo.out
      BY <1>1 DEF UndoIn, UndoOut
    <2>4. undo.who # "none"
      BY <2>3 DEF IInv, NobodyWalks
    <2>5. rest # NoMoves
      BY <2>3 DEF rest, join, NoMoves
    <2>. QED BY <2>1, <2>2, <2>4, <2>5
  <1>4. Returns(rest)
    BY <1>3 DEF IInv, UndoInv
  <1>5. /\ Returns(disk) => Returns(disk)'
        /\ Returns(mem) => Returns(mem)'
        /\ Returns(rest)'
    BY <1>1, <1>2, <1>4, WalkStep
  <1>6. pc \in {"off", "prepare", "rollback"}
    BY <1>3 DEF IInv, UndoInv, Undoers
  <1>7. undo.who = "prepare" => undo'.left = undo.left
    <2>1. SUFFICES ASSUME undo.who = "prepare" PROVE undo'.left = undo.left
      OBVIOUS
    <2>2. UNCHANGED locks /\ undo.left = NoMoves /\ locks \in 0..MaxLocks
      BY <2>1, <1>2 DEF UndoStep, IInv, UndoInv, SwapTypeOK
    <2>3. ~ Refused
      BY <2>2, FilesAssumption DEF Refused
    <2>4. ~ stuck(g)
      BY <2>2 DEF stuck, NoMoves
    <2>5. undo \in [who : Undoers, out : SUBSET Files, in : SUBSET Files, left : Journals]
      BY <1>2 DEF SwapTypeOK
    <2>. QED BY <1>1, <2>3, <2>4, <2>5 DEF UndoIn, UndoOut
  <1>8. covers(mem, disk)' <=> covers(mem, disk)
    BY <1>2 DEF covers
  <1>9. JournalInv'
    BY <1>2, <1>3, <1>5, <1>6, <1>8 DEF IInv, JournalInv, idle
  <1>10. UndoInv'
    BY <1>2, <1>3, <1>5, <1>7 DEF IInv, UndoInv
  <1>11. ArmedInv'
    BY <1>2, <1>3, <1>6 DEF IInv, ArmedInv, helped
  <1>. QED BY <1>3, <1>9, <1>10, <1>11 DEF NobodyWalks

LEMMA CrashInv ==
    ASSUME IInv, Crash, Windows = {}
    PROVE  JournalInv' /\ UndoInv' /\ ArmedInv'
  <1>1. /\ UNCHANGED <<app, old, new, disk, base, armed>>
        /\ pc' = "off" /\ undo'.who = "none" /\ mem' = NoMoves /\ gap' = NoMoves
        /\ cut' = (cut \/ undo.who = "rescue")
    BY DEF Crash, NoUndo
  <1>2. gap = NoMoves /\ covers(disk, mem) /\ pc # "discarded"
    BY DEF Crash, CrashAllowed
  <1>3. mem \in Journals /\ pc \in Pcs /\ undo.who \in Undoers
    BY DEF IInv, TypeOK, SwapTypeOK
  <1>4. (disk = NoMoves /\ IsNew) \/ Returns(disk)
    <2>1. CASE undo.who # "none" /\ undo.who # "rollback"
      BY <2>1, <1>3 DEF IInv, UndoInv, Undoers
    <2>2. CASE pc \in {"failed", "rollback"}
      <3>1. Returns(mem) /\ (covers(mem, disk) \/ Returns(disk))
        BY <2>2 DEF IInv, JournalInv
      <3>. QED BY <1>2, <3>1, ReturnsBetween
    <2>3. CASE pc = "commit"
      <3>1. Returns(moves) /\ disk = mem
        BY <2>3 DEF IInv, JournalInv
      <3>2. moves = mem
        BY <1>2, <1>3, JoinNothing DEF moves
      <3>. QED BY <3>1, <3>2
    <2>4. CASE pc \in {"off", "prepare", "verify", "discard", "disarm"} /\ undo.who = "none"
      BY <2>4 DEF IInv, JournalInv, idle
    <2>. QED BY <1>2, <1>3, <2>1, <2>2, <2>3, <2>4 DEF Pcs, IInv, UndoInv
  <1>5. ((disk = NoMoves /\ IsNew) \/ Returns(disk))'
    BY <1>1, <1>4, SameFiles
  <1>6. disk # NoMoves => helped'
    BY <1>1 DEF IInv, ArmedInv, helped
  <1>. QED BY <1>1, <1>5, <1>6 DEF JournalInv, UndoInv, ArmedInv, idle

(* The script ended by an error before it could put itself back.            *)
LEMMA RescueStopsInv ==
    ASSUME IInv, RescueStops, Windows = {}
    PROVE  JournalInv' /\ UndoInv' /\ ArmedInv'
  <1>1. undo.who = "rescue" /\ pc = "off" /\ mem = NoMoves /\ gap = NoMoves
    BY DEF RescueStops, IInv, UndoInv
  <1>2. /\ UNCHANGED <<app, old, new, disk, mem, gap, base, pc>>
        /\ undo'.who = "none" /\ cut' = TRUE
    BY DEF RescueStops, commitVars, NoUndo
  <1>3. Returns(disk)'
    BY <1>1, <1>2, SameFiles DEF IInv, UndoInv
  <1>. QED BY <1>1, <1>2, <1>3 DEF JournalInv, UndoInv, ArmedInv, helped, idle

(* Steps that move no file and leave the journals alone. *)
LEMMA QuietInv ==
    ASSUME IInv, HousekeepingUnsaved \/ (Login /\ ~ pending) \/ Age
    PROVE  JournalInv' /\ UndoInv' /\ ArmedInv'
  <1>1. pc = "off"
    BY DEF HousekeepingUnsaved, Login, Age, idle, undone, IInv, UndoInv
  <1>2. /\ UNCHANGED <<app, old, new, disk, mem, gap, base, pc>>
        /\ UNCHANGED undo \/ (undo'.who = "none" /\ undo.who = "housekeeping")
        /\ UNCHANGED armed \/ (disk = NoMoves /\ undo.who = "none")
        /\ UNCHANGED undo \/ UNCHANGED armed
        /\ UNCHANGED cut
    BY DEF HousekeepingUnsaved, undone, Login, Age, swapVars, updateVars, commitVars, idle, pending,
       NoUndo
  <1>3. Returns(disk) => Returns(disk)'
    BY <1>2, SameFiles
  <1>4. UNCHANGED undo => (Returns(rest) => Returns(rest)') /\ rest' = rest
    <2>1. UNCHANGED undo => rest' = rest
      BY DEF rest
    <2>. QED BY <1>2, <2>1, SameFiles
  <1>5. idle' => (disk = NoMoves /\ IsNew) \/ Returns(disk)
    BY <1>1, <1>2 DEF idle, IInv, JournalInv, UndoInv
  <1>6. JournalInv'
    BY <1>1, <1>2, <1>3, <1>5, SameFiles DEF JournalInv
  <1>7. UndoInv'
    BY <1>1, <1>2, <1>3, <1>4 DEF UndoInv, IInv
  <1>8. ArmedInv'
    BY <1>1, <1>2, <1>4 DEF ArmedInv, helped, UndoInv, IInv
  <1>. QED BY <1>6, <1>7, <1>8

LEMMA CleanupInv ==
    ASSUME IInv, Cleanup
    PROVE  JournalInv' /\ UndoInv' /\ ArmedInv'
  <1>1. /\ idle /\ disk = NoMoves /\ UNCHANGED <<app, disk, mem, gap, undo, base, pc, armed, cut>>
    BY DEF Cleanup, pending, commitVars
  <1>2. CASE IsNew
    BY <1>1, <1>2 DEF IInv, JournalInv, UndoInv, ArmedInv, helped, idle, IsNew
  <1>3. CASE Returns(NoMoves)
    <2>1. (\A f \in Files : Matters(f) => app[f] = Before(f))'
      BY <1>1, <1>3, NothingLeft DEF Matters, Before
    <2>2. Returns(disk)'
      BY <1>1, <2>1 DEF Returns, Returned, NoMoves
    <2>. QED BY <1>1, <2>2
       DEF IInv, JournalInv, UndoInv, ArmedInv, helped, idle
  <1>. QED BY <1>1, <1>2, <1>3 DEF IInv, JournalInv

LEMMA ReinstallInv ==
    ASSUME IInv, Reinstall
    PROVE  JournalInv' /\ UndoInv' /\ ArmedInv'
  <1>1. /\ idle /\ UNCHANGED <<disk, mem, gap, undo, pc, armed, cut>> /\ base' = "other"
        /\ \A f \in Incoming : app'[f] = "other"
    BY DEF Reinstall, commitVars, Files, Incoming
  <1>2. Returns(disk)'
    BY <1>1 DEF Returns, Returned, Matters, Before
  <1>. QED BY <1>1, <1>2
       DEF IInv, JournalInv, UndoInv, ArmedInv, helped, idle

LEMMA StutterInv ==
    ASSUME IInv, UNCHANGED vars
    PROVE  JournalInv' /\ UndoInv' /\ ArmedInv'
  <1>1. /\ UNCHANGED <<app, old, new, disk, mem, extras, todo, cur, gap, undo>>
        /\ UNCHANGED <<pc, armed, cut, fresh, base>>
    BY DEF vars, swapVars, updateVars, commitVars
  <1>2. moves' = moves /\ rest' = rest
    BY <1>1 DEF moves, rest
  <1>3. /\ Returns(disk) => Returns(disk)'
        /\ Returns(mem) => Returns(mem)'
        /\ Returns(rest) => Returns(rest)'
        /\ Returns(moves) => Returns(moves)'
        /\ IsNew' <=> IsNew
    BY <1>1, <1>2, SameFiles
  <1>4. (CommitShape' <=> CommitShape) /\ (covers(mem, disk)' <=> covers(mem, disk))
    BY <1>1, <1>2 DEF CommitShape, covers
  <1>. QED BY <1>1, <1>2, <1>3, <1>4
       DEF IInv, JournalInv, UndoInv, ArmedInv, helped, idle

(* Whoever ends a walk leaves none behind. *)
LEMMA WalkEnds ==
    ASSUME IInv, [Next]_vars, Windows = {}
    PROVE  NobodyWalks'
  <1>1. CASE UndoStep
    BY <1>1, UndoStepInv
  <1>2. CASE UNCHANGED undo
    BY <1>2 DEF IInv, NobodyWalks
  <1>3. CASE undo' = NoUndo
    BY <1>3 DEF NobodyWalks, NoUndo
  <1>4. ASSUME NEW who \in Undoers \ {"none"}, NEW j, start_undo(who, j)
        PROVE  NobodyWalks'
    BY <1>4 DEF NobodyWalks, start_undo
  <1>5. CASE CommitStep \/ CommitFails
    BY <1>2, <1>5 DEF CommitStep, CommitFails, TakeOutExtra, TakeOutReplaced, PutIn, _record,
                      MoveRefused, RecordFails
  <1>6. CASE StartRollback \/ RollbackAgain \/ PrepareRecover \/ Housekeeping \/ Login
    BY <1>2, <1>3, <1>4, <1>6
       DEF StartRollback, RollbackAgain, PrepareRecover, Housekeeping, Login, Undoers
  <1>7. CASE UNCHANGED vars \/ Begin \/ PrepareFails \/ CommitDone \/ StartAndVerify \/ Age
    BY <1>2, <1>7 DEF vars, swapVars, Begin, PrepareFails, CommitDone, StartAndVerify, Age
  <1>8. CASE Prepare \/ Discard \/ DiscardJournal \/ Disarm \/ Cleanup \/ Reinstall
    BY <1>2, <1>8 DEF Prepare, prepare, Discard, DiscardJournal, Disarm, Cleanup, Reinstall
  <1>9. CASE PrepareRecovered \/ PrepareUnsaved \/ RollbackDone \/ RollbackUnsaved
             \/ HousekeepingDone \/ HousekeepingUnsaved \/ RescueDone \/ RescueStops \/ Crash
    BY <1>3, <1>9 DEF PrepareRecovered, PrepareUnsaved, RollbackDone, RollbackUnsaved,
                      HousekeepingDone, HousekeepingUnsaved, RescueDone, RescueStops, Crash
  <1>. QED BY <1>1, <1>5, <1>6, <1>7, <1>8, <1>9 DEF Next, Installer, Recovery

LEMMA StepInv ==
    ASSUME Windows = {}, IInv, [Next]_vars
    PROVE  IInv'
  <1>1. TypeOK'
    BY TypeStep DEF IInv
  <1>2. NobodyWalks'
    BY WalkEnds
  <1>3. JournalInv' /\ UndoInv' /\ ArmedInv'
    <2>1. CASE CommitStep
      <3>1. pc = "commit" /\ UNCHANGED <<pc, base, armed, cut>> /\ fresh' = TRUE
        BY <2>1 DEF CommitStep
      <3>. QED BY <2>1, <3>1, TakeOutInv, PutInInv, RecordInv DEF CommitStep
    <2>2. CASE CommitFails
      <3>1. pc = "commit" /\ UNCHANGED <<base, armed, cut>> /\ pc' = "failed"
        BY <2>2 DEF CommitFails
      <3>. QED BY <2>2, <3>1, RecordInv DEF CommitFails
    <2>3. CASE Login
      BY <2>3, WalkBeginsInv, QuietInv
    <2>4. CASE PrepareRecover \/ PrepareRecovered \/ PrepareUnsaved \/ Prepare \/ PrepareFails
      BY <2>4, PrepareRecoverInv, PrepareRecoveredInv, PrepareUnsavedInv, PrepareInv,
         PrepareFailsInv
    <2>5. CASE CommitDone \/ StartAndVerify \/ Discard \/ DiscardJournal \/ Disarm
      BY <2>5, CommitDoneInv, VerifyInv, DiscardInv
    <2>6. CASE StartRollback \/ RollbackDone \/ RollbackAgain \/ RollbackUnsaved
      BY <2>6, StartRollbackInv, RollbackDoneInv, RollbackAgainInv, RollbackUnsavedInv
    <2>7. CASE Housekeeping \/ HousekeepingDone \/ HousekeepingUnsaved \/ RescueDone
               \/ RescueStops \/ Age
      BY <2>7, WalkBeginsInv, WalkSavedInv, RescueStopsInv, QuietInv
    <2>8. CASE Begin \/ UndoStep \/ Cleanup \/ Crash \/ Reinstall \/ UNCHANGED vars
      BY <2>8, BeginInv, UndoStepInv, CleanupInv, CrashInv, ReinstallInv, StutterInv
    <2>. QED BY <2>1, <2>2, <2>3, <2>4, <2>5, <2>6, <2>7, <2>8 DEF Next, Installer, Recovery
  <1>. QED BY <1>1, <1>2, <1>3 DEF IInv

-----------------------------------------------------------------------------
(* The theorems. *)

LEMMA InvWhole == IInv => WholeVersion
  <1>. SUFFICES ASSUME IInv, settled, ~ IsNew
                PROVE  IsOld \/ IsOther
    BY DEF WholeVersion
  <1>1. Returns(NoMoves)
    BY DEF IInv, JournalInv, settled, pending
  <1>2. \A f \in Files : Matters(f) => app[f] = Before(f)
    BY <1>1, NothingLeft
  <1>3. base \in {"old", "other"}
    BY DEF IInv, TypeOK
  <1>4. CASE base = "old"
    BY <1>2, <1>4 DEF Matters, Before, IsOld
  <1>5. CASE base = "other"
    BY <1>2, <1>5 DEF Matters, Before, IsOther, Files, Incoming
  <1>. QED BY <1>3, <1>4, <1>5

LEMMA ReturnsHasWhole ==
    ASSUME IInv, NEW j, Returns(j)
    PROVE  HasWhole("old", Outgoing) \/ HasWhole("other", Incoming)
  <1>1. base \in {"old", "other"}
    BY DEF IInv, TypeOK
  <1>2. ASSUME NEW f \in Files, Matters(f), Before(f) # "none"
        PROVE  Before(f) \in {app[f], old[f]}
    BY <1>2 DEF Returns, Returned
  <1>3. CASE base = "old"
    <2>1. \A f \in Outgoing : f \in Files /\ Matters(f) /\ Before(f) = "old"
      BY <1>3, FilesAssumption DEF Outgoing, Files, Matters, Before
    <2>. QED BY <1>2, <2>1 DEF HasWhole
  <1>4. CASE base = "other"
    <2>1. \A f \in Incoming : f \in Files /\ Matters(f) /\ Before(f) = "other"
      BY <1>4 DEF Incoming, Files, Matters, Before
    <2>. QED BY <1>2, <2>1 DEF HasWhole
  <1>. QED BY <1>1, <1>3, <1>4

LEMMA InvSomeWhole == IInv => SomeVersionWhole
  <1>. SUFFICES ASSUME IInv PROVE SomeVersionWhole
    OBVIOUS
  <1>1. pc \in Pcs /\ undo.who \in Undoers
    BY DEF IInv, TypeOK, SwapTypeOK
  <1>2. IsNew \/ Returns(disk) \/ Returns(mem) \/ Returns(moves)
    BY <1>1 DEF IInv, JournalInv, UndoInv, idle, Pcs, Undoers
  <1>. QED BY <1>2, ReturnsHasWhole DEF SomeVersionWhole

LEMMA InvCanFinish == IInv => CanFinish
  BY DEF IInv, ArmedInv, helped, CanFinish, Stranded, pending, idle

LEMMA SpecInv ==
    ASSUME Windows = {}
    PROVE  Spec => []IInv
  <1>1. Init => IInv
    BY InitInv
  <1>2. IInv /\ [Next]_vars => IInv'
    BY StepInv
  <1>. QED BY <1>1, <1>2, PTL DEF Spec

(* Whenever nothing runs and no move is left to return, the program is one   *)
(* whole version, whatever was refused, failed or lost power on the way      *)
(* (swap.py: "recover returns everything at the next start").               *)
THEOREM AlwaysWhole ==
    ASSUME Windows = {}
    PROVE  Spec => []WholeVersion
  BY SpecInv, InvWhole, PTL

(* No step of the replacement, the rollback or a clean-up deletes the last   *)
(* copy of a file while the version it belongs to is still needed.          *)
THEOREM NothingLost ==
    ASSUME Windows = {}
    PROVE  Spec => []SomeVersionWhole
  BY SpecInv, InvSomeWhole, PTL

(* A program that is left without its exe and without an armed rescue script  *)
(* was left so by a run of that script that was itself cut short            *)
(* (rescue.py:145): no refused rename, failed write, power loss, attempt,    *)
(* start or reinstallation strands a rollback otherwise.                    *)
THEOREM RollbackCanFinish ==
    ASSUME Windows = {}
    PROVE  Spec => []CanFinish
  BY SpecInv, InvCanFinish, PTL

LEMMA StepKeepsReinstalled ==
    ASSUME IInv, [Next]_vars, undo.who # "none", NEW f \in Incoming, app[f] = "other"
    PROVE  app'[f] = "other"
  <1>1. app \in [Files -> Contents] /\ f \in Files
    BY DEF IInv, TypeOK, SwapTypeOK, Files, Incoming
  <1>2. pc \in {"off", "prepare", "rollback"}
    BY DEF IInv, UndoInv, TypeOK, SwapTypeOK, Undoers
  <1>3. CASE UndoStep
    <2>1. PICK g \in Files : UndoIn(g) \/ UndoOut(g)
      BY <1>3 DEF UndoStep
    <2>. QED BY <1>1, <2>1 DEF UndoIn, UndoOut, ours, origin_free
  <1>4. CASE UNCHANGED app
    BY <1>4
  <1>5. ~ Reinstall /\ ~ CommitStep
    BY <1>2 DEF Reinstall, CommitStep, idle
  <1>6. Next /\ ~ UndoStep => UNCHANGED app
    BY <1>5 DEF Next, Installer, Recovery, Begin, PrepareRecover, PrepareRecovered,
        PrepareUnsaved, Prepare, prepare, PrepareFails, CommitFails, MoveRefused,
        RecordFails, CommitDone, StartAndVerify, Discard,
        DiscardJournal, Disarm, StartRollback, RollbackDone, RollbackAgain, RollbackUnsaved,
        Housekeeping, HousekeepingDone, HousekeepingUnsaved, Login, RescueDone,
        RescueStops, Age, Cleanup, Crash,
        swapVars
  <1>. QED BY <1>3, <1>4, <1>6 DEF vars, swapVars

(* No walk back, of whoever and from whatever journal, moves a file that a   *)
(* reinstallation put into the program's folder.                            *)
THEOREM ReinstallSafe ==
    ASSUME Windows = {}
    PROVE  Spec => ReinstallKept
  <1>1. IInv /\ [Next]_vars => (undo.who # "none" =>
            \A f \in Incoming : app[f] = "other" => app'[f] = "other")
    BY StepKeepsReinstalled
  <1>. QED BY <1>1, SpecInv, PTL DEF Spec, ReinstallKept

(* A settled program is the new version or the one the update began from.   *)
VersionInv ==
    /\ settled => version \in {"new", base}
    /\ version = "changing" <=> ~ settled
    /\ base \in {"old", "other"}

LEMMA SettledVersion == IInv => VersionInv
  <1>. SUFFICES ASSUME IInv PROVE VersionInv
    OBVIOUS
  <1>1. base \in {"old", "other"}
    BY DEF IInv, TypeOK
  <1>2. ASSUME settled, ~ IsNew
        PROVE  version = base
    <2>1. \A f \in Files : Matters(f) => app[f] = Before(f)
      BY <1>2, NothingLeft DEF IInv, JournalInv, settled, pending
    <2>2. Exe \in Files /\ Exe \in Incoming /\ Exe \notin Added /\ Matters(Exe)
      BY UpdateAssumption, FilesAssumption DEF Files, Incoming, Matters
    <2>3. CASE base = "old"
      BY <1>2, <2>1, <2>3 DEF Matters, Before, IsOld, version
    <2>4. CASE base = "other"
      <3>1. IsOther
        BY <2>1, <2>4 DEF Matters, Before, IsOther, Files, Incoming
      <3>2. ~ IsOld
        BY <2>1, <2>2, <2>4 DEF Before, IsOld
      <3>. QED BY <1>2, <2>4, <3>1, <3>2 DEF version
    <2>. QED BY <1>1, <2>3, <2>4
  <1>. QED BY <1>1, <1>2 DEF version, VersionInv

(* While the program is settled, only a new attempt, a reinstallation or a   *)
(* step that moves nothing can happen.                                      *)
LEMMA SettledStep ==
    ASSUME IInv, settled, [Next]_vars, ~ Begin, ~ Reinstall
    PROVE  UNCHANGED <<app, disk, pc, undo, base>>
  <1>1. pc = "off" /\ undo.who = "none" /\ disk = NoMoves /\ undo.in = {} /\ undo.out = {}
    BY DEF settled, idle, pending, IInv, NobodyWalks
  <1>2. ~ Installer
    BY <1>1 DEF Installer, PrepareRecover, PrepareRecovered, PrepareUnsaved, Prepare,
        PrepareFails, CommitStep, CommitFails, CommitDone, StartAndVerify,
        Discard, DiscardJournal, Disarm, StartRollback,
        RollbackDone, RollbackAgain, RollbackUnsaved, undone
  <1>3. ~ Housekeeping /\ ~ HousekeepingDone /\ ~ HousekeepingUnsaved /\ ~ RescueDone
                       /\ ~ RescueStops /\ ~ UndoStep
                       /\ ~ Crash
    BY <1>1 DEF Housekeeping, HousekeepingDone, HousekeepingUnsaved, RescueDone,
        RescueStops, undone, pending, UndoStep, UndoIn, UndoOut, Crash, idle
  <1>4. CASE Login \/ Age \/ Cleanup
    BY <1>1, <1>4 DEF Login, pending, Age, swapVars, Cleanup
  <1>5. CASE UNCHANGED vars
    BY <1>5 DEF vars, swapVars, updateVars
  <1>. QED BY <1>2, <1>3, <1>4, <1>5 DEF Next, Recovery

(* Once begun, only a reinstallation changes the version to return to.      *)
LEMMA BaseKept ==
    ASSUME IInv, [Next]_vars, ~ Reinstall
    PROVE  base' = base
  <1>1. CASE Begin
    BY <1>1, BeginKeepsBase
  <1>2. CASE Installer
    BY <1>2 DEF Installer, PrepareRecover, PrepareRecovered, PrepareUnsaved, Prepare,
        PrepareFails, CommitStep, CommitFails, CommitDone, StartAndVerify,
        Discard, DiscardJournal, Disarm, StartRollback,
        RollbackDone, RollbackAgain, RollbackUnsaved, updateVars
  <1>3. CASE Recovery \/ Cleanup \/ Crash \/ UNCHANGED vars
    BY <1>3 DEF Recovery, Housekeeping, HousekeepingDone, HousekeepingUnsaved, Login, RescueDone,
        RescueStops, UndoStep, Age, Cleanup, Crash, vars, updateVars
  <1>. QED BY <1>1, <1>2, <1>3 DEF Next

LEMMA AtomicStep ==
    ASSUME IInv, VersionInv, VersionInv', [Next]_vars
    PROVE  [Atomic!Next]_(Atomic!vars)
  <1>. USE DEF Atomic!Next, Atomic!vars, Atomic!Bases
  <1>1. /\ settled => version \in {"new", base}
        /\ version = "changing" <=> ~ settled
        /\ base \in {"old", "other"}
    BY DEF VersionInv
  <1>2. /\ settled' => version' \in {"new", base'}
        /\ version' = "changing" <=> ~ settled'
    BY DEF VersionInv
  <1>3. CASE Begin
    <2>1. base' = base
      BY <1>3, BeginKeepsBase
    <2>2. version' = "changing"
      BY <1>3 DEF Begin, version, settled, idle
    <2>3. version # "new"
      BY <1>3, <1>1 DEF Begin, version
    <2>. QED BY <1>1, <2>1, <2>2, <2>3 DEF Atomic!Begin
  <1>4. CASE Reinstall
    <2>1. base' = "other" /\ (settled' <=> settled)
      BY <1>4 DEF Reinstall, settled, idle, pending
    <2>2. ~ IsNew'
      <3>1. Exe \in Incoming /\ Exe \in Files
        BY UpdateAssumption DEF Incoming, Files
      <3>2. app'[Exe] = "other"
        BY <1>4, <3>1 DEF Reinstall
      <3>. QED BY <3>1, <3>2 DEF IsNew
    <2>3. version' # "new"
      BY <2>2 DEF version
    <2>. QED BY <1>1, <1>2, <2>1, <2>3 DEF Atomic!Reinstall
  <1>5. CASE ~ Begin /\ ~ Reinstall
    <2>1. base' = base
      BY <1>5, BaseKept
    <2>2. CASE settled
      <3>1. UNCHANGED <<app, disk, pc, undo, base>>
        BY <1>5, <2>2, SettledStep
      <3>2. version' = version
        BY <3>1 DEF version, settled, idle, pending, IsNew, IsOld, IsOther
      <3>. QED BY <2>1, <3>2
    <2>3. CASE ~ settled
      BY <1>1, <1>2, <2>1, <2>3 DEF Atomic!Commit, Atomic!Abort
    <2>. QED BY <2>2, <2>3
  <1>. QED BY <1>3, <1>4, <1>5

(* The installation, its rollback and its recovery take only the steps of    *)
(* the abstract update: a version that is changing becomes the new one or    *)
(* goes back to the one it began from, and a settled one stays.             *)
THEOREM UpdateIsAtomic ==
    ASSUME Windows = {}
    PROVE  Spec => Atomic!Safety
  <1>1. Init => Atomic!Init
    <2>. SUFFICES ASSUME Init PROVE version = "old" /\ base = "old"
      BY DEF Atomic!Init
    <2>2. Exe \in Incoming /\ Exe \in Files /\ Exe \notin Added
      BY UpdateAssumption, FilesAssumption DEF Incoming, Files
    <2>3. IInv
      BY InitInv
    <2>4. settled /\ base = "old" /\ app[Exe] # "new"
      BY <2>2 DEF Init, SwapInit, settled, idle, pending, NoUndo
    <2>. QED BY <2>2, <2>3, <2>4, SettledVersion DEF version, VersionInv, IsNew
  <1>2. IInv /\ VersionInv /\ VersionInv' /\ [Next]_vars => [Atomic!Next]_(Atomic!vars)
    BY AtomicStep
  <1>. QED BY <1>1, <1>2, SpecInv, SettledVersion, PTL DEF Spec, Atomic!Safety
=============================================================================
