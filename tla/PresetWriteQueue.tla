-------------------------- MODULE PresetWriteQueue --------------------------
(***************************************************************************)
(* profile/ui/preset_write_queue.py with ui/queued_worker_state.py and      *)
(* ui/one_shot_worker_runtime.py: the writes a page of profiles makes.  One *)
(* worker at a time changes a preset; a command given meanwhile waits in    *)
(* the queue, where a newer one of the same meaning takes its place.  The   *)
(* worker calls profile/service.py, which reads the SELECTED preset, edits  *)
(* it and writes the SELECTED preset: the selection is looked up twice, in  *)
(* the worker's thread, while the user may select another preset.           *)
(*                                                                          *)
(* Abstractions.  The text of a preset is the preset it was read from and   *)
(* the set of operations written into it.  A command is what it asks for    *)
(* (kind, action and profile); the value it sets is that of its id, which   *)
(* grows with every click.  Moves go to the folder state, which is read and *)
(* written under a lock; a change of a user profile goes to the file of     *)
(* every preset by its name.  The patches a finished worker makes to the    *)
(* rows on the screen are left out.                                         *)
(*                                                                          *)
(* Windows names the moments a run lets an event fall into:                 *)
(*   "finish"  a click after the thread of a worker ended and before its    *)
(*             finished signal is delivered (QThread.isRunning is false);   *)
(*   "select"  a change of the selection between a click, or the start of a *)
(*             queued operation, and the end of its write;                  *)
(*   "load"    a change of the selection while a thread builds the list of  *)
(*             the old one;                                                 *)
(*   "return"  a change back to the preset on the screen, or to the one     *)
(*             that is about to be put there, while the list of another one *)
(*             is being loaded.                                             *)
(***************************************************************************)
EXTENDS Naturals, Sequences, FiniteSetsExt

CONSTANTS Presets, NoPreset,
          Asks,         \* what can be asked for: [kind, action, key]
          NoOp,
          Windows,
          MaxClicks,    \* bound: commands given
          MaxSelects,   \* bound: changes of the selection
          MaxFailures,  \* bound: workers that fail
          MaxEvents     \* bound: all of these together

Kinds == {"context", "move", "user_profile"}
Runtimes == {"context", "move", "create", "update", "delete"}
user_runtimes == {"create", "update", "delete"}

Operations == [id : 1..MaxClicks, ask : Asks, preset : Presets \cup {NoPreset}]

ASSUME QueueAssumption ==
    /\ NoPreset \notin Presets /\ NoOp \notin Operations
    /\ \A a \in Asks : a.kind \in Kinds /\ (a.kind = "user_profile" => a.action \in user_runtimes)
    /\ Windows \subseteq {"finish", "select", "load", "return"}
    /\ MaxClicks \in Nat /\ MaxSelects \in Nat /\ MaxFailures \in Nat /\ MaxEvents \in Nat

Entries == [place : Nat, op : Operations]
Texts == [of : Presets, edits : SUBSET Operations]
NoText == [of |-> NoPreset, edits |-> {}]
Idle == [at |-> "none", op |-> NoOp, read |-> NoText]

VARIABLES
    pending,            \* QueuedWorkerState.pending: operations and their places
    start_scheduled,    \* the operation popped for singleShot(0), or NoOp
    worker,             \* the worker each OneShotWorkerRuntime holds
    actions_enabled,    \* the button "add profile"
    selected,           \* the selected preset of the settings
    told,               \* preset_switched signals on their way to the GUI thread
    active,             \* active_preset_file_name of the UI store
    displayed,          \* _displayed_preset_file_name: the preset on the screen
    text,               \* the files of the presets
    folders,            \* the moves in the folder state
    news,               \* presets whose preset_content_changed is on its way
    owed,               \* history: operations accepted and not yet answered
    clicks, selects, failures

queueVars == <<pending, start_scheduled, worker, actions_enabled>>
presetVars == <<selected, told, active, text, folders, news>>
countVars == <<clicks, selects, failures>>
pageVars == <<queueVars, presetVars, countVars, displayed, owed>>

few_events == clicks + selects + failures < MaxEvents

QueueTypeOK ==
    /\ pending \subseteq Entries
    /\ start_scheduled \in Operations \cup {NoOp}
    /\ worker \in [Runtimes -> [at : {"none", "wait", "save", "ended"},
                                op : Operations \cup {NoOp}, read : Texts \cup {NoText}]]
    /\ actions_enabled \in BOOLEAN
    /\ selected \in Presets /\ active \in Presets /\ displayed \in Presets
    /\ told \in Seq(Presets)
    /\ text \in [Presets -> Texts]
    /\ folders \subseteq Operations /\ owed \subseteq Operations
    /\ news \subseteq Presets
    /\ clicks \in 0..MaxClicks /\ selects \in 0..MaxSelects /\ failures \in 0..MaxFailures

QueueInit ==
    /\ pending = {} /\ start_scheduled = NoOp
    /\ worker = [r \in Runtimes |-> Idle]
    /\ actions_enabled = TRUE
    /\ selected \in Presets /\ active = selected /\ displayed = selected
    /\ told = <<>>
    /\ text = [p \in Presets |-> [of |-> p, edits |-> {}]]
    /\ folders = {} /\ owed = {} /\ news = {}
    /\ clicks = 0 /\ selects = 0 /\ failures = 0

-----------------------------------------------------------------------------

preset_bound(a) == a.kind # "user_profile"
runtime_of(a) == IF preset_bound(a) THEN a.kind ELSE a.action

(* A newer command takes the place of a waiting one that sets the same.      *)
replaces(new, o) == /\ new.kind = "move" \/ new.action \in {"set_enabled", "update"}
                    /\ o.ask = new

is_running(r) == worker[r].at \in {"wait", "save"}
user_profile_operation_running == \E r \in user_runtimes : is_running(r)

MutSeesNoUserProfile ==
    start_scheduled # NoOp \/ is_running("context") \/ is_running("move")

MutSeesNoScheduled ==
    is_running("context") \/ is_running("move") \/ user_profile_operation_running

operation_running ==
    \/ start_scheduled # NoOp
    \/ is_running("context") \/ is_running("move")
    \/ user_profile_operation_running

replaced(queue, a) == {e \in queue : replaces(a, e.op)}
last_place(queue) == Max({0} \cup {e.place : e \in queue})
first(queue, e) == e \in queue /\ \A d \in queue : e.place <= d.place
ops(queue) == {e.op : e \in queue}

queue_operation(queue, op) ==
    (queue \ replaced(queue, op.ask)) \cup {[place |-> last_place(queue) + 1, op |-> op]}

list_is_stale == active # displayed

MutNeverOther(op) == FALSE

targets_other_preset(op) ==
    op.preset # NoPreset /\ (displayed # op.preset \/ active # op.preset)

start_worker(op) ==
    /\ worker' = [worker EXCEPT ![runtime_of(op.ask)] = [at |-> "wait", op |-> op, read |-> NoText]]
    /\ actions_enabled' = (actions_enabled /\ preset_bound(op.ask))

(* The switch has reached the pages, unless the run lets it be late.         *)
switch_seen(op) == preset_bound(op.ask) => told = <<>> \/ "select" \in Windows

-----------------------------------------------------------------------------
(* A click: _request_profile_context_action, _request_profile_move and       *)
(* _request_user_profile_create, _update, _delete.                           *)

Request(a) ==
    LET op == [id |-> clicks + 1, ask |-> a,
               preset |-> IF preset_bound(a) THEN displayed ELSE NoPreset] IN
    /\ clicks < MaxClicks /\ few_events
    /\ clicks' = clicks + 1
    /\ a.kind = "user_profile" => actions_enabled \/ a.action # "create"
    /\ preset_bound(a) => ~ list_is_stale
    /\ switch_seen(op)
    /\ "finish" \notin Windows => \A r \in Runtimes : worker[r].at # "ended"
    /\ IF operation_running
       THEN /\ pending' = queue_operation(pending, op)
            /\ owed' = (owed \ ops(replaced(pending, a))) \cup {op}
            /\ UNCHANGED <<worker, actions_enabled>>
       ELSE /\ start_worker(op)
            /\ owed' = owed \cup {op}
            /\ UNCHANGED pending
    /\ UNCHANGED <<start_scheduled, presetVars, displayed, selects, failures>>

-----------------------------------------------------------------------------
(* The finished signal of a worker, and the start of the next operation.     *)

(* schedule_next_after_finish: what is popped waits for singleShot(0), or    *)
(* goes back when another operation already does.                            *)
MutForgetsNext == UNCHANGED <<pending, start_scheduled>>

MutSchedulesEntry ==
    IF pending = {} THEN UNCHANGED <<pending, start_scheduled>>
    ELSE \E e \in pending :
           first(pending, e) /\ start_scheduled' = e /\ pending' = pending \ {e}

schedule_next ==
    IF pending = {} THEN UNCHANGED <<pending, start_scheduled>>
    ELSE \E e \in pending :
           /\ first(pending, e)
           /\ IF start_scheduled # NoOp
              THEN /\ pending' = queue_operation(pending \ {e}, e.op)
                   /\ UNCHANGED start_scheduled
              ELSE start_scheduled' = e.op /\ pending' = pending \ {e}

WorkerFinished(r) ==
    /\ worker[r].at = "ended"
    /\ worker' = [worker EXCEPT ![r] = Idle]
    /\ schedule_next
    /\ actions_enabled' = \/ actions_enabled
                          \/ /\ r \in user_runtimes /\ pending = {}
                             /\ ~ user_profile_operation_running
    /\ UNCHANGED <<presetVars, countVars, displayed, owed>>

(* _run_profile_preset_write_operation: the popped operation goes back when  *)
(* a click was faster; operations aimed at a preset no longer shown are      *)
(* skipped until one can start.                                              *)
RunScheduled ==
    LET op == start_scheduled
        running == \E r \in Runtimes : is_running(r)
        fit == {e \in pending : ~ targets_other_preset(e.op)}
    IN
    /\ op # NoOp /\ start_scheduled' = NoOp
    /\ \/ /\ running
          /\ pending' = queue_operation(pending, op)
          /\ UNCHANGED <<worker, actions_enabled, owed>>
       \/ /\ ~ running /\ ~ targets_other_preset(op) /\ switch_seen(op)
          /\ start_worker(op)
          /\ UNCHANGED <<pending, owed>>
       \/ /\ ~ running /\ targets_other_preset(op) /\ fit = {}
          /\ pending' = {} /\ owed' = (owed \ {op}) \ ops(pending)
          /\ UNCHANGED <<worker, actions_enabled>>
       \/ /\ ~ running /\ targets_other_preset(op)
          /\ \E e \in fit :
               LET skipped == {d \in pending : d.place < e.place} IN
               /\ first(fit, e) /\ switch_seen(e.op)
               /\ start_worker(e.op)
               /\ pending' = pending \ (skipped \cup {e})
               /\ owed' = (owed \ {op}) \ ops(skipped)
    /\ UNCHANGED <<presetVars, countVars, displayed>>

-----------------------------------------------------------------------------
(* The threads of the workers: profile/service.py.                           *)

ends(r) == worker' = [worker EXCEPT ![r].at = "ended", ![r].read = NoText]
answered(r) == owed' = owed \ {worker[r].op}

Load ==
    LET r == "context" IN
    /\ worker[r].at = "wait"
    /\ worker' = [worker EXCEPT ![r].at = "save", ![r].read = text[selected]]
    /\ UNCHANGED <<pending, start_scheduled, actions_enabled, presetVars, countVars,
                   displayed, owed>>

(* _commit_preset: the text read and edited goes to the preset selected now. *)
Save ==
    LET r == "context" IN
    /\ worker[r].at = "save"
    /\ text' = [text EXCEPT ![selected] =
                  [of |-> worker[r].read.of, edits |-> worker[r].read.edits \cup {worker[r].op}]]
    /\ news' = news \cup {selected}
    /\ ends(r) /\ answered(r)
    /\ UNCHANGED <<pending, start_scheduled, actions_enabled, selected, told, active, folders,
                   countVars, displayed>>

SaveMove ==
    /\ worker["move"].at = "wait"
    /\ folders' = folders \cup {worker["move"].op}
    /\ ends("move") /\ answered("move")
    /\ UNCHANGED <<pending, start_scheduled, actions_enabled, selected, told, active, text, news,
                   countVars, displayed>>

(* A user profile that is created is in no preset yet.                       *)
SaveUserProfile(r) ==
    /\ r \in user_runtimes /\ worker[r].at = "wait"
    /\ IF r = "create" THEN UNCHANGED <<text, news>>
       ELSE /\ text' = [p \in Presets |-> [text[p] EXCEPT !.edits = @ \cup {worker[r].op}]]
            /\ news' = Presets
    /\ ends(r) /\ answered(r)
    /\ UNCHANGED <<pending, start_scheduled, actions_enabled, selected, told, active, folders,
                   countVars, displayed>>

WriteFails(r) ==
    /\ is_running(r) /\ failures < MaxFailures /\ few_events
    /\ failures' = failures + 1
    /\ ends(r) /\ answered(r)
    /\ UNCHANGED <<pending, start_scheduled, actions_enabled, presetVars, clicks, selects,
                   displayed>>

-----------------------------------------------------------------------------
(* presets/selection_service.py: the user selects another preset; the signal *)
(* reaches the pages later.                                                  *)

SelectPreset(p) ==
    /\ selects < MaxSelects /\ few_events /\ p # selected
    /\ "select" \in Windows \/ ~ (is_running("context") \/ is_running("move"))
    /\ selects' = selects + 1
    /\ selected' = p
    /\ told' = Append(told, p)
    /\ UNCHANGED <<queueVars, active, text, folders, news, clicks, failures,
                   displayed, owed>>

(* _drop_preset_bound_operations *)
drop_preset_bound ==
    LET dropped == {e \in pending : preset_bound(e.op.ask)} IN
    /\ pending' = pending \ dropped
    /\ owed' = owed \ ops(dropped)
=============================================================================
