---------------------- MODULE PresetRuntimeCoordinator ----------------------
(***************************************************************************)
(* core/runtime/preset_runtime_coordinator.py: what a change of the         *)
(* selected preset, or of its file, has to reach: the running engine, the   *)
(* watcher of the file and the pages.  A file changed by another program is *)
(* noticed by the watcher alone; a file the program wrote itself is to be   *)
(* kept from looking like one, for a time after the write.                  *)
(*                                                                          *)
(* One launch method, and the engine runs.  Of the switch pipeline asked is *)
(* kept: it was told to apply the preset and has not read it yet (how it    *)
(* loses no request is LaunchRuntime's).  watch is the worker that resolves *)
(* the path to watch.  Renaming, deleting and resetting presets inside the  *)
(* program, the messages and the refresh of the pages are left out.         *)
(*                                                                          *)
(* Windows names the moments a run lets an event fall into:                 *)
(*   "own"    a change by another program soon after a save of the program, *)
(*            or a save before such a change is noticed;                    *)
(*   "gap"    a change by another program before the selected preset, or    *)
(*            the copy a draft has made of it, is watched, or while another *)
(*            path is on its way to be;                                     *)
(*   "shadow" another program puts a file of the user's over the selected   *)
(*            built-in preset, or removes the one that lies over it;         *)
(*   "late"   the return of a missing file nobody waits for any more;       *)
(*   "timer"  a change of the preset in use between the signal of a save    *)
(*            and the timer that handles it;                                *)
(*   "slow"   an event of the watcher that comes after the time for which   *)
(*            own writes are known.                                         *)
(***************************************************************************)
EXTENDS PresetSelection

CONSTANTS Windows,
          MaxAttempts   \* PRESET_WATCH_REARM_MAX_ATTEMPTS

ASSUME CoordinatorAssumption ==
    /\ Windows \subseteq {"own", "gap", "shadow", "late", "timer", "slow"}
    /\ MaxAttempts \in Nat

VARIABLES
    last_key,         \* _last_active_preset_key, or NoPreset
    projection,       \* _active_preset_projection
    publish_pending,  \* the singleShot that publishes it
    shown,            \* the active preset in the UI state store
    watch,            \* the worker that resolves a path
    pending_watch,    \* _pending_active_preset_watch, or NoPreset
    setup_pending,    \* _active_preset_file_watcher_setup_pending
    restart,          \* singleShot(_start_active_preset_watch_worker)
    watched,          \* _active_preset_file_path: a file, or NoPreset
    armed,            \* that file is among watcher.files()
    events,           \* fileChanged on their way: [path, by]; by is history
    rearm, attempts,  \* the rearm timer and its attempts
    waits,            \* _active_preset_change_waits_for_file
    own,              \* presets of the own write registry, 2.5 s
    suppress,         \* _pending_own_preset_content_file_name, 1.5 s
    pending_content,  \* _pending_preset_content_apply, with its timer
    asked,            \* what the switch pipeline was asked for
    engine,           \* the file the engine was given, and its text
    draft             \* history: presets with a draft that is not committed

publishVars == <<projection, publish_pending, shown>>
setupVars == <<watch, pending_watch, setup_pending, restart>>
watcherVars == <<watched, armed, rearm, attempts, waits>>
ownVars == <<own, suppress, pending_content>>
engineVars == <<asked, engine, draft>>
vars == <<selectionVars, last_key, publishVars, setupVars, watcherVars, events, ownVars, engineVars>>

NoWatch == [at |-> "none", for |-> NoPreset, path |-> NoPreset]

TypeOK ==
    /\ SelectionTypeOK
    /\ last_key \in Presets \cup {NoPreset} /\ projection \in Presets
    /\ publish_pending \in BOOLEAN /\ shown \in Presets
    /\ watch \in [at : {"none", "resolves", "emitted", "ended"},
                  for : Presets \cup {NoPreset}, path : Files \cup {NoPreset}]
    /\ pending_watch \in Presets \cup {NoPreset}
    /\ setup_pending \in BOOLEAN /\ restart \in BOOLEAN
    /\ watched \in Files \cup {NoPreset} /\ armed \in BOOLEAN
    /\ events \subseteq [path : Files, by : {"program", "other"}]
    /\ rearm \in BOOLEAN /\ attempts \in 0..MaxAttempts /\ waits \in BOOLEAN
    /\ own \subseteq Presets
    /\ suppress \in Presets \cup {NoPreset} /\ pending_content \in Presets \cup {NoPreset}
    /\ asked \subseteq {"switched", "content", "external"}
    /\ engine \in [of : Files, text : 0..(MaxWrites + MaxChanges)]
    /\ draft \subseteq Presets

(* The program has started on the selected preset and sets the watcher up.   *)
Init ==
    /\ SelectionInit
    /\ last_key = NoPreset /\ projection = selected /\ publish_pending = FALSE /\ shown = selected
    /\ watch = [NoWatch EXCEPT !.at = "resolves"]
    /\ pending_watch = NoPreset /\ setup_pending = FALSE /\ restart = FALSE
    /\ watched = NoPreset /\ armed = FALSE /\ events = {}
    /\ rearm = FALSE /\ attempts = 0 /\ waits = FALSE
    /\ own = {} /\ suppress = NoPreset /\ pending_content = NoPreset
    /\ asked = {} /\ engine = [of |-> file(selected), text |-> 0] /\ draft = {}

-----------------------------------------------------------------------------
(* The watcher's worker *)

is_running == watch.at \in {"resolves", "emitted"}

(* _schedule_active_preset_file_watcher_setup.                               *)
schedule_watch_setup(p) ==
    IF is_running
    THEN /\ pending_watch' = p /\ setup_pending' = TRUE
         /\ UNCHANGED <<watch, restart>>
    ELSE /\ watch' = [NoWatch EXCEPT !.at = "resolves", !.for = p]
         /\ pending_watch' = NoPreset /\ setup_pending' = FALSE
         /\ UNCHANGED restart

(* The posted _start_active_preset_watch_worker.                             *)
start_watch_worker ==
    /\ restart /\ restart' = FALSE
    /\ IF is_running THEN UNCHANGED <<watch, pending_watch>>
       ELSE /\ watch' = [NoWatch EXCEPT !.at = "resolves", !.for = pending_watch]
            /\ pending_watch' = NoPreset
    /\ UNCHANGED <<selectionVars, last_key, publishVars, setup_pending, watcherVars, events, ownVars,
                   engineVars>>

(* PresetWatchPathResolveWorker.run: the path of a preset, if its file is    *)
(* there, or of the preset in use.                                           *)
resolve_path ==
    /\ watch.at = "resolves"
    /\ watch' = [watch EXCEPT !.at = "emitted",
                     !.path = IF watch.for = NoPreset THEN file(effective)
                              ELSE IF watch.for \in exists THEN file(watch.for) ELSE NoPreset]
    /\ IF watch.for = NoPreset THEN ensure_selected_manifest ELSE UNCHANGED selectionVars
    /\ UNCHANGED <<last_key, publishVars, pending_watch, setup_pending, restart, watcherVars, events,
                   ownVars, engineVars>>

WatchWorkerEnds ==
    /\ watch.at = "emitted" /\ watch' = [watch EXCEPT !.at = "ended"]
    /\ UNCHANGED <<selectionVars, last_key, publishVars, pending_watch, setup_pending, restart,
                   watcherVars, events, ownVars, engineVars>>

(* _apply_active_preset_watch_path.  addPath fails silently without a file.  *)
apply_watch_path(f) ==
    /\ watched' = f /\ armed' = (f \in there) /\ attempts' = 0
    /\ waits' = (waits /\ f = watched)
    /\ UNCHANGED rearm

(* The path arrives (the handler of a failure only logs it); then the        *)
(* finished of the worker.                                                   *)
on_watch_path_loaded ==
    /\ watch.at \in {"emitted", "ended"} /\ watch.path # NoPreset
    /\ watch' = [watch EXCEPT !.path = NoPreset]
    /\ IF setup_pending THEN UNCHANGED watcherVars ELSE apply_watch_path(watch.path)
    /\ UNCHANGED <<selectionVars, last_key, publishVars, pending_watch, setup_pending, restart, events,
                   ownVars, engineVars>>

MutForgetsRestart ==
    /\ watch.at = "ended" /\ watch.path = NoPreset
    /\ watch' = NoWatch
    /\ setup_pending' = FALSE /\ restart' = restart
    /\ UNCHANGED <<selectionVars, last_key, publishVars, pending_watch, watcherVars, events, ownVars,
                   engineVars>>

on_watch_worker_finished ==
    /\ watch.at = "ended" /\ watch.path = NoPreset
    /\ watch' = NoWatch
    /\ setup_pending' = FALSE /\ restart' = (restart \/ setup_pending)
    /\ UNCHANGED <<selectionVars, last_key, publishVars, pending_watch, watcherVars, events, ownVars,
                   engineVars>>

-----------------------------------------------------------------------------
(* Signals of the presets *)

publish(p) == projection' = p /\ publish_pending' = TRUE /\ UNCHANGED shown

(* handle_preset_switched, with the key to compare to.                       *)
switch_to(p, key) ==
    /\ last_key' = p
    /\ IF p # key
       THEN publish(p) /\ schedule_watch_setup(p) /\ asked' = asked \cup {"switched"}
       ELSE /\ IF p # projection THEN publish(p) ELSE UNCHANGED publishVars
            /\ UNCHANGED <<setupVars, asked>>
    /\ UNCHANGED <<fileVars, selected, fallback, sent, countVars, ownVars>>

handle_preset_switched(p) == switch_to(p, last_key)

handle_selection_restored(p) == switch_to(p, NoPreset)

handle_selection_fallback(p) ==
    /\ publish(p)
    /\ UNCHANGED <<fileVars, selected, fallback, sent, countVars, last_key, setupVars, ownVars, asked>>

(* Only the preset in use matters; asking for it looks the selection up.     *)
handle_preset_content_changed(p) ==
    /\ fallback' = missing /\ sent' = told
    /\ IF p = effective THEN suppress' = p /\ pending_content' = p
       ELSE UNCHANGED <<suppress, pending_content>>
    /\ UNCHANGED <<fileVars, selected, countVars, last_key, publishVars, setupVars, own, asked>>

HandleSignal ==
    /\ signals # <<>>
    /\ LET s == Head(signals)
       IN  /\ \/ s.kind = "switched" /\ handle_preset_switched(s.preset)
              \/ s.kind = "restored" /\ handle_selection_restored(s.preset)
              \/ s.kind = "fallback" /\ handle_selection_fallback(s.preset)
              \/ s.kind = "content" /\ handle_preset_content_changed(s.preset)
           /\ signals' = Tail(signals) \o (IF s.kind = "content" THEN news ELSE <<>>)
    /\ UNCHANGED <<watcherVars, events, engine, draft>>

publish_active_preset_revision ==
    /\ publish_pending /\ publish_pending' = FALSE /\ shown' = projection
    /\ UNCHANGED <<selectionVars, last_key, projection, setupVars, watcherVars, events, ownVars, engineVars>>

apply_pending_preset_content_change ==
    /\ pending_content # NoPreset /\ pending_content' = NoPreset
    /\ schedule_watch_setup(pending_content)
    /\ suppress' = pending_content
    /\ asked' = asked \cup {"content"}
    /\ UNCHANGED <<selectionVars, last_key, publishVars, watcherVars, events, own, engine, draft>>

-----------------------------------------------------------------------------
(* Events of the watcher *)

MutOneTooMany(tried) ==
    IF watched \in there
    THEN armed' = TRUE /\ attempts' = 0 /\ rearm' = FALSE
    ELSE /\ armed' = FALSE
         /\ IF watched = NoPreset \/ tried > MaxAttempts
            THEN attempts' = tried /\ rearm' = FALSE
            ELSE attempts' = tried + 1 /\ rearm' = TRUE

(* _ensure_active_preset_watch_armed after `tried` attempts; told is whether *)
(* the change that waited for the file is applied now.                       *)
ensure_watch_armed(tried) ==
    IF watched \in there
    THEN armed' = TRUE /\ attempts' = 0 /\ rearm' = FALSE
    ELSE /\ armed' = FALSE
         /\ IF watched = NoPreset \/ tried >= MaxAttempts
            THEN attempts' = tried /\ rearm' = FALSE
            ELSE attempts' = tried + 1 /\ rearm' = TRUE

MutForgetsChange ==
    /\ rearm
    /\ ensure_watch_armed(attempts)
    /\ waits' = (waits /\ watched \notin there)
    /\ UNCHANGED <<selectionVars, last_key, publishVars, setupVars, watched, events, ownVars, engineVars>>

RearmTimer ==
    /\ rearm
    /\ ensure_watch_armed(attempts)
    /\ waits' = (waits /\ watched \notin there)
    /\ asked' = IF waits /\ watched \in there THEN asked \cup {"external"} ELSE asked
    /\ UNCHANGED <<selectionVars, last_key, publishVars, setupVars, watched, events, ownVars, engine, draft>>

(* Own writes are remembered by the name of the file alone. *)
MutForgetsRegistry(f) ==
    suppress # NoPreset /\ (f.name = suppress \/ watched \in {user(f.name), builtin(f.name)})

consume_own_change(f) ==
    \/ f.name \in own
    \/ suppress # NoPreset /\ (f.name = suppress \/ watched \in {user(f.name), builtin(f.name)})

on_active_preset_file_changed(e) ==
    /\ e \in events /\ events' = events \ {e}
    /\ ensure_watch_armed(0)
    /\ LET returned == waits /\ watched \in there
           outside == ~ consume_own_change(e.path)
       IN  /\ waits' = (watched \notin there /\ (waits \/ outside))
           /\ asked' = IF returned \/ (outside /\ watched \in there)
                       THEN asked \cup {"external"} ELSE asked
    /\ UNCHANGED <<selectionVars, last_key, publishVars, setupVars, watched, ownVars, engine, draft>>

-----------------------------------------------------------------------------
(* The engine, the user, the program's writes and other programs *)

(* The save of a preset is not handled yet. *)
content_waits ==
    pending_content # NoPreset \/ \E i \in DOMAIN signals : signals[i].kind = "content"

(* The switch pipeline looks the preset up and gives its text to the engine. *)
EngineApplies ==
    /\ asked # {} /\ asked' = {}
    /\ "timer" \in Windows \/ news = <<>> \/ ~ content_waits
    /\ ensure_selected_manifest
    /\ engine' = [of |-> file(effective), text |-> content[file(effective)]]
    /\ UNCHANGED <<last_key, publishVars, setupVars, watcherVars, events, ownVars, draft>>

(* A page reads the selected preset.                                         *)
PageLooksUp ==
    /\ news # <<>> /\ ensure_selected_manifest
    /\ "timer" \in Windows \/ ~ content_waits
    /\ UNCHANGED <<last_key, publishVars, setupVars, watcherVars, events, ownVars, engineVars>>

Selects(p) ==
    /\ "timer" \in Windows \/ ~ content_waits
    /\ select_file_name(p)
    /\ UNCHANGED <<last_key, publishVars, setupVars, watcherVars, events, ownVars, engineVars>>

noticed(f, by) == IF watched = f /\ armed THEN events \cup {[path |-> f, by |-> by]} ELSE events

(* No change by another program waits to be noticed. *)
Unmixed == "own" \in Windows \/ \A e \in events : e.by = "program"

Saves(p, published) ==
    /\ Unmixed
    /\ save_source_text(p, published)
    /\ own' = own \cup {p}
    /\ draft' = IF published THEN draft \ {p} ELSE draft \cup {p}
    /\ events' = noticed(user(p), "program")
    /\ UNCHANGED <<last_key, publishVars, setupVars, watcherVars, suppress, pending_content, asked, engine>>

Commits(p) ==
    /\ p \in draft /\ Unmixed
    /\ commit_draft(p)
    /\ draft' = draft \ {p}
    /\ UNCHANGED <<last_key, publishVars, setupVars, watcherVars, events, ownVars, asked, engine>>

(* The coordinator can still tell a change of f from one of the program,     *)
(* learns of it if it is one of the selected preset, and the preset goes on  *)
(* to have the same file, if it has any.                                     *)
Tells(f) ==
    /\ "own" \in Windows \/ (f.name \notin own /\ suppress = NoPreset)
    /\ "timer" \in Windows \/ ~ content_waits
Reaches(f) ==
    /\ Tells(f)
    /\ \/ "gap" \in Windows \/ f.name # selected
       \/ watched = file(selected) /\ armed /\ watch.path \in {NoPreset, watched}
Shadows(f) ==
    f = user(selected) /\ builtin(selected) \in there

ForeignEdit(f) ==
    /\ f \in there /\ Reaches(f)
    /\ foreign_change(there, [content EXCEPT ![f] = @ + 1])
    /\ events' = noticed(f, "other")
    /\ UNCHANGED <<last_key, publishVars, setupVars, watcherVars, ownVars, engineVars>>

ForeignDelete(f) ==
    /\ f \in there \ {builtin(Default)} /\ Reaches(f)
    /\ "shadow" \in Windows \/ ~ Shadows(f)
    /\ foreign_change(there \ {f}, content)
    /\ events' = noticed(f, "other")
    /\ armed' = (armed /\ watched # f)
    /\ UNCHANGED <<last_key, publishVars, setupVars, watched, rearm, attempts, waits, ownVars, engineVars>>

(* A file comes back, with another text.                                     *)
ForeignReturn(f) ==
    /\ f \notin there /\ Tells(f)
    /\ "shadow" \in Windows \/ ~ Shadows(f)
    /\ \/ "late" \in Windows \/ f.name # selected \/ selected \in exists
       \/ watched = f /\ watch = NoWatch /\ ~ restart /\ (rearm \/ \E e \in events : e.path = f)
    /\ foreign_change(there \cup {f}, [content EXCEPT ![f] = @ + 1])
    /\ UNCHANGED <<last_key, publishVars, setupVars, watcherVars, events, ownVars, engineVars>>

OwnWriteExpires(p) ==
    /\ p \in own /\ own' = own \ {p}
    /\ "slow" \in Windows \/ [path |-> user(p), by |-> "program"] \notin events
    /\ UNCHANGED <<selectionVars, last_key, publishVars, setupVars, watcherVars, events, suppress,
                   pending_content, engineVars>>

SuppressExpires ==
    /\ suppress # NoPreset /\ suppress' = NoPreset
    /\ "slow" \in Windows \/ pending_content = NoPreset
    /\ UNCHANGED <<selectionVars, last_key, publishVars, setupVars, watcherVars, events, own,
                   pending_content, engineVars>>

-----------------------------------------------------------------------------

(* The event loop, the threads and the clock. *)
Program ==
    \/ HandleSignal \/ publish_active_preset_revision \/ apply_pending_preset_content_change
    \/ resolve_path \/ WatchWorkerEnds \/ on_watch_path_loaded \/ on_watch_worker_finished
    \/ start_watch_worker \/ RearmTimer \/ \E e \in events : on_active_preset_file_changed(e)
    \/ EngineApplies \/ SuppressExpires \/ \E p \in own : OwnWriteExpires(p)

Environment ==
    \/ PageLooksUp
    \/ \E p \in Presets : Selects(p) \/ Saves(p, TRUE) \/ Saves(p, FALSE) \/ Commits(p)
    \/ \E f \in Files : ForeignEdit(f) \/ ForeignDelete(f) \/ ForeignReturn(f)

Next == Program \/ Environment

Spec == Init /\ [][Next]_vars
LiveSpec == Spec /\ WF_vars(Program)

-----------------------------------------------------------------------------

AtRest ==
    /\ signals = <<>> /\ ~ publish_pending /\ pending_content = NoPreset
    /\ watch = NoWatch /\ ~ restart /\ ~ rearm /\ events = {} /\ asked = {}
    /\ own = {} /\ suppress = NoPreset

(* The engine ends up on the selected preset with the text its file has,     *)
(* whoever wrote it last; a draft of the editor waits for its commit.        *)
EngineCatchesUp ==
    <>[](selected \in exists \ draft =>
            engine = [of |-> file(selected), text |-> content[file(selected)]])

(* Whenever nothing is under way, after every replacement of a missing       *)
(* preset, the file the selected one is read from is watched, so that its    *)
(* next change by another program will be noticed, and the pages show it as  *)
(* the active.  The copy a draft makes of a built-in preset waits for the    *)
(* commit.                                                                   *)
SelectionFollowed ==
    AtRest /\ selected \in exists =>
        /\ shown = selected
        /\ \/ watched = file(selected) /\ armed
           \/ selected \in draft /\ watched = builtin(selected)

(* The engine is not made to read a preset again as changed by another       *)
(* program when only the program wrote it, as the editor does with drafts.   *)
OnlyForeignApplied ==
    [][\A e \in events \ events' :
           e.by = "program" /\ ~ waits => "external" \notin asked' \ asked]_vars
=============================================================================
