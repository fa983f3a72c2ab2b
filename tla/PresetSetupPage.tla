--------------------------- MODULE PresetSetupPage ---------------------------
(***************************************************************************)
(* The page of profiles: the queue of writes of PresetWriteQueue beside the  *)
(* loader of the list (profile/ui/profile_payload_controller.py with         *)
(* ui/latest_value_worker_state.py) and the two notices of the UI store the  *)
(* page listens to (profile/ui/preset_setup_page.py).  The list on the       *)
(* screen says which preset a click is meant for, so the loader and the      *)
(* queue share displayed and active.                                         *)
(*                                                                          *)
(* Abstractions.  A list is the preset it was read from and its text.  A     *)
(* thread reads the selection and the file in one step: the two looks of     *)
(* profile/service.py and its cache of lists are left out.  Qt delivers what *)
(* singleShot(0) and a signal post in the order they were posted: the model  *)
(* keeps that order for the request and the apply, for the two signals of a  *)
(* thread, and for a list that was sent before the selection changed; the    *)
(* rest comes in any order.                                                  *)
(***************************************************************************)
EXTENDS PresetWriteQueue

Lists == [of : Presets, text : Texts]
NoList == [of |-> NoPreset, text |-> NoText]

VARIABLES
    dirty,              \* _profile_payload_dirty
    reload,             \* the timer of 180 ms after a change of the preset
    request,            \* _profile_payload_request_scheduled and _request_force
    refresh_pending,    \* LatestValueWorkerState.pending of the loader
    refresh_scheduled,  \* LatestValueWorkerState.start_scheduled
    load,               \* the worker of the list
    apply,              \* _pending_profile_payload_apply
    request_first,      \* the request was posted before the apply
    screen              \* the list on the screen; NoList under an error label

loaderVars == <<dirty, reload, request, refresh_pending, refresh_scheduled, load, apply, request_first, screen>>
vars == <<pageVars, loaderVars>>

NoLoad == [at |-> "none", list |-> NoList, current |-> FALSE, told |-> TRUE, failed |-> FALSE,
           behind |-> 0]   \* the notices of a selection posted before its signal

(* Every variable holds a value of its kind. *)
TypeOK ==
    /\ QueueTypeOK
    /\ dirty \in BOOLEAN /\ reload \in BOOLEAN
    /\ request \in {"no", "plain", "force"} /\ request_first \in BOOLEAN
    /\ refresh_pending \in BOOLEAN /\ refresh_scheduled \in BOOLEAN
    /\ load \in [at : {"none", "reads", "builds", "emitted", "ended"}, list : Lists \cup {NoList},
                 current : BOOLEAN, told : BOOLEAN, failed : BOOLEAN, behind : Nat]
    /\ apply \in Lists \cup {NoList} /\ screen \in Lists \cup {NoList}

Init ==
    /\ QueueInit
    /\ dirty = FALSE /\ reload = FALSE /\ request = "no"
    /\ refresh_pending = FALSE /\ refresh_scheduled = FALSE
    /\ load = NoLoad /\ apply = NoList /\ request_first = FALSE
    /\ screen = [of |-> selected, text |-> text[selected]]

load_running == load.at \in {"reads", "builds", "emitted"}

-----------------------------------------------------------------------------
(* The controller of the loader. *)

(* _schedule_profiles_payload_request(force=True) *)
schedule_request_force ==
    IF refresh_pending /\ load_running
    THEN apply' = NoList /\ UNCHANGED request
    ELSE request' = "force" /\ UNCHANGED apply

(* A load under way is refused the first time a newer list is forced.        *)
invalidate_in_flight(force) ==
    [load EXCEPT !.current = @ /\ ~ (force /\ ~ refresh_pending /\ load_running)]

(* _request_profiles_payload *)
RunRequest ==
    LET force == request = "force" IN
    /\ request # "no" /\ (apply = NoList \/ request_first)
    /\ request' = "no" /\ request_first' = FALSE
    /\ IF ~ force /\ ~ dirty
       THEN UNCHANGED <<dirty, refresh_pending, load, apply>>
       ELSE /\ dirty' = TRUE
            /\ apply' = IF force THEN NoList ELSE apply
            /\ IF load_running \/ refresh_scheduled
               THEN /\ refresh_pending' = (refresh_pending \/ force)
                    /\ load' = invalidate_in_flight(force)
               ELSE /\ refresh_pending' = FALSE
                    /\ load' = [NoLoad EXCEPT !.at = "reads", !.current = TRUE, !.told = FALSE]
    /\ UNCHANGED <<pageVars, reload, refresh_scheduled, screen>>

(* _run_scheduled_profiles_payload_reload_after_preset_switch *)
ReloadTimer ==
    /\ reload
    /\ reload' = FALSE
    /\ IF dirty THEN schedule_request_force ELSE UNCHANGED <<request, apply>>
    /\ UNCHANGED <<pageVars, dirty, refresh_pending, refresh_scheduled, load, screen, request_first>>

(* on_page_activated: the page is opened again. *)
PageActivated ==
    /\ dirty /\ request = "no"
    /\ request' = "plain"
    /\ UNCHANGED <<pageVars, dirty, reload, refresh_pending, refresh_scheduled, load, apply, screen, request_first>>

(* The thread of the loader. *)
LoadReads ==
    /\ load.at = "reads"
    /\ load' = [load EXCEPT !.at = "builds", !.list = [of |-> selected, text |-> text[selected]]]
    /\ UNCHANGED <<pageVars, dirty, reload, request, refresh_pending, refresh_scheduled, apply,
                   request_first, screen>>

LoadFails ==
    /\ load.at = "reads" /\ failures < MaxFailures /\ few_events
    /\ failures' = failures + 1
    /\ load' = [load EXCEPT !.at = "builds"]
    /\ UNCHANGED <<queueVars, presetVars, clicks, selects, displayed, owed,
                   dirty, reload, request, refresh_pending, refresh_scheduled, apply,
                   request_first, screen>>

LoadEmits ==
    /\ load.at = "builds"
    /\ load' = [load EXCEPT !.at = "emitted", !.behind = Len(told)]
    /\ UNCHANGED <<pageVars, dirty, reload, request, refresh_pending, refresh_scheduled, apply,
                   request_first, screen>>

LoadEnds ==
    /\ load.at = "emitted"
    /\ load' = [load EXCEPT !.at = "ended"]
    /\ UNCHANGED <<pageVars, dirty, reload, request, refresh_pending, refresh_scheduled, apply, screen, request_first>>

(* _on_profile_payload_loaded *)
ListLoaded ==
    /\ load.at \in {"emitted", "ended"} /\ ~ load.told /\ load.list # NoList
    /\ load' = [load EXCEPT !.told = TRUE]
    /\ IF load.current /\ ~ refresh_pending
       THEN dirty' = FALSE /\ apply' = load.list /\ request_first' = (request # "no")
       ELSE UNCHANGED <<dirty, apply, request_first>>
    /\ UNCHANGED <<pageVars, reload, request, refresh_pending, refresh_scheduled, screen>>

(* _on_profile_payload_failed *)
ListFailed ==
    /\ load.at \in {"emitted", "ended"} /\ ~ load.told /\ load.list = NoList
    /\ IF load.current /\ ~ refresh_pending /\ request = "no"
       THEN /\ load' = [load EXCEPT !.told = TRUE, !.failed = TRUE]
            /\ dirty' = TRUE /\ screen' = NoList
       ELSE /\ load' = [load EXCEPT !.told = TRUE]
            /\ UNCHANGED <<dirty, screen>>
    /\ UNCHANGED <<pageVars, reload, request, refresh_pending, refresh_scheduled, apply, request_first>>

(* _run_scheduled_profile_payload_apply, _apply_payload *)
ApplyList ==
    /\ apply # NoList /\ ~ request_first
    /\ apply' = NoList
    /\ IF refresh_pending \/ request # "no"
       THEN UNCHANGED <<screen, displayed>>
       ELSE screen' = apply /\ displayed' = apply.of
    /\ UNCHANGED <<queueVars, presetVars, countVars, owed,
                   dirty, reload, request, refresh_pending, refresh_scheduled, load, request_first>>

(* _on_profile_worker_finished: a list that is still dirty is loaded again. *)
MutFinishForgets ==
    /\ load.at = "ended" /\ load.told
    /\ load' = NoLoad
    /\ UNCHANGED <<pageVars, dirty, reload, request, refresh_pending, refresh_scheduled, apply, screen, request_first>>

LoadFinished ==
    /\ load.at = "ended" /\ load.told
    /\ load' = NoLoad
    /\ refresh_pending' = (refresh_pending \/ (dirty /\ ~ load.failed))
    /\ refresh_scheduled' = (refresh_scheduled \/ refresh_pending')
    /\ UNCHANGED <<pageVars, dirty, reload, request, apply, screen, request_first>>

(* _run_scheduled_profile_load_refresh_start *)
RunRefresh ==
    /\ refresh_scheduled
    /\ refresh_scheduled' = FALSE /\ refresh_pending' = FALSE
    /\ request' = IF refresh_pending THEN "force" ELSE request
    /\ UNCHANGED <<pageVars, dirty, reload, load, apply, screen, request_first>>

-----------------------------------------------------------------------------
(* What the UI store tells the page: _on_ui_state_changed. *)

(* PresetRuntimeCoordinator.handle_preset_switched has published the preset; *)
(* one that is on the screen already needs no other list.                    *)
ActivePreset ==
    /\ told # <<>>
    /\ load.at \in {"emitted", "ended"} => load.told \/ load.behind > 0
    /\ load' = IF load.behind > 0 THEN [load EXCEPT !.behind = @ - 1] ELSE load
    /\ told' = Tail(told) /\ active' = Head(told)
    /\ IF Head(told) = displayed
       THEN UNCHANGED <<pending, owed, dirty, reload>>
       ELSE drop_preset_bound /\ dirty' = TRUE /\ reload' = TRUE
    /\ UNCHANGED <<start_scheduled, worker, actions_enabled, selected, text, folders, news,
                   countVars, displayed, request, refresh_pending, refresh_scheduled,
                   apply, screen, request_first>>

(* handle_preset_content_changed and the timer behind it: the text of the   *)
(* selected preset was saved.                                                *)
ContentChanged(p) ==
    /\ p \in news
    /\ news' = news \ {p}
    /\ IF p = selected THEN dirty' = TRUE /\ schedule_request_force
       ELSE UNCHANGED <<dirty, request, apply>>
    /\ UNCHANGED <<queueVars, selected, told, active, text, folders, countVars, displayed, owed,
                   reload, refresh_pending, refresh_scheduled, load, screen, request_first>>

-----------------------------------------------------------------------------

load_idle == /\ ~ reload /\ request = "no" /\ ~ refresh_pending /\ ~ refresh_scheduled
             /\ load.at = "none" /\ apply = NoList

Select(p) ==
    /\ "load" \in Windows \/ load.at # "builds"
    /\ "return" \in Windows \/ p \notin {displayed, apply.of} \/ (told = <<>> /\ load_idle)
    /\ SelectPreset(p)
    /\ UNCHANGED loaderVars

Click(a) == Request(a) /\ UNCHANGED loaderVars

Finished(r) == WorkerFinished(r) /\ UNCHANGED loaderVars
Scheduled == RunScheduled /\ UNCHANGED loaderVars
Writes == /\ Load \/ Save \/ SaveMove \/ \E r \in user_runtimes : SaveUserProfile(r)
          /\ UNCHANGED loaderVars
Breaks == (\E r \in Runtimes : WriteFails(r)) /\ UNCHANGED loaderVars

(* What the threads and the event loop do by themselves. *)
Threads == Writes \/ LoadReads \/ LoadEmits \/ LoadEnds
EventLoop ==
    \/ \E r \in Runtimes : Finished(r)
    \/ Scheduled \/ RunRequest \/ ReloadTimer \/ ListLoaded \/ ListFailed \/ ApplyList
    \/ LoadFinished \/ RunRefresh \/ ActivePreset
    \/ \E p \in Presets : ContentChanged(p)

Next ==
    \/ \E a \in Asks : Click(a)
    \/ \E p \in Presets : Select(p)
    \/ PageActivated \/ Breaks \/ LoadFails
    \/ Threads \/ EventLoop

Spec == Init /\ [][Next]_vars

-----------------------------------------------------------------------------
(* Properties *)

(* What is asked for on the rows of a preset is written into that preset,    *)
(* and no preset is overwritten with the text of another one: the queue      *)
(* stamps an operation with the preset on the screen because the service     *)
(* writes to the one selected when it runs.                                  *)
RightPreset ==
    \A p \in Presets :
        /\ text[p].of = p
        /\ \A o \in text[p].edits : preset_bound(o.ask) => o.preset = p

(* A write never undoes another: the service reads a whole text and writes a *)
(* whole text, and only the queue keeps two of them apart.                   *)
NothingUndone == [][\A p \in Presets : text[p].edits \subseteq text'[p].edits]_vars

written == folders \cup UNION {text[p].edits : p \in Presets}

(* A command is never written over a newer one for the same thing: the newer *)
(* command takes the place of the waiting one and the queue keeps the order. *)
NewestWins ==
    [][\A o \in written' \ written : \A e \in written :
          (replaces(e.ask, o) /\ e.preset = o.preset) => o.id > e.id]_vars

(* Nothing is on its way any more: no event, no thread, no worker.           *)
Quiet == /\ load_idle /\ told = <<>> /\ news = {}
         /\ start_scheduled = NoOp /\ \A r \in Runtimes : worker[r].at = "none"

(* Then every command accepted has been answered: written, failed, or given  *)
(* up because its preset is no longer shown or a newer one took its place.   *)
NothingForgotten == Quiet => owed = {} /\ pending = {}

(* When nothing is on its way any more, the page shows the selected preset   *)
(* with everything written into it, or says that it could not read it.       *)
ListCatchesUp ==
    Quiet => \/ screen = NoList /\ dirty
             \/ displayed = selected /\ screen = [of |-> selected, text |-> text[selected]]
=============================================================================
