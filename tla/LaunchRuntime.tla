--------------------------- MODULE LaunchRuntime ---------------------------
(* The launch pipeline of ZapretGUI (winws_runtime/runtime): start, stop,     *)
(* restart, fast preset switch and change of the launch method.               *)
(*                                                                            *)
(* One GUI thread runs every handler to its end (a user command, a timer, a   *)
(* queued signal); each handler is one action.  Start, stop and preset switch *)
(* work in QThreads of their own, one of each kind at a time, and each step   *)
(* of a worker that touches the engine processes or that reads what the GUI   *)
(* thread writes is one action.  The GUI thread and the workers interleave.   *)
EXTENDS LaunchRuntimeService, Sequences

CONSTANTS
    SelectableMethods,   \* the launch methods the user chooses between
    MaxStartingWaits,    \* _PRESETS_SWITCH_MAX_STARTING_WAITS
    MaxAutoRestarts,     \* _AUTO_RESTART_MAX_PER_WINDOW
    Bounds               \* the mixtures of Kinds a behaviour may stay within

\* What the model bounds: commands of the user, and events of the environment
\* that could otherwise repeat for ever.
Kinds == {"start", "stop", "restart", "apply", "method",   \* user commands
          "scan",       \* strategy scans of BlockCheck
          "crash",      \* engines that die by themselves
          "observe",    \* changes the process monitor reports
          "fail",       \* launches and switches that fail
          "killfail",   \* engines that survive a shutdown
          "slow"}       \* starts that outlast the 30 s a stop waits for them

ASSUME ConstantsAssumption ==
    /\ SelectableMethods \subseteq ALL_LAUNCH_METHODS
    /\ MaxStartingWaits \in Nat
    /\ MaxAutoRestarts \in Nat
    /\ Bounds \subseteq [Kinds -> Nat]

VARIABLES
    rt,             \* the published runtime state (LaunchRuntimeService)
    busy,           \* launch_busy of the UI store
    settings,       \* the stored launch method, and whether it starts by itself
    restart,        \* the _restart_* fields
    switch,         \* the _presets_switch_* fields
    restartRetry,   \* _restart_runner_wait_queued: the 200 ms timer is armed
    restartKicks,   \* singleShot(0) calls of _process_pending_restart_request
    switchRetry,    \* _presets_switch_wait_queued: the 150 ms timer is armed
    switchKicks,    \* singleShot(0) calls of _process_pending_presets_switch
    debounce,       \* method of the debounced switch; NoMethod: timer inactive
    stopPolls,      \* 250 ms timers of stops that wait for a start, by force flag
    commands,       \* singleShot(0) calls queued by a change of method
    startThread,    \* _dpi_start_thread and its worker
    stopThread,     \* _dpi_stop_thread and its worker
    switchThread,   \* _presets_switch_thread and its worker
    engines,        \* the canonical winws processes that exist
    seen,           \* the engines the monitor reported last
    reports,        \* processDetailsChanged signals queued for the GUI thread
    exits,          \* unexpected_process_exit signals queued for the GUI thread
    autoRestarts,   \* automatic restarts made (auto_restart_history)
    scan,           \* the strategy scan of BlockCheck
    syncs,          \* runtime states posted to the GUI thread after its shutdowns
    spent,          \* how often each kind of event happened
    lastCommand     \* history: the last command the user gave

published == <<rt, busy>>
timers    == <<restartRetry, restartKicks, switchRetry, switchKicks, debounce,
               stopPolls, commands>>
threads   == <<startThread, stopThread, switchThread>>
signals   == <<reports, exits, syncs>>
vars == <<published, settings, restart, switch, timers, threads, engines,
          seen, signals, autoRestarts, scan, spent, lastCommand>>

-----------------------------------------------------------------------------
\* A worker thread.  Its stages: "idle" (no thread), then the steps of its
\* worker, "done" (the finished signal is queued) and "quitting" (the signal is
\* handled, quit() is called, the event loop of the thread still runs).
IdleStart  == [stage |-> "idle", method |-> NoMethod, ok |-> FALSE, pid |-> NoPid]
IdleStop   == [stage |-> "idle", force |-> FALSE, ok |-> FALSE]
IdleSwitch == [stage |-> "idle", method |-> NoMethod, gen |-> 0, ok |-> FALSE,
               pid |-> NoPid, stale |-> FALSE]

StartThreads ==
    [stage : {"idle", "prepare", "spawn", "done", "quitting"},
     method : ALL_LAUNCH_METHODS \cup {NoMethod}, ok : BOOLEAN, pid : Pids \cup {NoPid}]
StopThreads ==
    [stage : {"idle", "kill", "probe", "done", "quitting"}, force : BOOLEAN, ok : BOOLEAN]
SwitchThreads ==
    [stage : {"idle", "check", "apply", "respawn", "report", "done", "quitting"},
     method : PRESET_LAUNCH_METHODS \cup {NoMethod}, gen : Nat, ok : BOOLEAN,
     pid : Pids \cup {NoPid}, stale : BOOLEAN]

RestartFields ==
    [requested : Nat, completed : Nat, pendingStop : Nat, activeStart : Nat,
     forceStop : Nat, target : ALL_LAUNCH_METHODS \cup {NoMethod}]
SwitchFields ==
    [requested : Nat, completed : Nat,
     method : PRESET_LAUNCH_METHODS \cup {NoMethod}, waits : 0..MaxStartingWaits]

Commands == [action : {"restart", "stop"}, force : BOOLEAN,
             method : ALL_LAUNCH_METHODS]
Syncs    == [still : BOOLEAN, method : ALL_LAUNCH_METHODS]

UserCommands == {"none", "start", "stop", "restart", "apply", "method"}

TypeOK ==
    /\ rt \in RuntimeStates
    /\ busy \in BOOLEAN
    /\ settings \in [method : ALL_LAUNCH_METHODS, autostart : BOOLEAN]
    /\ restart \in RestartFields
    /\ switch \in SwitchFields
    /\ restartRetry \in BOOLEAN
    /\ restartKicks \in Nat
    /\ switchRetry \in BOOLEAN
    /\ switchKicks \in Nat
    /\ debounce \in PRESET_LAUNCH_METHODS \cup {NoMethod}
    /\ stopPolls \in [BOOLEAN -> Nat]
    /\ commands \in Seq(Commands)
    /\ startThread \in StartThreads
    /\ stopThread \in StopThreads
    /\ switchThread \in SwitchThreads
    /\ engines \subseteq Engines
    /\ seen \subseteq Engines
    /\ reports \in Seq(SUBSET Engines)
    /\ exits \in Nat
    /\ autoRestarts \in Nat
    /\ scan \in [stage : {"off", "begun", "marked", "on", "cleaned", "ended"},
                 wasRunning : BOOLEAN]
    /\ syncs \in Seq(Syncs)
    /\ spent \in [Kinds -> Nat]
    /\ lastCommand \in UserCommands

Init ==
    /\ rt \in {build_initial_ui_state(m, "stopped") : m \in SelectableMethods}
    /\ busy = FALSE
    /\ settings \in [method : {rt.method}, autostart : BOOLEAN]
    /\ restart = [requested |-> 0, completed |-> 0, pendingStop |-> 0,
                  activeStart |-> 0, forceStop |-> 0, target |-> NoMethod]
    /\ switch = [requested |-> 0, completed |-> 0, method |-> NoMethod, waits |-> 0]
    /\ restartRetry = FALSE /\ restartKicks = 0
    /\ switchRetry = FALSE /\ switchKicks = 0
    /\ debounce = NoMethod
    /\ stopPolls = [force \in BOOLEAN |-> 0]
    /\ commands = <<>>
    /\ startThread = IdleStart /\ stopThread = IdleStop /\ switchThread = IdleSwitch
    /\ engines = {} /\ seen = {}
    /\ reports = <<>> /\ exits = 0 /\ syncs = <<>>
    /\ autoRestarts = 0
    /\ scan = [stage |-> "off", wasRunning |-> FALSE]
    /\ spent = [k \in Kinds |-> 0]
    /\ lastCommand = "none"

\* One more event of kind k.
Spend(k) == /\ spent' = [spent EXCEPT ![k] = @ + 1]
            /\ \E most \in Bounds : \A j \in Kinds : spent'[j] <= most[j]

Command(c) == Spend(c) /\ lastCommand' = c

-----------------------------------------------------------------------------
\* QThread.isRunning(): also true after the finished signal, until quit() is
\* carried out by the thread.
isRunning(t) == t.stage # "idle"

is_running(r) == r.phase = "running"

\* is_external_winws_scan_active(): between the first mark of the scan and the
\* last one.
ScanActive == scan.stage \in {"marked", "on", "cleaned"}

\* transition_pipeline_in_progress().
transition_pipeline_in_progress ==
    \/ isRunning(startThread) \/ isRunning(stopThread) \/ isRunning(switchThread)
    \/ restart.requested > restart.completed
    \/ restart.activeStart > 0 \/ restart.pendingStop > 0
    \/ switch.requested > switch.completed

\* _active_runtime_owner differs from the mode a preset switch is for.
owner_differs(r, m) == is_running(r) /\ r.method # m

max(a, b) == IF a >= b THEN a ELSE b

-----------------------------------------------------------------------------
(* The calls below are parts of handlers.  Each takes the values its caller   *)
(* has already written (r: the runtime state, b: busy, s: the restart fields, *)
(* w: the switch fields) and gives the primed values of what it can write.    *)

\* _requested_launch_method: without an explicit method, the published one.
MutIgnoresTarget(r, m) == r.method
requested_launch_method(r, m) == IF m = NoMethod THEN r.method ELSE m

\* start_dpi_async(launch_method=m): refused while a start thread runs and
\* while the strategy scan owns winws; nothing else is checked.
start_dpi_async(r, b, m) ==
    IF isRunning(startThread) \/ ScanActive
      THEN /\ rt' = r
           /\ busy' = b
           /\ UNCHANGED startThread
      ELSE LET method == requested_launch_method(r, m)
           IN  /\ rt' = begin_start(r, method)
               /\ busy' = TRUE
               /\ startThread' = [IdleStart EXCEPT !.stage = "prepare",
                                                   !.method = method]

\* A stop waits for the end of a start, unless it has waited for long enough.
stop_must_wait(expired) == isRunning(startThread) /\ ~expired

\* stop_dpi_async(force_cleanup=force); polls: the timers of waiting stops.
stop_dpi_async(r, b, force, polls, expired) ==
    CASE isRunning(stopThread) ->
            /\ rt' = r /\ busy' = b /\ stopPolls' = polls
            /\ UNCHANGED stopThread
      [] ~isRunning(stopThread) /\ stop_must_wait(expired) ->
            /\ rt' = r /\ busy' = b
            /\ stopPolls' = [polls EXCEPT ![force] = @ + 1]
            /\ UNCHANGED stopThread
      [] OTHER ->
            /\ rt' = begin_stop(r) /\ busy' = TRUE /\ stopPolls' = polls
            /\ stopThread' = [IdleStop EXCEPT !.stage = "kill", !.force = force]

\* What a pending restart and a pending switch both wait for before they act.
MutSwitchNotSeen == isRunning(startThread) \/ isRunning(stopThread)
pipeline_occupied ==
    isRunning(startThread) \/ isRunning(stopThread) \/ isRunning(switchThread)

\* _schedule_pending_restart_retry and _schedule_pending_presets_switch_retry:
\* the timer is armed, unless it is armed already (was).
schedule_restart_retry(was) == restartRetry' = TRUE
MutNoSwitchRetry(was) == switchRetry' = was
schedule_switch_retry(was) == switchRetry' = TRUE

\* process_pending_restart_request; retry: the 200 ms timer is armed already.
process_pending_restart_request(r, b, s, retry) ==
    LET pending == s.requested > s.completed
        force   == s.forceStop = s.requested
    IN  CASE ~pending ->
                /\ rt' = r /\ busy' = b /\ restart' = s /\ restartRetry' = retry
                /\ UNCHANGED <<startThread, stopThread, stopPolls>>
          [] pending /\ pipeline_occupied ->
                /\ rt' = r /\ busy' = b
                /\ restart' = IF isRunning(stopThread) /\ ~isRunning(startThread)
                                THEN [s EXCEPT !.pendingStop = s.requested] ELSE s
                /\ schedule_restart_retry(retry)
                /\ UNCHANGED <<startThread, stopThread, stopPolls>>
          [] pending /\ ~pipeline_occupied /\ (is_running(r) \/ force) ->
                /\ restart' = [s EXCEPT !.pendingStop = s.requested]
                /\ restartRetry' = retry
                /\ stop_dpi_async(r, b, force, stopPolls, FALSE)
                /\ UNCHANGED startThread
          [] OTHER ->
                /\ restart' = [s EXCEPT !.activeStart = s.requested]
                /\ restartRetry' = retry
                /\ start_dpi_async(r, b, s.target)
                /\ UNCHANGED <<stopThread, stopPolls>>

\* restart_dpi_async(force_full_stop=force, target_launch_method=m).
restart_dpi_async(r, b, force, m) ==
    LET g == restart.requested + 1
        s == [restart EXCEPT !.requested = g, !.target = m,
                             !.forceStop = IF force THEN g ELSE @]
    IN  process_pending_restart_request(r, b, s, restartRetry)

\* _redirect_preset_switch_if_owner_differs: a full stop and start in mode m.
redirect_preset_switch(r, m) ==
    /\ debounce' = NoMethod
    /\ restart_dpi_async(r, FALSE, TRUE, m)

\* process_pending_presets_switch; retry: the 150 ms timer is armed already,
\* d: the method of the debounced switch.
process_pending_presets_switch(r, b, w, retry, d) ==
    LET pending == w.requested > w.completed
        done    == [w EXCEPT !.completed = w.requested, !.waits = 0]
        starting == r.phase = "starting" /\ w.waits < MaxStartingWaits
        Keep    == UNCHANGED <<restart, restartRetry, startThread, stopThread,
                               stopPolls>>
    IN  CASE ~pending ->
                /\ rt' = r /\ busy' = b /\ debounce' = d
                /\ switch' = w /\ switchRetry' = retry
                /\ UNCHANGED switchThread /\ Keep
          [] pending /\ pipeline_occupied ->
                /\ rt' = r /\ busy' = b /\ debounce' = d
                /\ switch' = w /\ schedule_switch_retry(retry)
                /\ UNCHANGED switchThread /\ Keep
          [] pending /\ ~pipeline_occupied /\ ~is_running(r) /\ starting ->
                /\ rt' = r /\ busy' = b /\ debounce' = d
                /\ switch' = [w EXCEPT !.waits = @ + 1] /\ schedule_switch_retry(retry)
                /\ UNCHANGED switchThread /\ Keep
          [] pending /\ ~pipeline_occupied /\ ~is_running(r) /\ ~starting ->
                /\ rt' = r /\ busy' = FALSE /\ debounce' = d
                /\ switch' = done /\ switchRetry' = retry
                /\ UNCHANGED switchThread /\ Keep
          [] pending /\ ~pipeline_occupied /\ owner_differs(r, w.method) ->
                /\ switch' = done /\ switchRetry' = retry
                /\ redirect_preset_switch(r, w.method)
                /\ UNCHANGED switchThread
          [] OTHER ->
                /\ rt' = r /\ busy' = b /\ debounce' = d
                /\ switch' = [w EXCEPT !.waits = 0] /\ switchRetry' = retry
                /\ switchThread' = [IdleSwitch EXCEPT !.stage = "check",
                                       !.method = w.method, !.gen = w.requested]
                /\ Keep

\* switch_presets_async(m) without a delay, as the debounce timer calls it.
switch_presets_async(m) ==
    IF owner_differs(rt, m)
      THEN /\ redirect_preset_switch(rt, m)
           /\ UNCHANGED <<switch, switchRetry, switchThread>>
      ELSE LET w == [switch EXCEPT !.method = m, !.requested = @ + 1]
           IN  process_pending_presets_switch(rt, TRUE, w, switchRetry, NoMethod)

\* _finish_restart_request.
MutNeverCompletes(s, generation) == [s EXCEPT !.activeStart = 0]
finish_restart_request(s, generation) ==
    IF generation = 0 THEN s
    ELSE [s EXCEPT !.completed   = max(@, generation),
                   !.activeStart = 0,
                   !.target = IF generation >= s.requested THEN NoMethod ELSE @]

-----------------------------------------------------------------------------
(* Commands of the user and of the layers above the launch runtime.           *)

\* LaunchControl.start: the toggle offers it in these phases only, and stops a
\* strategy scan first.
UserStart ==
    /\ rt.phase \in {"stopped", "failed"} /\ scan.stage = "off"
    /\ Command("start")
    /\ start_dpi_async(rt, busy, NoMethod)
    /\ UNCHANGED <<settings, restart, switch, timers, stopThread,
                   switchThread, engines, seen, signals, autoRestarts, scan>>

\* LaunchControl.stop.
UserStop ==
    /\ rt.phase \in {"autostart_pending", "starting", "running"}
    /\ Command("stop")
    /\ stop_dpi_async(rt, busy, FALSE, stopPolls, FALSE)
    /\ UNCHANGED <<settings, restart, switch, restartRetry, restartKicks,
                   switchRetry, switchKicks, debounce, commands, startThread,
                   switchThread, engines, seen, signals, autoRestarts, scan>>

\* LaunchControl.restart.
UserRestart ==
    /\ is_running(rt)
    /\ Command("restart")
    /\ restart_dpi_async(rt, busy, FALSE, NoMethod)
    /\ UNCHANGED <<settings, switch, restartKicks, switchRetry, switchKicks,
                   debounce, commands, switchThread, engines, seen, signals,
                   autoRestarts, scan>>

\* launch_accepts_preset_apply.
launch_accepts_preset_apply == is_running(rt) \/ rt.phase = "starting"

\* A preset of the current mode is selected or edited (flow/): the switch is
\* always debounced.
ApplyPreset ==
    /\ settings.method \in PRESET_LAUNCH_METHODS
    /\ launch_accepts_preset_apply
    /\ Command("apply")
    /\ debounce' = settings.method
    /\ UNCHANGED <<published, settings, restart, switch, restartRetry,
                   restartKicks, switchRetry, switchKicks, stopPolls, commands,
                   threads, engines, seen, signals, autoRestarts, scan>>

\* handle_launch_method_changed_runtime: the user selects mode m.
ChangeMethod(m) ==
    LET active == \/ rt.phase \in {"starting", "running", "stopping"}
                  \/ transition_pipeline_in_progress
        action == IF settings.autostart THEN "restart" ELSE IF active THEN "stop" ELSE "none"
    IN  /\ m # settings.method
        /\ Command("method")
        /\ settings' = [settings EXCEPT !.method = m]
        /\ rt' = CASE active      -> begin_stop(rt)
                   [] ~active /\ settings.autostart -> mark_autostart_pending(rt, m)
                   [] OTHER       -> bootstrap_probe_absent(mark_stopped(rt), m)
        /\ busy' = (action # "none")
        /\ commands' = IF action = "none" THEN commands
                       ELSE Append(commands, [action |-> action, force |-> active,
                                              method |-> m])
        /\ UNCHANGED <<restart, switch, restartRetry, restartKicks, switchRetry,
                       switchKicks, debounce, stopPolls, threads, engines, seen,
                       signals, autoRestarts, scan>>

-----------------------------------------------------------------------------
(* Timers of the GUI thread.                                                  *)

\* The singleShot(0) call that apply_method_switch_runtime_plan queued.
RunCommand ==
    /\ commands # <<>>
    /\ commands' = Tail(commands)
    /\ \/ /\ Head(commands).action = "restart"
          /\ restart_dpi_async(rt, busy, Head(commands).force, Head(commands).method)
       \/ /\ Head(commands).action = "stop"
          /\ stop_dpi_async(rt, busy, Head(commands).force, stopPolls, FALSE)
          /\ UNCHANGED <<restart, restartRetry, startThread>>
    /\ UNCHANGED <<settings, switch, restartKicks, switchRetry, switchKicks,
                   debounce, switchThread, engines, seen, signals, autoRestarts,
                   scan, spent, lastCommand>>

\* What no timer of a pending restart or switch writes.
timerFrame == <<settings, commands, engines, seen, signals, autoRestarts,
                scan, spent, lastCommand>>

RestartRetryFires ==
    /\ restartRetry
    /\ process_pending_restart_request(rt, busy, restart, FALSE)
    /\ UNCHANGED <<switch, restartKicks, switchRetry, switchKicks, debounce,
                   switchThread, timerFrame>>

RestartKickFires ==
    /\ restartKicks > 0
    /\ restartKicks' = restartKicks - 1
    /\ process_pending_restart_request(rt, busy, restart, restartRetry)
    /\ UNCHANGED <<switch, switchRetry, switchKicks, debounce, switchThread,
                   timerFrame>>

SwitchRetryFires ==
    /\ switchRetry
    /\ process_pending_presets_switch(rt, busy, switch, FALSE, debounce)
    /\ UNCHANGED <<restartKicks, switchKicks, timerFrame>>

SwitchKickFires ==
    /\ switchKicks > 0
    /\ switchKicks' = switchKicks - 1
    /\ process_pending_presets_switch(rt, busy, switch, switchRetry, debounce)
    /\ UNCHANGED <<restartKicks, timerFrame>>

\* _fire_debounced_presets_switch.
DebounceFires ==
    /\ debounce # NoMethod
    /\ switch_presets_async(debounce)
    /\ UNCHANGED <<restartKicks, switchKicks, timerFrame>>

\* A stop that waited for a start asks again; expired: it waited for 30 s.
StopPollFires(force, expired) ==
    /\ stopPolls[force] > 0
    /\ IF expired THEN isRunning(startThread) /\ Spend("slow") ELSE UNCHANGED spent
    /\ stop_dpi_async(rt, busy, force, [stopPolls EXCEPT ![force] = @ - 1], expired)
    /\ UNCHANGED <<settings, restart, switch, restartRetry, restartKicks,
                   switchRetry, switchKicks, debounce, commands, startThread,
                   switchThread, engines, seen, signals, autoRestarts, scan,
                   lastCommand>>

-----------------------------------------------------------------------------
(* Signals handled by the GUI thread.                                         *)

\* What no finished signal of a worker writes.
finishedFrame == <<settings, restartRetry, switchRetry, debounce, stopPolls,
                   commands, engines, seen, signals, autoRestarts, scan, spent,
                   lastCommand>>

\* The finished handlers end with a singleShot(0) for what is still pending.
kick_pending_switch ==
    switchKicks' = IF switch'.requested > switch'.completed THEN switchKicks + 1
                                                            ELSE switchKicks
kick_pending_restart ==
    restartKicks' = IF restart'.requested > restart'.completed THEN restartKicks + 1
                                                               ELSE restartKicks

\* on_dpi_start_finished.
StartFinished ==
    /\ startThread.stage = "done"
    /\ startThread' = [startThread EXCEPT !.stage = "quitting"]
    /\ busy' = FALSE
    /\ rt' = IF startThread.ok THEN mark_running(rt, startThread.pid)
                               ELSE mark_start_failed(rt)
    /\ restart' = finish_restart_request(restart, restart.activeStart)
    /\ kick_pending_restart
    /\ UNCHANGED switch
    /\ kick_pending_switch
    /\ UNCHANGED <<stopThread, switchThread, finishedFrame>>

\* The force flag is served by the stop of its generation or of a later one.
clear_served_force(s) ==
    IF s.pendingStop >= s.forceStop THEN [s EXCEPT !.forceStop = 0] ELSE s

\* on_dpi_stop_finished: a stop made for a restart goes on with the start.
StopFinished ==
    LET s == clear_served_force(restart)
        g == restart.pendingStop
    IN  /\ stopThread.stage = "done"
        /\ stopThread' = [stopThread EXCEPT !.stage = "quitting"]
        /\ CASE stopThread.ok /\ g > s.completed ->
                   /\ restart' = [s EXCEPT !.pendingStop = 0,
                                           !.activeStart = max(g, s.requested)]
                   /\ start_dpi_async(mark_stopped(rt), FALSE, s.target)
             [] stopThread.ok /\ g <= s.completed ->
                   /\ rt' = mark_stopped(rt) /\ busy' = FALSE
                   /\ restart' = s
                   /\ UNCHANGED startThread
             [] ~stopThread.ok ->
                   /\ rt' = mark_running(rt, NoPid) /\ busy' = FALSE
                   /\ restart' = finish_restart_request([s EXCEPT !.pendingStop = 0], g)
                   /\ UNCHANGED startThread
        /\ UNCHANGED switch
        /\ kick_pending_switch
        /\ UNCHANGED <<restartKicks, switchThread, finishedFrame>>

\* handle_presets_switch_finished: a stale generation that did replace the
\* process still publishes its pid, and leaves busy to the pending one.
SwitchFinished ==
    LET t     == switchThread
        stale == t.stale \/ t.gen < switch.requested
    IN  /\ t.stage = "done"
        /\ switchThread' = [t EXCEPT !.stage = "quitting"]
        /\ switch' = [switch EXCEPT !.completed = max(@, t.gen)]
        /\ busy' = (stale /\ busy)
        /\ rt' = IF t.ok /\ (stale => t.pid # NoPid) THEN mark_running(rt, t.pid) ELSE rt
        /\ kick_pending_switch
        /\ UNCHANGED <<restart, restartKicks, startThread, stopThread, finishedFrame>>

\* quit() has taken effect: QThread.isRunning() is false from now on.
ThreadExits ==
    /\ \/ /\ startThread.stage = "quitting" /\ startThread' = IdleStart
          /\ UNCHANGED <<stopThread, switchThread>>
       \/ /\ stopThread.stage = "quitting" /\ stopThread' = IdleStop
          /\ UNCHANGED <<startThread, switchThread>>
       \/ /\ switchThread.stage = "quitting" /\ switchThread' = IdleSwitch
          /\ UNCHANGED <<startThread, stopThread>>
    /\ UNCHANGED <<published, restart, switch, restartKicks, switchKicks,
                   finishedFrame>>

\* What no signal of the monitor, the exit watcher or the scan writes.
signalFrame == <<settings, restart, switch, timers, stopThread, switchThread,
                 engines, seen, spent, lastCommand>>

\* RuntimeObjects.observe_process_details.
ObserveReport ==
    /\ reports # <<>>
    /\ reports' = Tail(reports)
    /\ rt' \in observe_process_details(rt, Head(reports), engines)
    /\ UNCHANGED <<busy, startThread, exits, syncs, autoRestarts, scan, signalFrame>>

\* RuntimeEvents.handle_unexpected_process_exit; transient: the diagnosis says
\* that a new launch may help.
HandleUnexpectedExit(transient) ==
    /\ exits > 0
    /\ exits' = exits - 1
    /\ CASE ~launch_accepts_preset_apply ->
               UNCHANGED <<published, startThread, autoRestarts>>
         [] launch_accepts_preset_apply /\ transient /\ autoRestarts < MaxAutoRestarts ->
               /\ autoRestarts' = autoRestarts + 1
               /\ start_dpi_async(mark_start_failed(rt), busy, NoMethod)
         [] OTHER ->
               /\ rt' = mark_start_failed(rt)
               /\ UNCHANGED <<busy, startThread, autoRestarts>>
    /\ UNCHANGED <<reports, syncs, scan, signalFrame>>

\* apply_runtime_state_after_shutdown, posted by the worker of the scan.
ApplyRuntimeState ==
    /\ syncs # <<>>
    /\ syncs' = Tail(syncs)
    /\ rt' = IF Head(syncs).still THEN bootstrap_probe_running(rt, Head(syncs).method)
                                  ELSE mark_stopped(rt)
    /\ UNCHANGED <<busy, startThread, reports, exits, autoRestarts, scan, signalFrame>>

-----------------------------------------------------------------------------
(* The steps of the workers.                                                  *)

workerFrame == <<published, settings, restart, switch, timers, seen, reports,
                 exits, autoRestarts, lastCommand>>

\* A process id Windows may give to a new engine.
fresh_pids == Pids \ {e.pid : e \in engines}

own(m) == {e \in engines : e.method = m}

\* shutdown_runtime_sync: every winws process is terminated, or survives it.
shutdown_runtime_sync ==
    \/ engines' = {} /\ UNCHANGED spent
    \/ engines # {} /\ Spend("killfail") /\ UNCHANGED engines

\* PresetLaunchService.run until the launch itself: a check fails and leaves a
\* running engine alone, or a zapret2 engine takes over from a running winws2,
\* or whatever runs is shut down.  Whether the runner could adopt the running
\* winws2 is the runner's matter: both outcomes are possible here.
StartPrepare ==
    /\ startThread.stage = "prepare"
    /\ \/ /\ Spend("fail")
          /\ startThread' = [startThread EXCEPT !.stage = "done", !.ok = FALSE]
          /\ UNCHANGED engines
       \/ /\ startThread.method = ZAPRET2_MODE
          /\ \E e \in engines : exe_of(e) = EXE_NAME_WINWS2
          /\ \E p \in fresh_pids :
                /\ engines' = {e \in engines : exe_of(e) # EXE_NAME_WINWS2}
                                 \cup {[method |-> ZAPRET2_MODE, pid |-> p]}
                /\ startThread' = [startThread EXCEPT !.stage = "done", !.ok = TRUE,
                                                      !.pid = p]
          /\ UNCHANGED spent
       \/ /\ shutdown_runtime_sync
          /\ startThread' = [startThread EXCEPT !.stage = "spawn"]
    /\ UNCHANGED <<stopThread, switchThread, scan, syncs, workerFrame>>

\* PresetLaunchService._run_launch_method: the runner stops the process it runs
\* and starts the new one.  The orchestra reports no pid.
StartSpawn ==
    LET m == startThread.method
    IN  /\ startThread.stage = "spawn"
        /\ \/ \E p \in fresh_pids :
                 /\ engines' = (engines \ own(m)) \cup {[method |-> m, pid |-> p]}
                 /\ startThread' = [startThread EXCEPT !.stage = "done", !.ok = TRUE,
                         !.pid = IF m = ORCHESTRA_MODE THEN NoPid ELSE p]
                 /\ UNCHANGED spent
           \/ /\ Spend("fail")
              /\ engines' = engines \ own(m)
              /\ startThread' = [startThread EXCEPT !.stage = "done", !.ok = FALSE]
        /\ UNCHANGED <<stopThread, switchThread, scan, syncs, workerFrame>>

\* PresetLaunchStopWorker.run: nothing to stop, or the shutdown.
StopKill ==
    /\ stopThread.stage = "kill"
    /\ IF engines = {} /\ ~stopThread.force
         THEN /\ stopThread' = [stopThread EXCEPT !.stage = "done", !.ok = TRUE]
              /\ UNCHANGED <<engines, spent>>
         ELSE /\ shutdown_runtime_sync
              /\ stopThread' = [stopThread EXCEPT !.stage = "probe"]
    /\ UNCHANGED <<startThread, switchThread, scan, syncs, workerFrame>>

\* The last look of the shutdown at the processes: still_running.
StopProbe ==
    /\ stopThread.stage = "probe"
    /\ stopThread' = [stopThread EXCEPT !.stage = "done", !.ok = (engines = {})]
    /\ UNCHANGED <<startThread, switchThread, engines, scan, syncs, spent, workerFrame>>

\* _is_generation_current of the switch worker, read from the worker's thread.
generation_is_current == switchThread.gen = switch.requested

switch_step(stage, ok, p) ==
    switchThread' = [switchThread EXCEPT !.stage = stage, !.ok = ok, !.pid = p]

\* PresetSwitchWorker.run up to the runner, the preset snapshot included: it
\* ends here with an error, or as stale, or goes on to the runner.
SwitchCheck ==
    /\ switchThread.stage = "check"
    /\ \/ /\ ~generation_is_current
          /\ switchThread' = [switchThread EXCEPT !.stage = "done", !.ok = TRUE,
                                                  !.stale = TRUE]
          /\ UNCHANGED spent
       \/ generation_is_current /\ switch_step("apply", FALSE, NoPid) /\ UNCHANGED spent
       \/ generation_is_current /\ Spend("fail") /\ switch_step("done", FALSE, NoPid)
    /\ UNCHANGED <<startThread, stopThread, engines, scan, syncs, workerFrame>>

\* The new engine of a switch, and the pid the worker takes from the runner.
switch_spawns ==
    LET m == switchThread.method
    IN  \E p \in fresh_pids :
           /\ engines' = (engines \ own(m)) \cup {[method |-> m, pid |-> p]}
           /\ switch_step("report", TRUE, p)

\* The process stays as it is, whoever it is.
switch_keeps(ok) ==
    /\ UNCHANGED engines
    /\ IF ok /\ own(switchThread.method) # {}
         THEN \E e \in own(switchThread.method) : switch_step("report", TRUE, e.pid)
         ELSE switch_step("report", ok, NoPid)

\* switch_preset_file_fast: skipped when stale, refused for a broken preset.
\* winws2 starts the new process beside the old one and keeps the old one when
\* that fails or nothing would change; winws stops the old one first.
SwitchApply ==
    /\ switchThread.stage = "apply"
    /\ \/ ~generation_is_current /\ switch_keeps(TRUE) /\ UNCHANGED spent
       \/ Spend("fail") /\ switch_keeps(FALSE)
       \/ /\ generation_is_current /\ switchThread.method = ZAPRET2_MODE
          /\ \/ switch_spawns
             \/ own(ZAPRET2_MODE) # {} /\ switch_keeps(TRUE)
          /\ UNCHANGED spent
       \/ /\ generation_is_current /\ switchThread.method = ZAPRET1_MODE
          /\ engines' = engines \ own(ZAPRET1_MODE)
          /\ switch_step("respawn", FALSE, NoPid)
          /\ UNCHANGED spent
    /\ UNCHANGED <<startThread, stopThread, scan, syncs, workerFrame>>

\* winws after its old process is stopped: a request that became stale now is
\* skipped before the spawn, with no process left.
SwitchRespawn ==
    /\ switchThread.stage = "respawn"
    /\ \/ ~generation_is_current /\ switch_keeps(TRUE) /\ UNCHANGED spent
       \/ generation_is_current /\ switch_spawns /\ UNCHANGED spent
       \/ generation_is_current /\ Spend("fail") /\ switch_keeps(FALSE)
    /\ UNCHANGED <<startThread, stopThread, scan, syncs, workerFrame>>

\* The worker marks its result stale when a newer request arrived meanwhile.
SwitchReport ==
    /\ switchThread.stage = "report"
    /\ switchThread' = [switchThread EXCEPT !.stage = "done",
                                            !.stale = ~generation_is_current]
    /\ UNCHANGED <<startThread, stopThread, engines, scan, syncs, spent, workerFrame>>

-----------------------------------------------------------------------------
(* The environment: engines that die, the process monitor, the strategy scan. *)

\* An engine dies by itself.  The exit watcher of its runner reports it unless
\* a worker is replacing or stopping the process just then, or a scan owns it.
Crash ==
    /\ Spend("crash")
    /\ \E e \in engines : engines' = engines \ {e}
    /\ \/ exits' = exits + 1
       \/ /\ ScanActive \/ stopThread.stage \in {"kill", "probe"}
             \/ switchThread.stage \in {"apply", "respawn"}
             \/ startThread.stage \in {"prepare", "spawn"}
          /\ UNCHANGED exits
    /\ UNCHANGED <<published, settings, restart, switch, timers, threads, seen,
                   reports, syncs, autoRestarts, scan, lastCommand>>

\* ProcessMonitorThread.run: only a changed list of processes is reported.
MonitorScan ==
    /\ engines # seen
    /\ Spend("observe")
    /\ seen' = engines
    /\ reports' = Append(reports, engines)
    /\ UNCHANGED <<published, settings, restart, switch, timers, threads,
                   engines, exits, syncs, autoRestarts, scan, lastCommand>>

scanFrame == <<settings, restart, switch, timers, stopThread, switchThread,
               seen, reports, exits, autoRestarts, lastCommand>>

\* The scan page starts a scan and notes whether the bypass was running.
BeginScan ==
    /\ scan.stage = "off"
    /\ Spend("scan")
    /\ scan' = [stage |-> "begun", wasRunning |-> is_running(rt)]
    /\ UNCHANGED <<published, startThread, engines, syncs, scanFrame>>

scan_step(from, to) == scan.stage = from /\ scan' = [scan EXCEPT !.stage = to]

\* shutdown_sync_from_worker: the published state follows in the GUI thread.
scan_shutdown ==
    /\ shutdown_runtime_sync
    /\ syncs' = Append(syncs, [still |-> engines' # {}, method |-> rt.method])

\* pre_cleanup and post_cleanup of the scan's worker, then its end in the GUI,
\* which starts the bypass again if it was running.  The end is queued to the
\* GUI thread behind the states the worker posted.
ScanStep ==
    /\ \/ /\ scan_step("begun", "marked") \/ scan_step("cleaned", "ended")
          /\ UNCHANGED <<published, startThread, engines, syncs, spent>>
       \/ /\ scan_step("marked", "on") \/ scan_step("on", "cleaned")
          /\ scan_shutdown
          /\ UNCHANGED <<published, startThread>>
       \/ /\ scan_step("ended", "off") /\ syncs = <<>>
          /\ IF scan.wasRunning THEN start_dpi_async(rt, busy, NoMethod)
                                ELSE UNCHANGED <<published, startThread>>
          /\ UNCHANGED <<engines, syncs, spent>>
    /\ UNCHANGED scanFrame

-----------------------------------------------------------------------------
UserStep == \/ UserStart \/ UserStop \/ UserRestart \/ ApplyPreset
            \/ \E m \in SelectableMethods : ChangeMethod(m)

TimerStep == \/ RunCommand \/ RestartRetryFires \/ RestartKickFires
             \/ SwitchRetryFires \/ SwitchKickFires \/ DebounceFires
             \/ \E force, expired \in BOOLEAN : StopPollFires(force, expired)

SignalStep == \/ StartFinished \/ StopFinished \/ SwitchFinished \/ ThreadExits
              \/ ObserveReport \/ ApplyRuntimeState
              \/ \E transient \in BOOLEAN : HandleUnexpectedExit(transient)

WorkerStep == \/ StartPrepare \/ StartSpawn \/ StopKill \/ StopProbe
              \/ SwitchCheck \/ SwitchApply \/ SwitchRespawn \/ SwitchReport

EnvironmentStep == Crash \/ MonitorScan \/ BeginScan \/ ScanStep

Next == UserStep \/ TimerStep \/ SignalStep \/ WorkerStep \/ EnvironmentStep

Spec == Init /\ [][Next]_vars

\* Every timer that is armed fires, every queued signal is delivered and every
\* worker goes on; the user, crashes and scans owe nothing.
Fairness ==
    /\ WF_vars(RunCommand)
    /\ WF_vars(RestartRetryFires) /\ WF_vars(RestartKickFires)
    /\ WF_vars(SwitchRetryFires) /\ WF_vars(SwitchKickFires)
    /\ WF_vars(DebounceFires)
    /\ \A force \in BOOLEAN : WF_vars(StopPollFires(force, FALSE))
    /\ WF_vars(StartFinished) /\ WF_vars(StopFinished) /\ WF_vars(SwitchFinished)
    /\ WF_vars(ThreadExits)
    /\ WF_vars(ObserveReport) /\ WF_vars(ApplyRuntimeState)
    /\ WF_vars(\E transient \in BOOLEAN : HandleUnexpectedExit(transient))
    /\ WF_vars(StartPrepare \/ StartSpawn) /\ WF_vars(StopKill \/ StopProbe)
    /\ WF_vars(SwitchCheck \/ SwitchApply \/ SwitchRespawn \/ SwitchReport)
    /\ WF_vars(ScanStep)

LiveSpec == Spec /\ Fairness

-----------------------------------------------------------------------------
(* Pending requests are never lost.                                           *)

working(t) == t.stage \notin {"idle", "quitting"}

\* A preset switch that was asked for and not completed has something that will
\* take it up again: the 150 ms retry, a queued call of a finished handler, or
\* the switch worker, whose end queues that call.  The finished handlers queue
\* their call while QThread.isRunning() is still true, so the retry is all that
\* keeps the request (and busy, "applying the preset") from being lost.
SwitchNeverStranded ==
    switch.requested > switch.completed =>
        switchRetry \/ switchKicks > 0 \/ working(switchThread)

\* The same of a restart: the 200 ms retry, a queued call, the start made for it
\* or the stop that goes on with the start.  It must hold although the user and
\* the automatic restart start and stop the engine in between.  (Until a strategy
\* scan begins: a scan refuses the start of a restart, and nothing retries it.)
RestartNeverStranded ==
    spent["scan"] = 0 /\ restart.requested > restart.completed =>
        \/ restartRetry \/ restartKicks > 0 \/ working(startThread)
        \/ working(stopThread) /\ restart.pendingStop > restart.completed

\* No request is ever left without what takes it up.
NothingStranded == SwitchNeverStranded /\ RestartNeverStranded

-----------------------------------------------------------------------------
(* The engine processes and what is published about them.                     *)

\* Nothing is under way any more.
Quiescent ==
    /\ ~isRunning(startThread) /\ ~isRunning(stopThread) /\ ~isRunning(switchThread)
    /\ ~restartRetry /\ restartKicks = 0 /\ ~switchRetry /\ switchKicks = 0
    /\ debounce = NoMethod /\ stopPolls = [force \in BOOLEAN |-> 0]
    /\ commands = <<>> /\ reports = <<>> /\ exits = 0 /\ syncs = <<>>
    /\ scan.stage = "off"

\* When all is done the busy indicator is off, whichever handlers were
\* overtaken, refused or retried on the way, and the phase is final: the toggle
\* of the main window offers nothing in the phase "stopping".
RestIsFinal == Quiescent => ~busy /\ rt.phase \in {"stopped", "failed", "running"}

\* No change of mode meets a preset switch or a restart: a change that stops the
\* engine does not wait for a working switch, as StopWins tells of Stop, and a
\* restart in between starts the engine in the mode published last, the former.
Apart == spent["method"] = 0 \/ (spent["apply"] = 0 /\ spent["restart"] = 0)

\* When all is done one engine runs at most, as two executables would compete
\* for the same WinDivert driver; and what is published is true of it: "running"
\* names a process that exists, although switches replace it and stale ones are
\* reported late, and "stopped" leaves none.
EngineAsPublished ==
    Quiescent =>
        /\ \A e, f \in engines : e = f
        /\ Apart => /\ rt.phase = "running" => \E e \in engines : rt.pid \in {e.pid, NoPid}
                    /\ rt.phase = "stopped" => engines = {}

\* When all is done and the user's last command was Stop, no engine is left:
\* a start under way is waited for and then stopped (stop_flow.py).
StopWins == Quiescent /\ lastCommand = "stop" => engines = {}

\* When all is done an engine runs in the mode that is selected now, however
\* often the mode was changed while the pipeline was busy with the former one.
LastModeWins == Quiescent /\ Apart => \A e \in engines : e.method = settings.method

-----------------------------------------------------------------------------
(* Liveness, under LiveSpec.                                                  *)

\* Once the user leaves it alone, the pipeline comes to rest: no retry, queued
\* call or restart keeps another one going for ever; and by then every restart is
\* served, by itself or by a newer one, and every preset switch carried out,
\* skipped or overtaken by a newer one.
Settles ==
    <>[](/\ Quiescent
         /\ restart.requested = restart.completed
         /\ switch.requested = switch.completed)
=============================================================================
