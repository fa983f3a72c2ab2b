# Formal models of ZapretGUI

TLA+ models of the program under `src/src`, the TLC configurations that check them on small instances, and
theorems that the TLA+ proof system (TLAPS) checks for every instance. Paths below are relative to `src/src`.

ZapretGUI is a PyQt6 program for Windows. It starts, stops and switches one engine process (`winws.exe` or
`winws2.exe`), edits the presets the engine is launched with, replaces its own files when it updates itself, and
carries many tools around it. Six parts are modelled, each where threads, timers, other connections or programs or a
power loss come between the steps of an operation:

- the **launch runtime** (`winws_runtime/`): the engine must be the one the user asked for last;
- the **runner of winws2** (`winws_runtime/runners/`): every path of failure and retry must end with one engine that is held;
- the **core update** (`zapret_update/`): the program must survive a power loss at any step of replacing itself;
- the **presets in use** (`core/runtime/preset_runtime_coordinator.py`, `presets/`, `profile/`): what the user or
  another program writes must reach the right file, the engine and the screen;
- the **background workers of the pages** (`ui/`): one gate with two slots that every page goes through;
- the **external servers of the Telegram proxy** (`telegram_proxy/proxy/`): many connections share one active server and change it by their outcomes.

- [1 Inventory](#1-inventory)
- [2 What is modelled](#2-what-is-modelled)
- [3 From the code to the model](#3-from-the-code-to-the-model)
- [4 The runs](#4-the-runs)
- [5 Findings](#5-findings)
- [6 Proofs](#6-proofs)
- [7 What is left out](#7-what-is-left-out)
- [8 Plan](#8-plan)

## 1 Inventory

| Component | State it keeps | Operations | Talks to | What is hard; what makes it correct |
|---|---|---|---|---|
| Published launch state, `winws_runtime/state/launch_runtime_service.py` | phase, method, running, busy of the UI store; private: expected executable, pid, missed probes | `begin_start`, `mark_running`, `begin_stop`, `mark_stopped`, `mark_start_failed`, `bootstrap_probe`, `observe_process_details`, `set_busy` | written by every handler below, read by all UI | stale reports, two writers in one window. The state at rest agrees with the processes |
| Launch pipeline, `winws_runtime/runtime/{launch_runtime,start_flow,stop_flow,restart_flow,lifecycle_feedback,status_flow,thread_runtime}.py` | three QThreads; generations of restart and of preset switch; four kinds of timers | start, stop, restart, switch, their retries, the finished handlers | workers by queued signals, the published state | interleaving, lost requests, stale generations, "last request wins". No request is lost, one worker at a time, one engine |
| Change of the mode, `runtime/method_switch_flow.py` | none; stored method in the settings | plan, publish, queue a restart or a stop | the pipeline by `singleShot(0)` | the queued command is invisible to the pipeline until it runs. The engine ends up in the selected mode |
| Workers, `runtime/{start_workers,control_workers,preset_launch_service,sync_shutdown}.py` | result, pid | prepare, hand over, stop, spawn | runners, Windows | partial failure; a generation that becomes stale in the middle |
| Engine runners, `winws_runtime/runners/` | process, state machine, applied arguments, path, spare engines; a lock | start, fast switch (handover), stop, pause, adopt; a watcher thread per process | Windows, workers, premium requests | two processes during a handover, five kinds of failure with retries of their own, reads without the lock. A switch is all or nothing, nothing is left behind, a stop is final, a death is reported rightly |
| Process monitor, `winws_runtime/monitoring/` | last lists | scan every 2 s | GUI thread by a queued signal | late reports, reports only on change |
| Runtime events, `app/feature_facades/runtime_parts.py` | automatic restarts of the last 600 s | unexpected exit, runner failure, state after a worker's shutdown | the pipeline | late events against newer starts |
| Launch control, `ui/launch_control.py` | retry flag and counter | toggle, start, stop, restart, retry | pipeline, strategy scan | retry racing Stop |
| Strategy scan, `blockcheck/strategy_search/environment.py`, `runtime/scan_guard.py` | mark with a time limit, "was running" | stop the engine, probe, clean up, restore | pipeline from another thread | two owners of winws |
| Preset runtime coordinator, `core/runtime/preset_runtime_coordinator.py` | watched file, worker that resolves its path, own-save window, pending apply | preset switched / replaced / restored / saved / file changed / file back | pipeline (debounced switch), file watcher, UI store | own saves against external edits, a file that vanishes and returns. Engine, watcher and screen end up with the selected preset and its text |
| Preset selection, `presets/{selection_service,ui_store,file_service}.py` | selected name, replacement while its file is missing, files | select, look up, save, draft | signals to the coordinator | a look-up changes state; the signal of one thread is handled in another |
| Preset write queue and list of profiles, `profile/ui/{preset_write_queue,profile_payload_controller,preset_setup_page}.py`, `ui/queued_worker_state.py` | queue of operations, running workers, list on the screen, flags of its loader | click, start of the next, finish, drop; request, load, apply | `profile/service.py` in threads, signals of the presets | the preset changes under a waiting or running operation; lists that arrive late. Each command is written once, into the preset it was meant for, and the list catches up |
| Background workers, `ui/{background_worker_gate,one_shot_worker_runtime,latest_worker_lane}.py` | slots, queue, timer; worker and ticket of each runtime; pending request of each lane | submit, release, cancel, pump; start, stop; request, close | every page | a worker that never ends, a page that goes, a request in the gap between a thread's end and its signal. Nobody waits for ever, the last request is answered |
| Core update, `zapret_update/`, `updater/install/file_update.py` | journal, `swap/old`, `swap/new`, RunOnce entry, age of the journal | prepare, commit, verify, discard, roll back, recover, rescue, housekeeping | file system, Windows at login | power loss, refused renames, failed writes, four parties that may walk the same journal back. The program is one whole version, and an unfinished rollback can be finished unless a run of the rescue script was itself cut short |
| Autostart, `runtime/autostart.py` | "initiated" flag | start or adopt a leftover engine | pipeline | late answer of a probe thread |
| Settings store, `settings/store.py` | SQLite and a cache | get, set | all | two writers, broken file |
| Update check and updater (`core/runtime/update_check_coordinator.py`, `updater/`) | check in progress, downloads | check, download, stage | servers, files | late answers |
| Program start and exit, `main/` | phases of startup, single-instance gate | start, activate, exit steps | all | order, exit during start |
| Presets and profiles, `presets/`, `profile/` | files, selection | select, edit, parse, serialise | coordinator | almost all pure data |
| External SOCKS servers of the Telegram proxy, `telegram_proxy/proxy/{upstream_controller,upstream_runtime}.py`, ends of connections in `session.py`, `wss_proxy.py` | list of servers, the active one, the one on trial, failures and penalty of each; tasks, those with data, queue for four slots | open, connect, verdict (connect failure, no data, data), give up, change of settings | sessions of Telegram in one event loop, the user | each connection keeps its answer of `select_attempt` over its awaits while others change the server. One trial with one holder, a fallback only after failures, back to the selected server, data are not cut |
| Orchestra, the rest of the Telegram proxy, DNS, hosts, lists, BlockCheck, diagnostics, donations, logs, UI, tray | their own | their own | mostly independent of the launch runtime | see `PROJECT.json` |

`PROJECT.json` lists all components with their status and the hazards with the line where each bites and the
properties that would notice.

## 2 What is modelled

| Module | Models |
|---|---|
| `LaunchMethods` | `settings/mode.py`: the three modes and their executables |
| `LaunchRuntimeService` | the published state; each operation of the service is an operator from state to state |
| `LaunchRuntime` | the pipeline: extends the two above with one action per handler, timer, queued signal and worker step, and the environment (crashes, monitor, strategy scan) |
| `Winws2Runner` | the runner of winws2, the calls the workers and the premium request make on it, its exit watchers and the processes |
| `EngineSlot` | the promise of the runner: one engine serves, a switch is all or nothing, results are true. `Winws2Runner` is shown to implement it |
| `FileSwap` | `zapret_update/swap.py`: the journal, the two folders, one rename at a time, the walk back |
| `CoreUpdate` | extends `FileSwap` with the installer (`apply.py`), its rollback, the housekeeping, the RunOnce script, power loss and reinstallation |
| `AtomicUpdate` | the promise: an update is one transaction. `CoreUpdate` is shown to implement it |
| `PresetWriteQueue` | the queue of writes, its five workers, `profile/service.py` as far as it reads and writes a preset |
| `PresetSetupPage` | extends the queue with the loader of the list and the notices of the UI store |
| `WorkerGate` | the gate, its slots and timer, the runtimes of the pages |
| `LatestWorkerLane` | extends the gate with the lanes: one thing at a time, last request wins |
| `PresetSelection` | the files of each preset (the program's, and the user's that shadows it), the selected preset, its replacement while it has no file, saves and drafts, changes by other programs, signals |
| `PresetRuntimeCoordinator` | extends the selection with the coordinator: publishing, the watcher and its worker, own writes, what the engine is told |
| `UpstreamState` | `UpstreamStateController`: each method is an operator from its state to the next |
| `UpstreamConnections` | extends it with `UpstreamConnectionExecutor` and the steps of sessions and raw connections that give verdicts |
| `MC...` | the instances TLC checks |
| `LaunchRuntimeProofs`, `PendingRequestProofs` | proofs about the launch runtime: types; pending requests, what holds at rest, what is published |
| `Winws2RunnerProofs`, `CoreUpdateProofs`, `PresetSetupPageProofs`, `LatestWorkerLaneProofs`, `PresetRuntimeCoordinatorProofs`, `UpstreamProofs` | the proofs about each of the other parts, the gate's in that of the lanes |

`LaunchRuntime` composes the service, the pipeline, the three workers, the monitor, the exit watcher and the
scan in one state: the handlers call each other directly and share the generations, so that a split into
interacting modules would only add wires. The other parts are layered the way the code is: a module per file or
two that keep state, the upper one extending the lower one it calls.

**How the parts meet.** `LaunchRuntime` keeps of the runner what its callers see: a fast switch of winws2 is one step with
three outcomes (`SwitchApply`), a start is one spawn. `Winws2Runner` opens these steps and keeps of the pipeline
one operation at a time under the runner's own lock, whichever worker asks for it; that a switch is all or nothing (`ImplementsSlot`)
is what makes the one step of `LaunchRuntime` right. The coordinator tells the switch pipeline of `LaunchRuntime` what to apply
(`switch_presets_async`); `PresetRuntimeCoordinator` keeps of the pipeline that it was asked and reads the preset some
time later, which is what `NothingStranded` and `Settles` of `LaunchRuntime` say of it. The page
learns of a new selection and of saved text by the signals of `PresetSelection` (in `PresetSetupPage` they are
`told` and `news`), and its loaders and writes run in runtimes of `WorkerGate`, of which the page's model
keeps that a worker starts some time after it was made, which is `EveryoneStarts`. The proxy's servers are independent of the rest.

Operators whose names begin with `Mut` are deliberate mistakes. Each stands before the definition it distorts;
with it in place of that definition the property named in `PROJECT.json` fails, so that the property is known
to say something about the code.

**`Windows`.** The models of the runner, the update, the page, the lanes, the coordinator and the proxy have a constant `Windows`: a set
of named moments in which an event may fall. With a name in the set the model does what the code does in that moment;
with it left out the event does not fall there, everything else stays possible. Each name stands for a moment in which
the code was found to break a property (section 5) and is described in the header of its module. The
passing runs use `Windows = {}`, so they say: outside the named moments, this holds. A theorem names
the moments it excludes, and many exclude none (section 6).
The moments are as narrow as they can be stated, and opening any of them reproduces its finding.

## 3 From the code to the model

### Launch runtime

**Threads.** All handlers run in the one GUI thread, each to its end: an action is a whole handler with every call
it makes (`StopFinished` includes the start that `on_dpi_stop_finished` goes on with, down to the
refusal by a scan). The calls are operators that take the values already written by their caller
(`start_dpi_async(r, b, m)`: published state, busy, method) and give the primed variables. Workers run beside
it: `prepare`/`spawn` of a start, `kill`/`probe` of a stop, `check`/`apply`/`respawn`/`report` of a switch. The
switch worker reads `_presets_switch_requested_generation` from its own thread, hence the separate steps.

**A thread lives longer than its result.** `QThread.isRunning()` is still true after the finished signal until
`quit()` takes effect (`restart_flow.py:67-74` says so). So a thread goes `done` (signal queued),
`quitting` (handled), `idle` (`ThreadExits`); how long it stays in `quitting` is not bounded. Many of the
hazards live in this window.

**Variables.** `rt` and `busy` are what is published; `restart` and `switch` the generation counters; the
timers are flags (single ones), counters (`singleShot` that can be queued several times) or a method
(the debounce timer); `commands` is the queue of `singleShot(0)` calls made by a change of mode. `engines` is the
set of canonical winws processes that really exist, each with the mode that spawned it and its pid. `seen`,
`reports` and `exits` are the monitor and the exit watcher. `lastCommand` and `spent` are history.

**The user** gives the commands the window offers: Start in the phases stopped and failed, Stop in the active ones,
Restart while running, a preset edit while running or starting, a change of mode at any time. Start is given
only when no scan is active, as `LaunchControl` stops the scan first.

**Abstractions.** Time is not modelled: a timer fires some time after it is armed; the 30 s after which a stop no
longer waits for a start is a step that may happen (`slow`). A preset is broken or not; an exit is transient or not. A
start of `winws2` beside a running `winws2` either takes it over or stops it first; the choice, which is the
runner's, is free. A fast switch of winws2 is one step with the outcomes the pipeline can see (new process,
same process, failure with the old process kept); that of winws is two, as the old process is stopped first.
The probes a scan launches itself are not engines of the model. The rule that an engine is declared lost
after three missed probes is modelled with the reports the monitor really sends, one for each change.

**Initial states.** The window is ready, nothing runs, any selectable mode is stored and published, "start by
itself" is on or off and stays so.

### Runner

`op` is the operation that holds `_operation_lock`, with a program counter (`at`), the engine and path it would take back
(`old`, `path`), the number of the attempt and how the last spawn failed (`why`). `runner` is the object: the process it
holds, the state of its state machine (`ALLOWED`; a transition that is not in it raises, and what the handler of that exception
then leaves undone is modelled), `applied` for `_last_applied_base_launch_args`, `path` for `_preset_file_path`, `extra` for
the spare engines of an adoption. `pipe` is the worker of the pipeline: its probe, adoption, handover, stop before a
start, sweep and spawn are steps of their own, and those that do not take the lock may fall into any step of an operation
of the premium request. A process is the preset it runs; one that does not exit in the five seconds of a stop is in
`refused`, and may exit later or never. `watchers` are the threads in `process.wait()`. The five `Failures` are what the retries tell
apart of an exit code and an output: the classification itself, the wait for the driver service and whether a repair
succeeds are free. `asked`, `told`, `unwatched`, `left` and the `before`, `died` of `op` are history: `unwatched` are the
engines whose death nobody is told of, an adopted one and the old one that a failed handover takes back dead and without its watcher. Initially the runner is new, and an engine of an earlier run may
serve.

For the refinement, the engine of `EngineSlot` is the one that serves: during a handover the old one, until the new one
has confirmed its start. Every step of the runner is then a step of the slot or none.

### Core update

A file is its path and the version its content comes from; `app`, `old` and `new` are the program's folder and the
two folders under `swap/`. The installer is a process with a program counter (`pc`), one step per rename and one per
write of the journal, so that a power loss can fall between any two; `mem` is the journal in its memory, `disk` the
one on the disk, `gap` what was renamed and is not written yet. A walk back (`undo`) is the same
code whoever runs it: the rollback of the running attempt, the next attempt, the housekeeping at the program's start, or the
RunOnce script at login; `undo.who` says which. A file that was put there since (`_signature`, size and time) is left
alone: the model compares versions. Refused renames and failed writes are the failing alternatives of their
steps. An error that ends the rescue script before it has put itself back (`$ErrorActionPreference='Stop'`, the
unguarded write of the journal before the re-arming) is `RescueStops`. Two variables are history: `base`, the version the running
attempt began from, and `cut`, whether the last run of the rescue script was itself cut short. Initially the old version is
installed and nothing was ever attempted.

### Page of profiles

A text is the preset it was read from and the set of operations written into it, which is enough to tell a lost update
from one that went into the wrong preset. Commands differ in their kind (`context`: a setting or strategy of a profile;
`move`; `user_profile`: create, update, delete in all presets), in whether the row is named, and in what they replace in
the queue. A worker reads in one step and writes in another (`Load`, `Save`), the selection is looked up in each. The
loader of the list is kept with all its flags (`dirty`, `request`, `refresh_pending`, `refresh_scheduled`, the timer
`reload`, `apply`), as their interplay is the hazard. Initially the page shows the selected preset.

### Gate and lanes

`gate` is one record (tickets, threads, queue, timer, what each runtime holds), as the pump changes all of it at once:
`submit`, `drop` (release and cancel) and `pumped` are operators from gate to gate, and every action is a call of a
runtime or a signal. Workers are numbered in the order of their creation. `old` are the slots older than 800 ms;
the timer is due only when all active ones are. A page without a lane may start, stop, cancel, disappear, and its workers
may run for ever.

### Presets in use

A preset has the program's file, one in the folder of the user, or both (`there`); the user's shadows the other (`file`), so
that what a name stands for changes when a copy comes or goes. A save writes the user's file alone, and makes it over a built-in preset;
a save without a signal is a draft of the editor (`draft`, history), which `Commits` tells of later.
`content` counts the changes made to each file, by whomever. `signals` is the queue of preset signals to the GUI
thread. The watcher notices a change of the one file it watches, if it is there (`watched`, `armed`); `events` are its
notices on their way, with the writer kept as history. The registry of own writes goes by the name of the file alone. `own` and `suppress` are the two memories of the program's
own writes, which expire. `watch` is the worker that resolves the path, with its restart after it. The engine reads the
selected preset some time after it was asked to, and `engine` is the file and the text it got. Initially every preset has a file, the default one the
program's, and the program has started on the selected preset.

### External SOCKS servers

The code runs in one event loop: an action is what happens between two awaits. `upstream` is the controller
(`active`, `probe` for `_probe_key`, the health of each server), `session[s]` a connection: where it waits (`queued` for a slot,
`connect` in the handshake, `opened` for the first data, `relay`, `judged` when the client has gone and a task of its own
watches for the answer), the attempt it holds, `proven` for membership in `_proven`, `got` for data that came, `cancelled`
for a cancellation that has not reached it. `verdict` is record_... and `_handle_transition` in one step, as
there is no await between them; every verdict, also a late one, goes through it.

Times are ages in units: failures to connect are counted by age up to the window, the rest of a penalty counts down, `Tick`
moves all on. The generation is replaced by `current`, which a change of the active server takes from all other attempts; a generation
never comes back, so nothing else of it matters. Counters stop at the limits they are compared with. The wait in the queue
may end at any moment, as may a server's ability to answer change (`ServerChanges`); a full queue and a controller without
a server send the session along another route and change nothing here. Initially the proxy has started with one
of the lists in `Choices`.

## 4 The runs

Deadlock is checked for the proxy, which never rests. It is not in the other runs: with the commands spent and everything served the program rests, which is its normal
end. That it gets there is a property where fairness is stated. Process ids and presets are symmetric where no
liveness property forbids it.

| Run | Bounds | Checks | Distinct states |
|---|---|---|---|
| `requests` | all modes; three mixtures: start 1, restart 2, apply 2; or start 1, method 2, fail 1; or start, method, restart, apply 1 each; fair | `EngineAsPublished`, `LastModeWins`, `Settles` | 218 273 |
| `races` | zapret2; two mixtures: start 2, stop, restart, apply, crash, fail, slow 1 each; or start, apply, scan, crash, observe, fail, killfail 1 each | `TypeOK`, `NothingStranded`, `RestIsFinal` | 3.39 million |
| `update` | one file replaced besides the exe, one added, one removed; 2 power losses, 4 refused renames, 1 failed write, 2 attempts or reinstallations; fair | `TypeOK`, `WholeVersion`, `SomeVersionWhole`, `CanFinish`, `ReinstallKept`, `ImplementsAtomic` | 2.55 million |
| `page` | 3 presets; a setting and a move of profiles, an update of a user profile, a creation; 3 clicks, 3 selections, 1 failure, of these 4 together | `TypeOK`, `RightPreset`, `NothingForgotten`, `ListCatchesUp`, `NothingUndone`, `NewestWins` | 3.47 million |
| `lanes` | a lane and a page, 2 slots, 4 workers, 2 requests; fair | `TypeOK`, `GateInOrder`, `OneAtATime`, `LastRequestWins`, `EveryoneStarts`, `LaneSettles` | 444 553 |
| `coordinator` | 2 presets, the default one at first as built-in only, the other as the user's file only, each may get its other file; 1 own write, 3 selections or foreign changes, 1 rearm; fair | `TypeOK`, `SelectionFollowed`, `EngineCatchesUp`, `OnlyForeignApplied` | 1.95 million |
| `runner` | 3 processes, 1 of them may be left over, 2 presets; 2 commands, 1 pause, 1 death, 1 process that outlives a stop; fair | `TypeOK`, `StopIsFinal`, `NothingBehind`, `AlarmsRight`, `ImplementsSlot` | 2.11 million |
| `upstream` | 2 servers, 2 connections of both kinds, 1 slot, 1 place in the queue; the two orders of the list and none; clients leave, waits run out; limits of 2 failures, delays 1 and 2 | `TypeOK`, `ProbeIsHeld`, `FallbackJustified`, `NoneLeftBehind` | 1.55 million |
| `upstream_recovery` | the same with one order and sessions only, also targets refused; fair | `ProbeEnds`, `AutomaticKeepsData`, `PrimaryReturns` | 197 076 |

Three more runs, `stop_during_switch`, `update_retry` and `upstream_observed`, show findings (section 5).

- `requests` asks what the requests of the user come to, in all modes. Two restarts and two switches are enough for each to
  be overtaken by a newer one of both kinds (arriving also in the quitting window of another worker). Two changes of mode
  with a launch that fails show that the last one wins although the restart, the full stop or the failed launch of
  the first is still under way. The third mixture, one of each, lets the debounced switch of the former mode meet a restart into
  a new one. There a change of mode meets presets or restarts, so `Apart` is false, and what is checked
  is that one engine at most is left; of its mode, and of what is published, nothing is claimed. In all of them retries end
  and every generation is served.
- `races` shows, with everything that can start and stop an engine in one mode, that a pending generation
  always has something that takes it up (`NothingStranded`, also proved, section 6), and that the busy indicator is off and
  the phase final at rest, also after a scan took the engine from under a start or a switch, with a shutdown that fails and a late
  report of the monitor.
- `runner`: two commands and a pause meet in every order; three processes are an old engine, a new one beside it and one
  that was left or outlived its stop; two attempts of a handover and three of a start
  are the limits of the code. With three commands the invariants were checked once on 10.6 million states, which is too long for the regular run.
- `update` shows that an installation is a transaction: `ImplementsAtomic` is the refinement of `AtomicUpdate`,
  with its liveness, except where the rescue script was itself cut short: power loss while it works, or an error before it puts itself
  back, may leave a program without its exe and without a script (`Stranded`). The run takes these steps, so
  `CanFinish` says that nothing else leads there. One file of each sort and the exe are enough, as entries of different paths do not meet; two power losses
  reach an interrupted recovery of an interrupted installation; four refusals are what it takes to use up the
  four tries of a rollback.
- `page` has every kind of command, three clicks (one runs, one waits, one replaces the waiting), a
  selection between and a failure anywhere; or three selections among three presets, which is what it takes to leave a
  preset whose list is still loading and to come back to one that was shown before.
- `lanes`: two slots and four workers let one worker that never ends take a slot, another wait, a third be dropped and a
  fourth be pending in the lane. 
- `coordinator`: three changes allow a selection, a removal and a return, or an edit between two of them; the one save or draft may be
  of the built-in preset and puts a copy over it, which another program may edit, or remove while the preset is not selected.
- `upstream`, `upstream_recovery`: two connections are one that changes the server and one that it meets in any of its
  awaits; two servers give a selected one, a fallback and none. Limits of two failures keep "not yet" and "enough" apart, the
  observation window is one unit or none, and two delays make a penalty grow. Servers fail and return without bound. The three safety
  properties of `upstream` are proved for any numbers (section 6).

**At rest** (`Quiescent`, `Quiet`, `AtRest`): no thread, timer, queued call or signal is left. A safety property that must only
hold in the end is stated as `... => ...` under it; it is strong because every interleaving has to pass through.

**What the bounds of the launch runtime keep apart, and why.** `MaxStartingWaits = 2` (200 in the code: only "some" and
"none left" differ), `MaxAutoRestarts = 1` (2 in the code), two process ids. `Bounds` is a set of mixtures: each says how often each
kind of command and event happens, and a behaviour stays within one of them; nothing else is bounded. One large mixture would have
every pair of events, and too many states; the mixtures are chosen so that the events one question is about meet.
Some properties fail when more is allowed together. What the code does there is a finding (section 5) or a hazard with a note in
`PROJECT.json`; the condition stands in the property where it can be said, and in the bounds otherwise:
- `Apart`, a premise of `LastModeWins` and of the second part of `EngineAsPublished`: no change of mode in the same run of events as a preset
  switch or a restart asked for by the user. A change of mode without autostart that meets a working switch has the cause of
  `stop_during_switch`: the stop does not see the switch thread. So these two say nothing of behaviours with both; that
  the stale debounced switch of `restart_flow.py:186` leaves the selected mode alone is not checked.
- `EngineAsPublished` is asked without Stop, without engines that die between their spawn and the finished handler, and without reports of the
  monitor in the middle of a stop; those belong to the plan's monitor (section 8).
- `RestartNeverStranded`, the second half of `NothingStranded`, is stated until a scan begins (`spent["scan"] = 0`): a scan refuses the
  start that a restart needs.
- `RestIsFinal` is asked in one mode, since a change of mode that meets a stop thread in its quitting window leaves the indicator on.

**Fairness.**

- `LaunchRuntime`: weak fairness of each timer, queued signal, worker step and of the end of a thread: the Qt event
  loop delivers what is queued, armed single-shot timers fire, the calls of Windows in a worker return (they have time
  limits of their own). The user, crashes, reports of the monitor and new scans have no fairness; the expiry of a
  waiting stop has none either. Commands are finite by their bounds, so `Settles` says that the
  pipeline does not keep itself busy; it is not a statement about a user who never stops clicking.
- `Winws2Runner`: weak fairness of the operation that holds the lock, as each of its waits is bounded (five seconds for a
  stop, six for a dry run, `ready_timeout` for a start) and a premium request ends with its network timeout. Nothing is assumed of the workers, the watchers
  and the deaths.
- `CoreUpdate`: the installer and a walk back run to their end, the journal ages, the program is started again and somebody
  logs in. Power losses, attempts and reinstallations have none.
- `LatestWorkerLane`: the event loop and the timers go on (`Program`), and the job of a lane ends; workers of pages
  without a lane need never end, and that is what `EveryoneStarts` is about.
- `UpstreamConnections`: the event loop runs a connection that may go on, and each ends at some time; the clock goes on; Telegram keeps
  opening connections, which is what a trial needs to begin. Servers, users and clients that leave have none; that the selected server is
  used again (`PrimaryReturns`) has as premises that it serves from some time on and that connections are no longer broken off,
  by a client that leaves or a target that refuses, before they give a verdict.
- `PresetRuntimeCoordinator`: the event loop, the threads and the clock go on (`Program`); the user and other programs
  have none.

## 5 Findings

Three runs state what a docstring or comment of the code says and find it violated. The traces are
short; run TLC with the named configuration to see them.

1. `stop_during_switch` / `StopWins`. `stop_dpi_async` looks at the stop thread and the start thread but not at the
   preset switch thread. Stop kills the old engine, the switch then spawns a new one, and winws runs after Stop. The
   comment at `winws_runtime/runtime/stop_flow.py:43-45` describes the same race with a start as the thing to avoid.
2. `update_retry` / `SomeVersionWhole`. An attempt that cannot return everything an earlier one left raises in
   `prepare`; the handler at `zapret_update/apply.py:293` then rolls back the journal in memory, which is empty, saves
   that over the journal on the disk and removes `swap/old` with the last copies.
3. `upstream_observed` / `ObservedBeforeDropped`. Failures of an earlier time as the active server count towards
   the observation window, so one failure may drop a server that has just become active again, against the comment at
   `telegram_proxy/proxy/upstream_controller.py:15`.

The others were met while modelling; `PROJECT.json` quotes the lines. Those with a name of `Windows` can be seen by adding the
name to the run of their part (for `same`, run `upstream`, property `NoneLeftBehind`).

| Where | What | `Windows` |
|---|---|---|
| `winws_runtime/runtime/stop_flow.py:35` | Stop during a second start, while the thread of the former stop has not gone, is dropped and that start's engine stays (run `stop_during_switch` with 2 starts, 2 stops and no switch) | |
| `winws_runtime/runtime/start_flow.py:68` | Start after a change of mode without autostart launches the former mode | |
| `winws_runtime/runtime/restart_flow.py:297` | a restart asked for during a strategy scan is refused and never taken up | |
| `blockcheck/strategy_search/environment.py:188` | a start past its preflight spawns its engine into a scan | |
| `winws_runtime/runtime/control_workers.py:49` | Stop during the pause of a premium request finds nothing; the request restores the engine behind it | `pause` |
| `winws_runtime/runners/zapret2_runner.py:1287` | a handover to the preset applied last is skipped although the adopted engine serves another | `adopt` |
| `winws_runtime/runners/runner_base.py:174` | a watcher that is slow between its two reads reports a stopped engine as dead | `watch` |
| `winws_runtime/runners/runner_base.py:173` | an old engine that dies during a handover that fails is told to nobody | none: a named exception of `DeathTold` (run `runner`, part of `AlarmsRight`) |
| `zapret_update/swap.py:250` | power loss between a rename and its entry leaves a file nobody returns | `gap` |
| `zapret_update/swap.py:338` | the journal of an accepted update may outlive its files and undo it | `discard` |
| `zapret_update/rescue.py:145` | power loss in the RunOnce script, or a write of the journal that fails there, leaves a program without exe and without rescue | none: in run `update`, the exception of `CanFinish` and of the liveness of `ImplementsAtomic`; `rescue` adds a journal left unreadable |
| `profile/service.py:253` | a selection between the read and the write puts one preset's text over another | `select` |
| `profile/ui/profile_payload_controller.py:188` | a list read before a change of the preset arrives within 180 ms after it and cancels the reload | `load` |
| `profile/ui/preset_setup_page.py:588` | back to the preset on the screen, or to the one about to be shown, while another list loads: the wrong list stays | `return` |
| `profile/ui/preset_write_queue.py:735` | a button stays off after an operation that found another one waiting | |
| `profile/ui/preset_write_queue.py:98` | a click between a thread's end and its signal overtakes the queue | `finish` |
| `ui/latest_worker_lane.py:59` | in the same gap an older request runs after a newer one and is shown | `gap` |
| `ui/background_worker_gate.py:106` | a page that keeps asking delays those that wait | |
| `core/runtime/preset_runtime_coordinator.py:663` | an edit by another program soon after an own write reaches nobody | `own` |
| `core/runtime/preset_runtime_coordinator.py:634` | a file that returns after 3 s, or changes while its path, or the copy a draft made of it, is not watched yet, is neither watched nor applied | `late`, `gap` |
| `core/runtime/preset_runtime_coordinator.py:583` | another program removes the user's copy of the selected built-in preset, or puts one there: the preset goes on to be selected with another text, no signal comes, and the watcher stays on the former file | `shadow` |
| `telegram_proxy/proxy/upstream_runtime.py:287` | selecting the server that is active as a fallback leaves the connections through the former server alone | `same` |
| `telegram_proxy/proxy/upstream_runtime.py:90` | a raw connection records that data came only at its end, so an automatic change cuts it | `upstream_recovery` with raw in `Kinds`: `AutomaticKeepsData` |

Three more names of `Windows` are no findings but limits of what is claimed: `timer` (the coordinator's preset changes between the signal of a save and the
timer that handles it; `SelectionFollowed` fails), `slow` (an event of the watcher comes when the program no longer remembers its own write, which is
then applied like another program's; `OnlyForeignApplied` fails) and `early` (the gate's timer fires before the slot it was set for is old; a liveness property of run `lanes` fails).

## 6 Proofs

Checked by `tlapm` for every value of the constants: any processes, modes, files, presets, servers, connections, workers, commands and any bounds. The
assumptions are those the modules name (`NoPidAssumption`, `ConstantsAssumption`, `RunnerAssumption`, `FilesAssumption`,
`UpdateAssumption`, `QueueAssumption`, `GateAssumption`, `LaneAssumption`, `SelectionAssumption`, `CoordinatorAssumption`,
`UpstreamStateAssumption`, `UpstreamConnectionsAssumption`): the values for "none" are not members, bounds are numbers, files of
different sorts differ, the gate has a slot, and the process ids of the runner are finitely many, as those that refuse to exit are counted.

| Theorem | States | Without the moments |
|---|---|---|
| `LaunchRuntimeProofs!TypeCorrect` | `Spec => []TypeOK` | |
| `PendingRequestProofs!SwitchNotLost`, `!RestartNotLost`, `!NothingLost` | `[]SwitchNeverStranded`, `[]RestartNeverStranded`, both together (`NothingStranded`) | |
| `PendingRequestProofs!RestAlwaysFinal` | `[](spent["method"] = 0 => RestIsFinal)` | |
| `PendingRequestProofs!PublishedAlwaysTrue` | `[](Calm => EngineAsPublished /\ LastModeWins)` | |
| `PendingRequestProofs!LastModeAlwaysWins` | `[](Plain => EngineAsPublished /\ LastModeWins)` | |
| `Winws2RunnerProofs!TypeCorrect`, `!NothingLeftBehind` | `[]TypeOK`, `[]NothingBehind` | none |
| `Winws2RunnerProofs!StopAlwaysFinal` | `[]StopIsFinal` | `pause` |
| `Winws2RunnerProofs!DeathsAlwaysTold` | `[]DeathTold` | none |
| `Winws2RunnerProofs!AlarmsAlwaysRight` | `[]AlarmsRight` | `watch`, `adopt` |
| `Winws2RunnerProofs!SwitchAllOrNothing` | the initial states and steps of `EngineSlot` | `adopt` |
| `CoreUpdateProofs!TypeCorrect` | `[]TypeOK` | none |
| `CoreUpdateProofs!AlwaysWhole`, `!NothingLost`, `!RollbackCanFinish` | `[]WholeVersion`, `[]SomeVersionWhole`, `[]CanFinish` | all |
| `CoreUpdateProofs!ReinstallSafe` | `ReinstallKept` | all |
| `CoreUpdateProofs!UpdateIsAtomic` | the initial states and steps of `AtomicUpdate` | all |
| `PresetSetupPageProofs!TypeCorrect` | `[]TypeOK` | none |
| `PresetSetupPageProofs!RightPresetAlways`, `!NothingUndoneEver`, `!NewestAlwaysWins` | `[]RightPreset`, `NothingUndone`, `NewestWins` | `finish`, `select` |
| `PresetSetupPageProofs!NothingForgottenEver` | `[]NothingForgotten` | `finish` |
| `PresetSetupPageProofs!ListAlwaysCatchesUp` | `[]ListCatchesUp` | `load`, `return` |
| `LatestWorkerLaneProofs!TypeCorrect`, `!GateKeepsOrder`, `!LaneOneAtATime` | `[]TypeOK`, `[]GateInOrder`, `[]OneAtATime` | none |
| `LatestWorkerLaneProofs!LastRequestAlwaysWins` | `[]LastRequestWins` | `gap` |
| `PresetRuntimeCoordinatorProofs!TypeCorrect` | `[]TypeOK` | none |
| `PresetRuntimeCoordinatorProofs!SelectionAlwaysFollowed` | `[]SelectionFollowed` | `own`, `gap`, `shadow`, `late`, `timer` |
| `PresetRuntimeCoordinatorProofs!OnlyForeignAlwaysApplied` | `OnlyForeignApplied` | `slow` |
| `UpstreamProofs!TypeCorrect`, `!ProbeAlwaysHeld`, `!FallbackAlwaysJustified` | `[]TypeOK`, `[]ProbeIsHeld`, `[]FallbackJustified` | none |
| `UpstreamProofs!NobodyLeftBehind` | `[]NoneLeftBehind` | all |
| `UpstreamProofs!DataAlwaysKept` | `AutomaticKeepsData`, if `Kinds` has no raw connections | none |

The last column names the members of `Windows` the theorem excludes; all others may be open.

*Types of the launch runtime.* `TypeOK` alone is not inductive: a start thread past `idle` must have a mode, or its spawn would put
an engine of no mode into `engines`, and only winws has the step `respawn`. The invariant is `TypeInv == TypeOK /\
WorkersHaveMethod`. Lemmas give the type of each operation of the service and of each call (`StartCall`, `StopCall`,
`RestartRequest`, `SwitchRequest`, ...) once; the handlers follow from the calls they make.

*Pending switch.* The invariant is `TypeInv /\ SwitchNeverStranded`. `process_pending_presets_switch` completes the
request, arms the retry or starts the worker (`SwitchTaken`), whatever called it; the finished handlers queue a
call when something is pending; every other step leaves the request and what keeps it alive alone (`SwitchKept`).

*Pending restart.* `RestartNeverStranded` needs in addition that a start is not refused when a restart is handed to it:
the thread checks in `process_pending_restart_request` exclude a running start thread, and no scan has begun. The invariant is
`TypeInv /\ (spent["scan"] = 0 => RestartInv)`, and `Counted` says that a scan, once begun, stays counted. Without that
condition the statement is false (section 5), so the proof also locates the defect: it is the only obstacle.

*At rest.* That the phase is final and the indicator off is the sum of three things (`RestInv`): a phase in which something is
under way has the worker that ends it (`PhaseInv`); busy is on only while a worker or a pending switch will put it off
(`BusyInv`); and a switch worker works for a request that is not completed, so that a result marked stale has a newer request
behind it that answers for the indicator (`GenInv`). At rest nothing works, and by `SwitchNotLost` nothing is pending. Every call of
the pipeline either leaves phase and indicator or begins a worker that answers for them (`Begun`), so the handlers follow
from the calls. A change of the mode breaks it: it publishes `stopping`, or the pending start, and busy for a command that only comes later and may be refused (section 4), hence the condition
`spent["method"] = 0`.

*What is published.* `PublishedAlwaysTrue` is about the behaviours in which the pipeline has the engine to itself and one mode (`Calm`): no change of mode, scan,
crash, report of the monitor or stop that loses patience; and presets are switched, or there are stops and failed launches, but not both.
Each of these conditions stands for a race in which the code fails or in which the publication is left to the monitor (sections 4 and 5). `CalmInv` adds to
`RestInv` that one worker at a time works and the phase says which (`Alone`), that there is one engine (`Single`) whose pid the
publication, or the result on its way, names (`PidInv`), and that `stopped` leaves none while `running` has one unless a newer switch
is pending (`GoneInv`). The last part is the one that is hard to see in the code: a switch of winws that is overtaken after it
has stopped the old engine reports success with no engine at all, and only the newer request, which finds `running`, starts one.

*The mode selected last.* `LastModeAlwaysWins` is about the behaviours in which the user starts, stops and changes the mode (`Plain`), as often as
the user likes where the bypass starts by itself and with one start where it does not; nothing fails and nothing of the environment comes in between.
`Held` follows the workers: a start works in the published mode, never beside a stop, spawns into the place it has cleared, and the phase is
true of the engine. What decides is where the selected mode is while the pipeline is busy. With autostart every change is a restart (`RestartsFollow`): the
last queued command names the mode; with none queued the pending restart has it as its target; and with nothing pending the publication and the engine
are in it. The step that could lose it is the end of a start made for an older restart: `ActiveStart` says that only a start in the newest target completes the
newest request, and a stop that ends goes on with the newest one. Without autostart every change is a stop (`StopsFollow`): while a start works or an engine
runs in another mode, a stop is queued, waits for the start or works. A stop is dropped when another one has not gone;
by then that one has done its work, as no second start comes in between. One start is all that is allowed there because a second one, after the
stop, launches the former mode: the finding of `start_flow.py:68` in section 5. At rest nothing is pending by `RestartNotLost`.

*The runner.* `Inv` says which worker is in which operation, and where (`OpInv`, `PipeInv`), what a handover holds while two
processes exist (`HandoverInv`), and that every engine is held, is the old one of a handover, outlived its stop, or is of an earlier
run (`EngineInv`); after the sweep of a start the last is excluded too. `NothingBehind` is that with no operation under way. A pause that
slips in behind a failed stop (`ResidualInv`) is why the runner must be idle there. A published stop rests on `StopInv`:
no engine, and no pause that could restore one. For the alarms, `WatchInv` follows each watcher through its two reads: of an engine that was asked to exit it either
will not find itself the holder or finds a state in which an exit is expected; and `AppliedInv` says that an engine of a known preset runs it, so that an
engine without a watcher is an adopted one. That deaths are told needs no excluded moment: `ToldInv` says that
the engine held has a watcher or was told of, unless it has yet to confirm its start, is being stopped or is `unwatched`, and that the
old one of a handover keeps its watcher while it lives, so that a handover that fails takes back an engine that has its watcher or is dead. `ServingInv` says what the traffic goes through in each operation;
under it every step is one of the slot's or leaves the slot alone, which is shown action by action.

*The update.* Everything follows from one notion: a journal is *good* for a state of the folders if walking it back
gives every file its content of before the attempt (`Returns(j)`). The invariant `IInv` is the conjunction of the
types and four parts, which together say that every state has such a journal where it will be looked for: while files
move it is the one in memory with the rename not written yet, at rest the one on the disk (`JournalInv`), and during a
walk both the journal it began from and what is left of it (`UndoInv`), so that a second power loss finds either; that
the script is armed, or was itself cut short, while there is something to return (`ArmedInv`); and that nothing is half walked when nobody walks
(`NobodyWalks`). Each step of the walk preserves goodness (`Returns` of what is left); the recorded journal covers the
one in memory, because the fault that breaks this is the named moment `gap`. `WholeVersion` is then what an empty good journal says, `SomeVersionWhole` that a good
journal names where every file is, `ReinstallKept` that a walk only touches files it moved; the refinement
maps a settled program to its version and everything else to `"changing"`.

*The page, writing.* `Inv` says, besides types, that a waiting operation on a row is stamped with a preset (`StampInv`), that one
worker runs at a time and none beside a scheduled operation (`OneWorker`), that once every notice is delivered the store
names the selected preset (`ToldInv`), so that the stamp compared with the store is compared with the selection, and
that the worker of a row is meant for the selected preset and has read its present text (`WorkerInv`). `NothingUndone` follows since what a worker has read is still the text when it writes.
`OwedInv` says that a command without an answer waits, is about to start or is being written, and that the queue never waits for nobody; it needs only that no
click falls between a thread's end and its signal. `OrderInv` says that of two commands for the same thing the newer is never
started first, although a newer one takes the place of an older one in the middle of the queue: among those that wait no two replace each other (`AloneInv`), and one that
waits is newer than whatever it would replace among the started (`AfterInv`) and the written (`LaterInv`). All ids are at most the number of clicks (`IdsInv`).

*The page, reading.* The list on the screen is right in the end if in every state something leads to that (`CatchUp`): the loader reads again in any case
(`Sure`), or the list that will be shown last is of the selected preset and complete but for what is announced
(`UpToDate(Waiting)`), or it is known to be old and will be asked for again (`Alarm`), or a notice of the selection is on its way that will not find its preset
already shown (`NoticeComes`), or the file could not be read and the page says so (`Err`). `LoadInv` ties the flags of the loader together.
The two moments are exactly those in which a notice is ignored although the list on its way is of another preset.

*The gate and the lanes.* Each operation of the gate is an operator from gate to gate, so lemmas say once what it finds and leaves
(`Ordered`) and what it does to others (`Moved`: slots are taken back, workers that waited start or are given up); the pump starts a prefix of
the queue and is handled by the same two. `GateInv` adds that what waits is the worker of its runtime (`WantedInv`). `LaneInv` and
`LaneWorkers` say that a lane about to start has no worker, and that what runs for an open lane is its worker, hence `OneAtATime`. For `LastRequestWins`, `Owed` says where the last
request is: pending and sure to start, with the worker, in its answer on the way, or given to the page.

*The coordinator.* The signals on their way matter as a sequence: the last of a kind decides what will be shown and what will have been sent
(`LastIs`, `SignalInv`). `WatchInv` says that, while the selected preset has a file, one of three things leads to its being watched (`Followed`): a signal is on
its way that has it watched (`Coming`), or a save of it whose handling sets the watcher up again (`ContentComing`), which is what follows a save that makes
a copy; or the watcher's worker and those to follow end with it (`Settles`), or with the built-in file under the copy of a draft (`Drafted`); `ReturnInv` that, while the selected preset has no file, a missing watched file of it is waited for, and that once it is back something looks the selection
up again; `OwnInv` that no other program's change is under way while a save waits, which is where the excluded moments enter. For `OnlyForeignApplied` it is enough that the
event of an own write is known as one (`KnownInv`).

*The proxy.* The controller comes first: `Control` says that its state is typed, that the active server is justified, that a server under a
penalty has failed (so that passing over it is justified), and that there is a trial only of the selected server or while none is active
(which makes the switch at the end of a trial justified). `Outcome` is what the connections need to know of a verdict, whichever it
is; each of the four kinds is shown to have it. `Inv` then adds that the connection a trial belongs to is the only one that would report on a
trial and that what it was told of it still holds (`TrialInv`). A trial that was withdrawn by the user's choice of the active server
may still be held by a connection; then the selected server is active, so no new trial can begin
before that connection ends or the active server changes. `LeftInv` says more for `Windows = {}`: a connection without data has a current attempt,
one with data goes through the active server as long as the last change was the user's. Every step leaves
all connections alone but one, or takes `current` from all of them. `KeptInv`, for sessions, says that a connection with data is among the proven, which an automatic
change spares; a raw connection is not, which is the finding.

*Only model-checked.* Liveness cannot be proved with the backends used here, as they do not handle fairness and `ENABLED`:
`Settles`, the liveness halves of `ImplementsAtomic` and `ImplementsSlot`, `EveryoneStarts`, `LaneSettles`,
`EngineCatchesUp`, `ProbeEnds`, `PrimaryReturns`. Of the safety properties, `EngineAsPublished` and `LastModeWins` are checked by run
`requests` also where a change of mode meets a failed launch, and not proved there. With both they are not true for any bounds: five changes of mode and three failed
starts queue a command behind failing ones in front of a live engine, and the last mode loses. There are no recursive definitions.

## 7 What is left out

In the launch runtime:
- autostart at the start of the program and its probe for a leftover engine (`runtime/autostart.py`);
- `stop_and_exit_async` and `cleanup_threads`: the program ends;
- the conflict dialog before a start, and the restart of Discord after an apply;
- the queued failure signal of a runner (`runtime_parts.py:322-345`): a failed start is published by its finished handler;
- the 600 s window of automatic restarts does not slide, and the 1800 s limit of the scan's mark does not run out;
- a preset switch without delay and with a method that is no preset mode: no caller makes such a call;
- error texts, status texts, the time since when the engine runs.

The phase `starting` without a start thread, for which a pending switch waits at most 200 times, is kept in the
model, although the other modelled steps hardly produce it.

Of the runners: that of winws (its fast switch is in `LaunchRuntime`), the `@config` files and their names, the second dry run after a
failed initialisation, the release of the driver, the messages. A process id is not reused while something remembers it.

In the update: directories (created, pruned, emptied), the building of the new tree (`stage.py`), download and signature
checks, the log. The housekeeping's second reason to leave a journal alone (`HOLD_ENV`, the program is on trial) is left out, so the model
lets it walk back where the code may not. The order of entries of different paths in a journal is left open, as they do not touch each other.

On the page: the patch of the one row a finished worker changed, the apply of a list deferred while the page is hidden, and a change of
the strategy that leaves the list alone; parsing and editing of texts, which is pure data.

Of the gate: the blocking stop (the program waits for a thread, or terminates it, at its exit). Signals of different workers may
overtake each other in the model, which allows more than Qt does.

Of the presets in use: renaming, duplicating, importing, deleting and resetting presets inside the program
(`handle_preset_identity_changed`), built-in files that come or go with an update of the program, the delayed refresh of the pages, a second launch method.

Of the proxy: its servers and sockets, MTProto, all routes but the external SOCKS server, pools, health of the routes, the UDP relay, snapshots for the
window, and `close` when the program ends. A raw connection that breaks with an error in the event loop's transport ends like one that is cancelled,
which is left out of its kind. Two arrivals in one pass of the event loop (data and a verdict of another connection) are two steps.

Outside of these: the components with status `not_modelled` in `PROJECT.json`, each with its reason.

## 8 Plan

Done: the launch runtime, the runner, the core update, the page of profiles, the gate and its lanes, the coordinator and the external servers of the proxy, each
model-checked; every safety property of the runs proved, those of the launch runtime at rest with the conditions of section 6; the refinements of the update and of the runner proved step by step.

To prove next: the launch runtime with one failed launch and changes of the mode (`LastModeWins`), and the lemmas of items 1 and 2 below as they are modelled.

To model next, in this order:

1. **Monitor and events**: reports on change, three missed probes, late exits against newer starts, automatic
   restarts with a sliding window. Takes over the hazards now kept out of `EngineAsPublished`.
2. **Abstract launch runtime** (`LaunchIntent`): the newest intention is the one reached.
3. **Launch control retry**, **update check**, **settings store**, **program exit**, **autostart**.
