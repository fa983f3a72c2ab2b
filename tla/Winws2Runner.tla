---------------------------- MODULE Winws2Runner ----------------------------
(***************************************************************************)
(* winws_runtime/runners/zapret2_runner.py with runner_base.py: the object  *)
(* that owns the winws2 process, the worker that starts, switches and stops *)
(* it (preset_launch_service.py, control_workers.py, sync_shutdown.py), the *)
(* thread of the premium request that pauses it (direct_network.py), and    *)
(* the threads that wait for the exit of each process.                      *)
(*                                                                          *)
(* The operations of the runner exclude one another (_operation_lock); the  *)
(* workers' own reads of the process list, the watchers and the deaths of   *)
(* engines do not wait for anybody.                                         *)
(*                                                                          *)
(* Windows names the moments a run lets happen:                             *)
(*   "watch"  a watcher sleeps between its two reads while the next         *)
(*            operation begins;                                             *)
(*   "adopt"  an engine is adopted by a runner that already applied a       *)
(*            preset;                                                       *)
(*   "pause"  a stop looks for the engine while a premium request has it    *)
(*            paused.                                                       *)
(***************************************************************************)
EXTENDS Naturals, FiniteSets

CONSTANTS Pids, NoPid,
          Presets, NoPreset,   \* a preset with its text: an edited one is another
          Leftovers,           \* engines an earlier run of the program may have left
          Windows,
          MaxCommands,         \* bound: starts, switches and stops
          MaxPauses,           \* bound: premium requests
          MaxDeaths,           \* bound: engines that die by themselves
          MaxRefusals          \* bound: engines that outlive the 5 s of a stop

ASSUME RunnerAssumption ==
    /\ IsFiniteSet(Pids) /\ NoPid \notin Pids /\ NoPreset \notin Presets
    /\ Leftovers \subseteq Pids
    /\ Windows \subseteq {"watch", "adopt", "pause"}
    /\ {MaxCommands, MaxPauses, MaxDeaths, MaxRefusals} \subseteq Nat

WINDIVERT_CONFLICT_MAX_RETRIES == 2

VARIABLES
    engines,    \* the preset of each live winws2 of this installation
    runner,     \* the fields of the runner: its process, state, applied preset,
                \* path, and the spare engines found when one was adopted
    watchers,   \* the thread that waits for the exit of a process
    op,         \* the operation that holds the lock
    outcome,    \* how the last one ended
    pipe,       \* the worker of the launch pipeline
    phase,      \* what the pipeline has published
    refused,    \* engines that did not exit when asked to
    asked,      \* history: engines that were asked to exit
    told,       \* history: engines whose exit was reported as unexpected
    unwatched,  \* history: engines whose death nobody tells of: adopted ones, and
                \* those a failed handover took back dead and without a watcher
    left,       \* history: engines of an earlier run no start has dealt with
    used        \* the bounded counters

vars == <<engines, runner, watchers, op, outcome, pipe, phase,
          refused, asked, told, unwatched, left, used>>

Pid == Pids \cup {NoPid}
Preset == Presets \cup {NoPreset}

(* PresetRunnerStateMachine._ALLOWED; every other transition raises. *)
ALLOWED ==
    [idle     |-> {"starting", "failed"},
     stopping |-> {"idle", "starting", "failed"},
     starting |-> {"running", "failed", "idle"},
     running  |-> {"starting", "stopping", "failed", "idle"},
     failed   |-> {"idle", "starting", "stopping"}]
States == DOMAIN ALLOWED
may(state) == state = runner.state \/ state \in ALLOWED[runner.state]

FreshRunner == [held |-> NoPid, state |-> "idle", applied |-> NoPreset,
                path |-> NoPreset, extra |-> {}]

(* A failure of a spawn as the retries tell them apart (spawn_failure.py).  A *)
(* "service" failure is a transient 1058; a system error ends like an "other" *)
(* failure: with a repair of the driver, or at once.                          *)
Failures == {"dll", "conflict", "service", "silent", "other"}

NoOp == [kind |-> "none", at |-> "done", want |-> NoPreset, old |-> NoPid,
         path |-> NoPreset, attempt |-> 0, recover |-> FALSE, why |-> "other",
         before |-> NoPreset, died |-> FALSE]

Rest == [kind |-> "none", at |-> "rest", want |-> NoPreset]

Alive == {p \in Pids : engines[p] # NoPreset}
is_running == runner.held \in Alive
free == op.kind = "none"
watchers_awake == "watch" \in Windows \/ \A p \in Pids : watchers[p] # "matched"
spawning == op.kind \in {"start", "pause"}

(* The engine that serves the traffic: the old one of a handover until the    *)
(* new one has confirmed its start, and none that was asked to exit.          *)
server == IF op.at = "confirm" \/ runner.held = NoPid THEN op.old ELSE runner.held
serving == IF server \in Alive \ refused THEN engines[server] ELSE NoPreset

Runners == [held : Pid, state : States, applied : Preset, path : Preset, extra : SUBSET Pids]
Kinds == {"none", "switch", "start", "stop", "pause"}
Spots == {"compile", "clean", "stopping", "sweep", "recover", "ready", "dry", "popen", "confirm",
          "placed", "failed", "exiting", "open", "closed", "done"}
Operations ==
    [kind : Kinds, at : Spots, want : Preset, old : Pid, path : Preset, attempt : 0..WINDIVERT_CONFLICT_MAX_RETRIES,
     recover : BOOLEAN, why : Failures, before : Preset, died : BOOLEAN]
Outcomes == [kind : Kinds, is : {"done", "stale", "failed"}]
Workers ==
    [kind : {"none", "switch", "start", "stop"},
     at : {"rest", "probe", "adopt", "handover", "extras", "prestop", "residual", "spawn",
           "switch", "look", "stop"},
     want : Preset]
Counters == [commands : 0..MaxCommands, pauses : 0..MaxPauses,
             deaths : 0..MaxDeaths, refusals : 0..MaxRefusals]

TypeOK ==
    /\ engines \in [Pids -> Preset] /\ runner \in Runners
    /\ watchers \in [Pids -> {"none", "waiting", "matched"}]
    /\ op \in Operations /\ outcome \in Outcomes
    /\ pipe \in Workers /\ phase \in {"stopped", "running", "failed"}
    /\ refused \subseteq Alive
    /\ asked \subseteq Pids /\ told \subseteq Pids /\ unwatched \subseteq Pids /\ left \subseteq Pids
    /\ used \in Counters

Init ==
    /\ \E found \in SUBSET Leftovers, preset \in Presets :
         /\ engines = [p \in Pids |-> IF p \in found THEN preset ELSE NoPreset]
         /\ left = found
         /\ phase = IF found = {} THEN "stopped" ELSE "running"
    /\ runner = FreshRunner
    /\ watchers = [p \in Pids |-> "none"]
    /\ op = NoOp /\ outcome = [kind |-> "none", is |-> "done"] /\ pipe = Rest
    /\ refused = {} /\ asked = {} /\ told = {} /\ unwatched = {}
    /\ used = [commands |-> 0, pauses |-> 0, deaths |-> 0, refusals |-> 0]

world == <<engines, refused, asked, used>>
watching == <<watchers, told, unwatched>>
worker == <<outcome, pipe, phase, left>>

(* stop_process and stop_engine_processes: the processes are asked to exit,   *)
(* and some of them may outlive the five seconds the caller waits, again and  *)
(* again.                                                                     *)
ask(group) ==
    \E spared \in SUBSET (group \cap Alive) :
        /\ used.refusals + Cardinality(spared \ refused) <= MaxRefusals
        /\ engines' = [p \in Pids |-> IF p \in group \ spared THEN NoPreset ELSE engines[p]]
        /\ refused' = (refused \ group) \cup spared
        /\ asked' = asked \cup (group \cap Alive)
        /\ used' = [used EXCEPT !.refusals = @ + Cardinality(spared \ refused)]

to(at) == op' = [op EXCEPT !.at = at] /\ UNCHANGED worker
fail(why) == op' = [op EXCEPT !.at = "failed", !.why = why] /\ UNCHANGED worker

(* The operation releases the lock, and the worker that asked for it goes on  *)
(* with the answer.                                                           *)
leave(is) ==
    /\ op' = NoOp /\ outcome' = [kind |-> op.kind, is |-> is]
    /\ pipe' = CASE op.kind = "pause" -> pipe
                 [] pipe.at = "handover" ->
                      [pipe EXCEPT !.at = IF is = "done" THEN "extras" ELSE "prestop"]
                 [] op.kind = "stop" -> [pipe EXCEPT !.at = "residual"]
                 [] OTHER -> Rest
    /\ phase' = IF op.kind # "start" THEN phase
                ELSE IF is = "done" THEN "running" ELSE "failed"
    /\ left' = IF op.kind = "start" /\ is = "done" THEN {} ELSE left

-----------------------------------------------------------------------------
(* switch_preset_file_fast, start_from_preset_file and stop take the lock.    *)
begin(kind, at, want) ==
    op' = [NoOp EXCEPT !.kind = kind, !.at = at, !.want = want, !.before = serving]

Begin ==
    /\ free /\ watchers_awake
    /\ \/ pipe.at \in {"handover", "switch"} /\ begin("switch", "compile", pipe.want)
       \/ pipe.at = "spawn" /\ begin("start", "compile", pipe.want)
       \/ pipe.at \in {"prestop", "stop"} /\ begin("stop", "stopping", NoPreset)
    /\ UNCHANGED <<runner, world, watching, worker>>

(* The preset is compiled.  A fast switch to the text that is applied is no   *)
(* work; a stale one (never that of a handover) stops here.                   *)
CompileFails ==
    /\ op.at = "compile" /\ runner' = [runner EXCEPT !.state = "failed"]
    /\ leave("failed") /\ UNCHANGED <<world, watching>>

CompileStart ==
    /\ op.at = "compile" /\ spawning
    /\ op' = [op EXCEPT !.at = IF op.recover THEN "recover" ELSE "clean", !.recover = FALSE]
    /\ UNCHANGED <<runner, world, watching, worker>>

MutSameText == runner.applied = op.want
same == runner.applied = op.want /\ is_running

SkipSwitch ==
    /\ op.at = "compile" /\ op.kind = "switch"
    /\ (pipe.at # "handover" /\ leave("stale")) \/ (same /\ leave("done"))
    /\ UNCHANGED <<runner, world, watching>>

CompileSwitch ==
    /\ op.at = "compile" /\ op.kind = "switch" /\ ~same
    /\ op' = [op EXCEPT !.at = "dry", !.path = runner.path,
                        !.old = IF is_running THEN runner.held ELSE NoPid]
    /\ runner' = [runner EXCEPT !.path = op.want]
    /\ UNCHANGED <<world, watching, worker>>

(* _stop_process_only_locked.  From a state that may not become STOPPING the  *)
(* transition raises, the handler swallows it, and nothing is stopped.        *)
stop_process_only ==
    IF is_running /\ may("stopping")
    THEN ask({runner.held}) /\ runner' = [runner EXCEPT !.held = NoPid, !.state = "idle"]
    ELSE UNCHANGED <<runner, world>>

Clean == op.at = "clean" /\ stop_process_only /\ to("sweep") /\ UNCHANGED watching

SweepBeforeSpawn ==
    /\ op.at = "sweep" /\ spawning
    /\ ask(Alive) /\ to("ready") /\ UNCHANGED <<runner, watching>>

Recover == op.at = "recover" /\ ask(Alive) /\ to("ready") /\ UNCHANGED <<runner, watching>>

(* The driver service is stuck, or the way to the spawn is free. *)
Ready ==
    /\ op.at = "ready" /\ UNCHANGED <<world, watching>>
    /\ \/ leave("failed") /\ UNCHANGED runner
       \/ to("dry") /\ runner' = IF spawning THEN [runner EXCEPT !.path = op.want] ELSE runner

(* The dry run passes, exits with a code, or does not finish in six seconds.  *)
DryRun ==
    /\ op.at = "dry" /\ UNCHANGED <<world, watching>>
    /\ \/ to("popen") /\ UNCHANGED runner
       \/ (\E why \in Failures : fail(why)) /\ runner' = [runner EXCEPT !.state = "failed"]
       \/ fail("other") /\ UNCHANGED runner

(* A spawn that fails forgets the process and what is applied; a start also   *)
(* forgets its path.                                                          *)
spawn_failed ==
    runner' = [runner EXCEPT !.held = NoPid, !.state = "failed", !.applied = NoPreset,
                             !.path = IF spawning THEN NoPreset ELSE @]

fresh(p) == p \notin Alive \cup runner.extra \cup {runner.held, op.old} /\ watchers[p] = "none"

Popen ==
    /\ op.at = "popen"
    /\ \E p \in Pids :
         /\ fresh(p) /\ engines' = [engines EXCEPT ![p] = op.want]
         /\ runner' = [runner EXCEPT !.held = p, !.state = "starting",
                !.applied = IF ~is_running /\ runner.state \in {"running", "starting", "stopping"}
                            THEN NoPreset ELSE @]
         /\ asked' = asked \ {p} /\ told' = told \ {p} /\ left' = left \ {p}
         /\ unwatched' = unwatched \ {p}
    /\ op' = [op EXCEPT !.at = "confirm"]
    /\ UNCHANGED <<watchers, outcome, pipe, phase, refused, used>>

PopenRaises ==
    op.at = "popen" /\ spawn_failed /\ fail("other") /\ UNCHANGED <<world, watching>>

(* The engine reports that it is ready, or is alive when the wait is over. *)
Confirm ==
    /\ op.at = "confirm" /\ is_running /\ to("placed")
    /\ runner' = [runner EXCEPT !.state = "running"]
    /\ watchers' = [watchers EXCEPT ![runner.held] = "waiting"]
    /\ UNCHANGED <<world, told, unwatched>>

ExitsInStart ==
    /\ op.at = "confirm" /\ spawn_failed /\ \E why \in Failures : fail(why)
    /\ engines' = [engines EXCEPT ![runner.held] = NoPreset]
    /\ refused' = refused \ {runner.held}
    /\ UNCHANGED <<asked, used, watching>>

MutLeavesOld ==
    /\ op.at = "placed" /\ runner' = [runner EXCEPT !.applied = op.want]
    /\ leave("done") /\ UNCHANGED <<world, watching>>

(* The new engine serves; the old one of a handover is stopped after it.      *)
Placed ==
    /\ op.at = "placed" /\ ask({op.old} \ {NoPid})
    /\ runner' = [runner EXCEPT !.applied = op.want]
    /\ leave("done") /\ UNCHANGED watching

(* A failed handover: the runner takes its old engine and path back, and      *)
(* repeats the spawn once if Windows failed to initialise the process.  The   *)
(* watcher of an old engine that died may have found another one in its place *)
(* and have gone.                                                             *)
restore_old(path) ==
    /\ runner' = [runner EXCEPT !.held = op.old, !.path = path]
    /\ unwatched' = IF op.old \in Alive \/ watchers[op.old] # "none" THEN unwatched
                    ELSE unwatched \cup {op.old}

HandoverFailed ==
    /\ op.at = "failed" /\ op.kind = "switch" /\ op.old # NoPid
    /\ IF op.why = "dll" /\ op.attempt = 0
       THEN \/ pipe.at # "handover" /\ leave("stale") /\ restore_old(op.path)
            \/ /\ op' = [op EXCEPT !.at = "dry", !.attempt = 1, !.why = "other"] /\ UNCHANGED worker
               /\ restore_old(op.want)
       ELSE leave("failed") /\ restore_old(op.path)
    /\ UNCHANGED <<world, watchers, told>>

(* _retry_fast_switch_after_failed_spawn_locked: a service failure with the   *)
(* exit code 34 is repeated, one that says 1058 is a system error.            *)
SwitchFailed ==
    /\ op.at = "failed" /\ op.kind = "switch" /\ op.old = NoPid
    /\ \/ /\ op.why \in {"dll", "conflict", "service"} /\ op.attempt = 0
          /\ op' = [op EXCEPT !.at = "recover", !.attempt = 1, !.why = "other"]
          /\ UNCHANGED worker
       \/ (op.why \in {"dll", "conflict"} => op.attempt > 0) /\ leave("failed")
    /\ UNCHANGED <<runner, world, watching>>

(* _maybe_retry_after_failed_spawn_locked with the hooks of winws2.  The      *)
(* repair of the driver may or may not apply.                                 *)
MutOneTooMany ==
    op.why \in {"service", "conflict"} /\ op.attempt <= WINDIVERT_CONFLICT_MAX_RETRIES

transient == op.why \in {"dll", "silent"} /\ op.attempt = 0
recoverable ==
    \/ op.why = "service" /\ op.attempt = 0
    \/ op.why = "conflict" /\ op.attempt < WINDIVERT_CONFLICT_MAX_RETRIES
repairable == op.why = "other" /\ op.attempt = 0

StartFailed ==
    /\ op.at = "failed" /\ spawning
    /\ \/ /\ transient \/ recoverable \/ repairable
          /\ op' = [op EXCEPT !.at = "compile", !.attempt = @ + 1, !.why = "other",
                              !.recover = ~transient]
          /\ UNCHANGED worker
       \/ ~transient /\ ~recoverable /\ leave("failed")
    /\ UNCHANGED <<runner, world, watching>>

(* stop: the held process, then every engine of this installation.            *)
StopRaises ==
    /\ op.at = "stopping" /\ is_running /\ ~may("stopping")
    /\ leave("failed") /\ UNCHANGED <<runner, world, watching>>

StopHeld ==
    /\ op.at = "stopping" /\ (is_running => may("stopping"))
    /\ runner' = [runner EXCEPT !.path = NoPreset, !.state = IF is_running THEN "stopping" ELSE @]
    /\ ask({runner.held} \cap Alive) /\ to("sweep") /\ UNCHANGED watching

StopRest ==
    /\ op.at = "sweep" /\ op.kind = "stop" /\ ask(Alive)
    /\ runner' = [runner EXCEPT !.held = NoPid, !.state = "idle"]
    /\ leave(IF runner.held \notin refused /\ Alive' = {} THEN "done" ELSE "failed")
    /\ UNCHANGED watching

-----------------------------------------------------------------------------
(* run_with_direct_network_access.  Without a running engine, or without its  *)
(* path, the request leaves everything alone.                                 *)
Pause ==
    /\ free /\ watchers_awake /\ is_running /\ runner.path # NoPreset
    /\ used.pauses < MaxPauses /\ used' = [used EXCEPT !.pauses = @ + 1]
    /\ begin("pause", "exiting", runner.path)
    /\ UNCHANGED <<engines, runner, refused, asked, watching, worker>>

PauseExits ==
    /\ op.at = "exiting" /\ stop_process_only
    /\ IF is_running /\ may("stopping") /\ engines'[runner.held] = NoPreset
       THEN to("open") ELSE to("closed")
    /\ UNCHANGED watching

PauseRefused == op.at = "closed" /\ leave("failed") /\ UNCHANGED <<runner, world, watching>>

DirectRequestEnds == op.at = "open" /\ to("compile") /\ UNCHANGED <<runner, world, watching>>

-----------------------------------------------------------------------------
(* The workers of the launch pipeline: PresetLaunchService, PresetSwitchWorker *)
(* and StopWorker.  What they read of the processes they read without the     *)
(* lock.                                                                      *)
Request ==
    /\ pipe = Rest /\ used.commands < MaxCommands
    /\ used' = [used EXCEPT !.commands = @ + 1]
    /\ \E want \in Presets :
         pipe' \in {[kind |-> "start", at |-> "probe", want |-> want],
                   [kind |-> "stop", at |-> "look", want |-> NoPreset]}
               \cup (IF phase = "running"
                     THEN {[kind |-> "switch", at |-> "switch", want |-> want]} ELSE {})
    /\ UNCHANGED <<engines, runner, op, outcome, phase, left, refused, asked, watching>>

move(at) == pipe' = [pipe EXCEPT !.at = at] /\ UNCHANGED <<outcome, phase, left>>
report(value) == pipe' = Rest /\ phase' = value /\ UNCHANGED outcome

(* _has_previous_process and _validate_preset_before_stop *)
Probe ==
    /\ pipe.at = "probe"
    /\ \/ Alive = {} /\ move("spawn")
       \/ Alive # {} /\ move("adopt")
       \/ Alive # {} /\ report("failed") /\ UNCHANGED left
    /\ UNCHANGED <<runner, op, world, watching>>

(* adopt_running_engine: a survivor that the runner does not hold.  A watcher *)
(* of it waits for another object, and will find that it is not the runner's. *)
Adopt ==
    /\ pipe.at = "adopt" /\ free /\ ~is_running
    /\ runner.applied = NoPreset \/ "adopt" \in Windows
    /\ \E p \in Alive : /\ runner' = [runner EXCEPT !.held = p, !.extra = Alive \ {p}]
                       /\ watchers' = [watchers EXCEPT ![p] = "none"]
                       /\ unwatched' = unwatched \cup {p}
    /\ move("handover") /\ UNCHANGED <<op, world, told>>

AdoptNone ==
    /\ pipe.at = "adopt" /\ free
    /\ move("prestop") /\ UNCHANGED <<runner, op, world, watching>>

StopExtras ==
    /\ pipe.at = "extras" /\ ask(runner.extra) /\ runner' = [runner EXCEPT !.extra = {}]
    /\ report("running") /\ left' = {} /\ UNCHANGED <<op, watching>>

(* StopWorker finds no process and has nothing to do (unless it is to clean   *)
(* up after another mode).                                                    *)
NothingToStop ==
    /\ pipe.at = "look" /\ Alive = {}
    /\ op.kind = "pause" => "pause" \in Windows
    /\ report("stopped") /\ UNCHANGED <<runner, op, left, world, watching>>

Look == pipe.at = "look" /\ move("stop") /\ UNCHANGED <<runner, op, world, watching>>

(* invalidate_strategy_runner: the watchers stay with the runner that stopped *)
(* its engine, and have nothing to tell.                                      *)
forget_runner ==
    IF pipe.kind = "stop"
    THEN runner' = FreshRunner /\ watchers' = [p \in Pids |-> "none"]
    ELSE UNCHANGED <<runner, watchers>>

MutReportsSuccess ==
    /\ pipe.at = "residual" /\ ask(Alive)
    /\ IF pipe.kind = "start" THEN move("spawn") ELSE report("stopped") /\ UNCHANGED left
    /\ forget_runner /\ UNCHANGED <<op, told, unwatched>>

(* shutdown_runtime_sync after the runner: a stop forgets the runner, what is *)
(* left is stopped without the lock, and a stop reports what still runs.      *)
StopResidual ==
    /\ pipe.at = "residual" /\ ask(Alive)
    /\ IF pipe.kind = "start" THEN move("spawn")
       ELSE report(IF Alive' = {} THEN "stopped" ELSE "running") /\ UNCHANGED left
    /\ forget_runner /\ UNCHANGED <<op, told, unwatched>>

-----------------------------------------------------------------------------
(* _on_watched_process_exit: whose process it was, then the runner's state.   *)
MutUnlessRunning == runner.state # "running"
expected == runner.state \in {"stopping", "idle"}

Watch(p) ==
    /\ watchers[p] = "waiting" /\ p \notin Alive
    /\ watchers' = [watchers EXCEPT ![p] = IF p = runner.held THEN "matched" ELSE "none"]
    /\ UNCHANGED <<runner, op, world, told, unwatched, worker>>

WatchMatched(p) ==
    /\ watchers[p] = "matched" /\ watchers' = [watchers EXCEPT ![p] = "none"]
    /\ told' = IF expected THEN told ELSE told \cup {p}
    /\ UNCHANGED <<runner, op, world, unwatched, worker>>

(* An engine exits by itself; one that was asked to may do so late.           *)
Die(p) ==
    /\ p \in Alive /\ engines' = [engines EXCEPT ![p] = NoPreset]
    /\ IF p \in refused THEN UNCHANGED used
       ELSE used.deaths < MaxDeaths /\ used' = [used EXCEPT !.deaths = @ + 1]
    /\ refused' = refused \ {p}
    /\ op' = [op EXCEPT !.died = @ \/ (~free /\ p = server /\ p \notin refused)]
    /\ UNCHANGED <<runner, asked, watching, worker>>

-----------------------------------------------------------------------------
Starting ==
    \/ CompileFails \/ CompileStart \/ SkipSwitch \/ CompileSwitch \/ Clean \/ SweepBeforeSpawn
    \/ Recover \/ Ready \/ DryRun \/ Popen \/ PopenRaises \/ Confirm \/ ExitsInStart
    \/ Placed \/ HandoverFailed \/ SwitchFailed \/ StartFailed
Stopping == StopRaises \/ StopHeld \/ StopRest
Pausing == PauseExits \/ PauseRefused \/ DirectRequestEnds
Operation == Starting \/ Stopping \/ Pausing

Working == Begin \/ Probe \/ Adopt \/ AdoptNone \/ StopExtras \/ NothingToStop \/ Look \/ StopResidual
Watching == \E p \in Pids : Watch(p) \/ WatchMatched(p)
Environment == Request \/ Pause \/ \E p \in Pids : Die(p)

Next == Operation \/ Working \/ Watching \/ Environment
Spec == Init /\ [][Next]_vars

(* The threads run, every wait of an operation is bounded, and a direct       *)
(* request ends with its network timeout.                                     *)
LiveSpec == Spec /\ WF_vars(Operation)

-----------------------------------------------------------------------------
(* Once a stop has been reported, no engine of this installation is left and  *)
(* nobody brings one back: not a premium request that had it paused, not a    *)
(* retry, not a handover (control_workers.py StopWorker).                     *)
StopIsFinal == phase = "stopped" /\ pipe = Rest /\ free => Alive = {}

(* No operation leaves an engine behind that the runner does not hold, on any *)
(* path of failure, retry and restoration: only one that outlived its stop,   *)
(* or one of an earlier run that no start has dealt with.                     *)
NothingBehind == free => Alive \ (refused \cup left) \subseteq {runner.held}

(* The exit of an engine is reported as unexpected only if nobody asked it to *)
(* exit (_on_watched_process_exit).                                           *)
OnlyUnasked == told \cap asked = {}

(* In whatever state an operation leaves the runner, the death of the engine  *)
(* it holds has been reported or its watcher is about to report it.  Two      *)
(* deaths are told to nobody: that of an adopted engine, which has no watcher *)
(* and is left to the monitor that polls the processes, and that of the old   *)
(* engine of a handover that then fails, if its watcher has met the new one   *)
(* in its place (runner_base.py:173) before the failure takes the dead back.  *)
DeathTold ==
    free /\ runner.held \in Pids \ (Alive \cup unwatched) =>
        watchers[runner.held] # "none" \/ runner.held \in told

(* What is reported of the exits of engines is right, and complete but for    *)
(* those two.                                                                 *)
AlarmsRight == OnlyUnasked /\ DeathTold

(* The runner keeps the promise of EngineSlot. *)
Slot == INSTANCE EngineSlot WITH
    engine <- serving,
    job <- [kind |-> op.kind, want |-> op.want, before |-> op.before, died |-> op.died]
ImplementsSlot == Slot!Spec
=============================================================================
