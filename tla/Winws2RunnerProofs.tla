-------------------------- MODULE Winws2RunnerProofs --------------------------
(* That the runner of winws2 leaves no engine behind, that a stop is final,   *)
(* that alarms are right, and that every step of it is a step of EngineSlot   *)
(* or none, for any processes, presets and numbers of commands, pauses,       *)
(* deaths and engines that outlive their stop.                                *)
EXTENDS Winws2Runner, FiniteSetTheorems, TLAPS

-----------------------------------------------------------------------------
(* The inductive invariant *)

Places ==
    [none   |-> {"done"},
     switch |-> {"compile", "recover", "ready", "dry", "popen", "confirm", "placed", "failed"},
     start  |-> {"compile", "clean", "sweep", "recover", "ready", "dry", "popen", "confirm",
                 "placed", "failed"},
     stop   |-> {"stopping", "sweep"},
     pause  |-> {"exiting", "closed", "open", "compile", "clean", "sweep", "recover", "ready",
                 "dry", "popen", "confirm", "placed", "failed"}]

Seats ==
    [none   |-> {"rest"},
     switch |-> {"switch"},
     start  |-> {"probe", "adopt", "handover", "extras", "prestop", "residual", "spawn"},
     stop   |-> {"look", "stop", "residual"}]

\* Which worker asks for which operation, and where each of them can be.
OpInv ==
    /\ free => op = NoOp
    /\ op.at \in Places[op.kind]
    /\ op.kind = "switch" => pipe.at \in {"handover", "switch"}
    /\ op.kind = "start" => pipe.at = "spawn"
    /\ op.kind = "stop" => pipe.at \in {"prestop", "stop"}
    /\ op.kind \in {"switch", "start", "pause"} => op.want \in Presets
    /\ op.recover => spawning /\ op.at = "compile"

PipeInv ==
    /\ pipe.kind = "none" => pipe = Rest
    /\ pipe.at \in Seats[pipe.kind]
    /\ pipe.kind \in {"start", "switch"} => pipe.want \in Presets
    /\ pipe.kind = "switch" => phase = "running"

harmless == free \/ (op.kind = "pause" /\ op.at \in {"exiting", "closed"})

\* A pause that slips in behind a failed stop cannot get at the engine.
ResidualInv ==
    pipe.at = "residual" => runner.state = "idle" /\ harmless

\* The old engine of a handover, and the new one.
HandoverInv ==
    /\ op.old # NoPid => op.kind = "switch" /\ op.at \in {"dry", "popen", "confirm", "placed", "failed"}
    /\ op.old # NoPid /\ op.at \in {"dry", "popen"} => runner.held = op.old
    /\ op.old # NoPid /\ op.at = "failed" => runner.held \in {NoPid, op.old}
    /\ op.kind = "switch" /\ op.old = NoPid /\ op.at \in {"recover", "ready", "dry", "popen", "failed"}
         => ~is_running
    /\ runner.state = "starting" => op.at = "confirm"
    /\ op.at \in {"confirm", "placed"} =>
         /\ runner.held \in Pids \ refused /\ runner.held # op.old
         /\ is_running => engines[runner.held] = op.want
    /\ runner.held \notin runner.extra /\ op.old \notin runner.extra

spawned == {"confirm", "placed"}
swept == {"ready", "dry", "popen", "failed"}
past_clean == op.recover \/ op.at \in {"sweep", "recover"} \cup swept

\* Every engine is held, was asked to exit, or is left of an earlier run.
EngineInv ==
    /\ Alive \subseteq refused \cup left \cup {runner.held, op.old}
    /\ pipe.at \in {"handover", "extras"} =>
         Alive \subseteq refused \cup runner.extra \cup {runner.held, op.old}
    /\ spawning /\ op.at \in swept => Alive \subseteq refused
    /\ spawning /\ op.at \in spawned => Alive \subseteq refused \cup {runner.held}

Inv == TypeOK /\ OpInv /\ PipeInv /\ ResidualInv /\ HandoverInv /\ EngineInv

\* What a published stop rests on.
StopInv ==
    phase = "stopped" /\ pipe = Rest => Alive = {} /\ harmless

\* The engine held without a watcher is an adopted one, of no preset.
AppliedInv ==
    /\ runner.state = "idle" /\ is_running => runner.applied = NoPreset
    /\ spawning /\ is_running /\ past_clean
         => runner.applied = NoPreset
    /\ is_running /\ runner.applied # NoPreset /\ op.at \notin spawned
           /\ ~(op.kind = "stop" /\ op.at = "sweep")
         => engines[runner.held] = runner.applied /\ runner.held \notin refused
    /\ runner.state = "running" => runner.applied # NoPreset \/ op.at = "placed"
    /\ op.at = "placed" => runner.state = "running"
    /\ op.old # NoPid /\ op.at = "failed" /\ runner.held = NoPid
         => runner.state = "failed" /\ runner.applied = NoPreset

\* What the traffic goes through during each operation.
ServingInv ==
    /\ op.kind = "switch" /\ op.at # "placed" => serving = op.before \/ op.died
    /\ op.at = "placed" => serving = op.want \/ op.died
    /\ op.kind \in {"start", "stop", "pause"} /\ op.at # "placed" => serving \in {NoPreset, op.before}
    /\ op.kind = "stop" /\ op.at = "sweep" => serving = NoPreset

\* A watcher that would tell of an engine that was asked to exit finds the
\* runner in a state in which it is expected.
WatchInv ==
    /\ told \cap (asked \cup Alive) = {}
    /\ \A p \in Pids : watchers[p] = "matched" =>
         /\ p \notin Alive
         /\ p \in asked => \/ op.kind = "stop" /\ op.at = "sweep" /\ expected
                           \/ free /\ runner.state = "idle"
    /\ \A p \in Pids : p \in asked /\ watchers[p] = "waiting" =>
         /\ p = runner.held => op.kind = "stop" /\ op.at = "sweep" /\ runner.state = "stopping"
         /\ p # op.old
    /\ op.at = "confirm" => runner.held \notin asked
    /\ runner.held \in Pids /\ runner.state = "idle" /\ is_running => watchers[runner.held] = "none"
    /\ spawning /\ is_running /\ past_clean
         => watchers[runner.held] = "none"

\* Whose death will be told of: that of the engine held, unless it has yet to
\* confirm its start, is being stopped or is one of the unwatched; the old one
\* of a handover keeps its watcher while it lives.
being_stopped == op.kind = "stop" /\ op.at = "sweep"

ToldInv ==
    /\ runner.state = "idle" => {runner.held, op.old} \ {NoPid} \subseteq unwatched
    /\ runner.state = "stopping" => being_stopped
    /\ runner.held \in Pids \ unwatched /\ op.at # "confirm" /\ ~being_stopped
         => watchers[runner.held] # "none" \/ runner.held \in told
    /\ op.old \in Alive \ unwatched => watchers[op.old] = "waiting"
    /\ \A p \in Alive : watchers[p] # "matched" /\ p \notin told

EngineTypes ==
    /\ engines \in [Pids -> Preset] /\ watchers \in [Pids -> {"none", "waiting", "matched"}]
    /\ refused \subseteq Alive /\ used \in Counters

WorkerTypes ==
    /\ outcome \in Outcomes /\ pipe \in Workers /\ phase \in {"stopped", "running", "failed"}
    /\ asked \subseteq Pids /\ told \subseteq Pids /\ unwatched \subseteq Pids /\ left \subseteq Pids

-----------------------------------------------------------------------------
(* The operations *)

\* What is asked to exit has exited or is refused; nothing else is touched.
LEMMA AskEffect ==
    ASSUME TypeOK, NEW group \in SUBSET Pids, ask(group)
    PROVE  /\ engines' \in [Pids -> Preset]
           /\ refused' \subseteq Alive' /\ Alive' \subseteq Alive
           /\ \A p \in Pids : p \notin group =>
                engines'[p] = engines[p] /\ (p \in refused' <=> p \in refused)
           /\ \A p \in Alive' : engines'[p] = engines[p] /\ (p \in group \cup refused => p \in refused')
           /\ asked' = asked \cup (group \cap Alive) /\ asked' \subseteq Pids
           /\ used' \in Counters
  <1>1. PICK spared \in SUBSET (group \cap Alive) :
            /\ used.refusals + Cardinality(spared \ refused) <= MaxRefusals
            /\ engines' = [p \in Pids |-> IF p \in group \ spared THEN NoPreset ELSE engines[p]]
            /\ refused' = (refused \ group) \cup spared
            /\ asked' = asked \cup (group \cap Alive)
            /\ used' = [used EXCEPT !.refusals = @ + Cardinality(spared \ refused)]
    BY DEF ask
  <1>2. Cardinality(spared \ refused) \in Nat
    <2>1. spared \ refused \in SUBSET Pids
      BY DEF Alive
    <2> QED
      BY <2>1, RunnerAssumption, FS_Subset, FS_CardinalityType
  <1>3. used' \in Counters
    BY <1>1, <1>2, RunnerAssumption DEF TypeOK, Counters
  <1>4. engines' \in [Pids -> Preset]
    BY <1>1 DEF TypeOK, Preset
  <1>5. refused' \subseteq Alive' /\ Alive' \subseteq Alive
    BY <1>1 DEF TypeOK, Alive
  <1>6. \A p \in Pids : p \notin group => engines'[p] = engines[p] /\ (p \in refused' <=> p \in refused)
    BY <1>1
  <1>7. \A p \in Alive' : engines'[p] = engines[p] /\ (p \in group \cup refused => p \in refused')
    BY <1>1 DEF Alive
  <1>8. asked' = asked \cup (group \cap Alive) /\ asked' \subseteq Pids
    BY <1>1 DEF TypeOK, Alive
  <1> QED
    BY <1>3, <1>4, <1>5, <1>6, <1>7, <1>8

\* The end of an operation, as the worker that asked for it sees it.
LEMMA LeaveEffect ==
    ASSUME TypeOK, OpInv, PipeInv, ~free, NEW is \in {"done", "stale", "failed"}, leave(is)
    PROVE  /\ op' = NoOp /\ free'
           /\ outcome' \in Outcomes
           /\ outcome' = [kind |-> op.kind, is |-> is]
           /\ pipe' \in Workers
           /\ phase' \in {"stopped", "running", "failed"} /\ left' \subseteq left
           /\ OpInv' /\ PipeInv'
           /\ left' # left => op.kind = "start" /\ is = "done"
           /\ pipe'.at \in {"handover", "extras"} => pipe.at \in {"handover", "extras"}
           /\ pipe'.at = "residual" => op.kind = "stop" \/ (op.kind = "pause" /\ pipe.at = "residual")
           /\ phase' = "stopped" /\ pipe' = Rest =>
                op.kind = "pause" /\ phase = "stopped" /\ pipe = Rest
  <1> QED
    BY DEF leave, TypeOK, Outcomes, Workers, Operations, Kinds, Spots, OpInv, PipeInv, free, NoOp,
       Rest, Places, Seats, Preset

\* The constants of the runner have their types.
LEMMA Typed == NoOp \in Operations /\ Rest \in Workers /\ FreshRunner \in Runners
  BY RunnerAssumption DEF NoOp, Rest, FreshRunner, Operations, Kinds, Spots, Workers, Runners,
     Pid, Preset, Failures, States, ALLOWED, WINDIVERT_CONFLICT_MAX_RETRIES

\* An operation that begins is one of the operations ...
LEMMA OpNew ==
    ASSUME NEW kind \in Kinds, NEW at \in Spots, NEW want \in Preset, TypeOK, begin(kind, at, want)
    PROVE  op' \in Operations
  <1>1. serving \in Preset
    BY DEF serving, TypeOK, Alive, Preset
  <1>2. QED
    BY <1>1, Typed DEF begin, Operations

\* ... and stays one when a preset cannot be used,
LEMMA OpFails ==
    ASSUME op \in Operations, NEW why \in Failures
    PROVE  [op EXCEPT !.at = "failed", !.why = why] \in Operations
  BY DEF Operations, Spots

\* ... when its preset is compiled,
LEMMA OpCompiled ==
    ASSUME op \in Operations, NEW at \in Spots
    PROVE  [op EXCEPT !.at = at, !.recover = FALSE] \in Operations
  BY DEF Operations

\* ... when it tries once more,
LEMMA OpAgain ==
    ASSUME op \in Operations, NEW at \in Spots, NEW n \in 0..WINDIVERT_CONFLICT_MAX_RETRIES
    PROVE  [op EXCEPT !.at = at, !.attempt = n, !.why = "other"] \in Operations
  BY DEF Operations, Failures

\* ... and when the old engine is started again.
LEMMA OpRestarts ==
    ASSUME op \in Operations, NEW n \in 0..WINDIVERT_CONFLICT_MAX_RETRIES, NEW recover \in BOOLEAN
    PROVE  [op EXCEPT !.at = "compile", !.attempt = n, !.why = "other",
    !.recover = recover] \in Operations
  BY DEF Operations, Failures, Spots

-----------------------------------------------------------------------------
(* The steps keep the invariant: what every operation does first *)

\* switch_preset_file_fast, start_from_preset_file or stop takes the lock.
LEMMA BeginKeeps == ASSUME Inv, Begin PROVE Inv'
  <1> USE RunnerAssumption, Typed DEF Inv
  <1>1. CASE pipe.at \in {"handover", "switch"} /\ begin("switch", "compile", pipe.want)
    <2>1. op' \in Operations
      BY <1>1, OpNew DEF Kinds, Spots, TypeOK, Workers
    <2>2. runner' \in Runners
      BY DEF Begin, TypeOK
    <2>3. EngineTypes'
      BY DEF Begin, begin, watching, world, free, Alive, spawning, is_running, TypeOK, Runners,
         Operations, Workers, OpInv, PipeInv, EngineTypes, WorkerTypes
    <2>4. WorkerTypes'
      BY DEF Begin, begin, watching, world, worker, to, NoOp, TypeOK, Runners, EngineTypes,
         WorkerTypes
    <2>5. TypeOK'
      BY <2>1, <2>2, <2>3, <2>4 DEF TypeOK, EngineTypes, WorkerTypes
    <2>6. OpInv' /\ PipeInv'
      BY <1>1 DEF Begin, begin, watching, world, worker, to, NoOp, Rest, free, Alive, Places,
         Seats, swept, spawned, FreshRunner, OpInv, PipeInv, TypeOK, Kinds, Workers, HandoverInv,
         Preset
    <2>7. ResidualInv'
      BY <1>1 DEF Begin, worker, to, ResidualInv
    <2>8. HandoverInv'
      BY <1>1 DEF Begin, begin, to, NoOp, OpInv, HandoverInv
    <2>9. EngineInv'
      BY <1>1 DEF Begin, begin, watching, world, worker, to, Alive, spawning, is_running, OpInv,
         EngineInv
    <2> QED
      BY <2>5, <2>6, <2>7, <2>8, <2>9 DEF Inv
  <1>2. CASE pipe.at = "spawn" /\ begin("start", "compile", pipe.want)
    <2>1. op' \in Operations
      BY <1>2, OpNew DEF Kinds, Spots, TypeOK, Workers
    <2>2. runner' \in Runners
      BY DEF Begin, TypeOK
    <2>3. EngineTypes'
      BY DEF Begin, begin, watching, world, free, Alive, spawning, is_running, TypeOK, Runners,
         Operations, Workers, OpInv, PipeInv, EngineTypes, WorkerTypes
    <2>4. WorkerTypes'
      BY DEF Begin, begin, watching, world, worker, to, NoOp, TypeOK, Runners, EngineTypes,
         WorkerTypes
    <2>5. TypeOK'
      BY <2>1, <2>2, <2>3, <2>4 DEF TypeOK, EngineTypes, WorkerTypes
    <2>6. OpInv' /\ PipeInv'
      BY <1>2 DEF Begin, begin, watching, world, worker, to, NoOp, Rest, free, Alive, Places,
         Seats, swept, spawned, FreshRunner, OpInv, PipeInv, TypeOK, Kinds, Workers, HandoverInv,
         Preset
    <2>7. ResidualInv'
      BY <1>2 DEF Begin, worker, to, ResidualInv
    <2>8. HandoverInv'
      BY <1>2 DEF Begin, begin, to, NoOp, OpInv, HandoverInv
    <2>9. EngineInv'
      BY <1>2 DEF Begin, begin, watching, world, worker, to, Alive, spawning, is_running, swept,
         spawned, FreshRunner, OpInv, EngineInv
    <2> QED
      BY <2>5, <2>6, <2>7, <2>8, <2>9 DEF Inv
  <1>3. CASE pipe.at \in {"prestop", "stop"} /\ begin("stop", "stopping", NoPreset)
    <2>1. op' \in Operations
      BY <1>3, OpNew DEF Kinds, Spots, Preset
    <2>2. runner' \in Runners
      BY DEF Begin, TypeOK
    <2>3. EngineTypes'
      BY DEF Begin, begin, watching, world, free, Alive, spawning, is_running, TypeOK, Runners,
         Operations, Workers, OpInv, PipeInv, EngineTypes, WorkerTypes
    <2>4. WorkerTypes'
      BY DEF Begin, begin, watching, world, worker, to, NoOp, TypeOK, Runners, EngineTypes,
         WorkerTypes
    <2>5. TypeOK'
      BY <2>1, <2>2, <2>3, <2>4 DEF TypeOK, EngineTypes, WorkerTypes
    <2>6. OpInv' /\ PipeInv'
      BY <1>3 DEF Begin, begin, watching, world, worker, to, NoOp, Rest, free, harmless, Places,
         Seats, OpInv, PipeInv
    <2>7. ResidualInv'
      BY <1>3 DEF Begin, worker, to, ResidualInv
    <2>8. HandoverInv'
      BY <1>3 DEF Begin, begin, to, NoOp, OpInv, HandoverInv
    <2>9. EngineInv'
      BY <1>3 DEF Begin, begin, watching, world, worker, to, Alive, spawning, is_running, OpInv,
         EngineInv
    <2> QED
      BY <2>5, <2>6, <2>7, <2>8, <2>9 DEF Inv
  <1> QED
    BY <1>1, <1>2, <1>3 DEF Begin

\* The preset cannot be compiled; a handover ends with the engine it had.
LEMMA CompileFailsKeeps == ASSUME Inv, CompileFails PROVE Inv'
  <1> USE RunnerAssumption, Typed DEF Inv
  <1>1. ~free /\ leave("failed")
    BY DEF CompileFails, OpInv, free, NoOp
  <1>2. op' \in Operations
    BY LeaveEffect DEF CompileFails, watching, world, free, Alive, spawning, is_running,
       harmless, Places, Seats, swept, spawned, FreshRunner, Kinds, Spots, TypeOK, Runners,
       Operations, Workers, Counters, Outcomes, Pid, Preset, Failures, States, ALLOWED,
       WINDIVERT_CONFLICT_MAX_RETRIES, serving, server, OpInv, PipeInv
  <1>3. runner' \in Runners
    BY <1>1, LeaveEffect DEF CompileFails, Kinds, Spots, TypeOK, Runners, Failures, States,
       ALLOWED, WINDIVERT_CONFLICT_MAX_RETRIES
  <1>4. EngineTypes'
    BY LeaveEffect DEF CompileFails, watching, world, free, Alive, spawning, is_running, TypeOK,
       Runners, Operations, Workers, OpInv, PipeInv, EngineTypes, WorkerTypes
  <1>5. WorkerTypes'
    BY LeaveEffect DEF CompileFails, watching, world, worker, to, NoOp, TypeOK, Runners, OpInv,
       PipeInv, EngineTypes, WorkerTypes
  <1>6. TypeOK'
    BY <1>2, <1>3, <1>4, <1>5 DEF TypeOK, EngineTypes, WorkerTypes
  <1>7. OpInv' /\ PipeInv'
    BY <1>1, LeaveEffect
  <1>8. ResidualInv'
    BY <1>1, LeaveEffect DEF CompileFails, Alive, spawning, is_running, harmless, Places,
       FreshRunner, OpInv, ResidualInv
  <1>9. HandoverInv'
    BY <1>1, LeaveEffect DEF CompileFails, to, NoOp, HandoverInv
  <1>10. EngineInv'
    BY LeaveEffect DEF CompileFails, watching, world, worker, to, NoOp, Rest, free, Alive,
       spawning, is_running, OpInv, HandoverInv, EngineInv
  <1> QED
    BY <1>6, <1>7, <1>8, <1>9, <1>10 DEF Inv

\* A start has its preset compiled.
LEMMA CompileStartKeeps == ASSUME Inv, CompileStart PROVE Inv'
  <1> USE RunnerAssumption, Typed DEF Inv
  <1>1. op' \in Operations
    BY OpCompiled DEF CompileStart, Spots, TypeOK
  <1>2. runner' \in Runners
    BY DEF CompileStart, TypeOK
  <1>3. EngineTypes'
    BY DEF CompileStart, watching, world, free, Alive, spawning, is_running, TypeOK, Runners,
       EngineTypes, WorkerTypes
  <1>4. WorkerTypes'
    BY DEF CompileStart, watching, world, worker, to, NoOp, Rest, TypeOK, Runners, EngineTypes,
       WorkerTypes
  <1>5. TypeOK'
    BY <1>1, <1>2, <1>3, <1>4 DEF TypeOK, EngineTypes, WorkerTypes
  <1>6. OpInv' /\ PipeInv'
    BY DEF CompileStart, watching, world, worker, to, NoOp, Rest, free, Alive, spawning,
       is_running, harmless, Places, Seats, swept, spawned, FreshRunner, OpInv, PipeInv
  <1>7. ResidualInv'
    BY DEF CompileStart, watching, world, worker, free, Alive, spawning, is_running, harmless,
       Places, ResidualInv
  <1>8. HandoverInv'
    BY DEF CompileStart, free, spawning, HandoverInv
  <1>9. EngineInv'
    BY DEF CompileStart, watching, world, worker, to, NoOp, Rest, free, Alive, Places, Seats,
       swept, spawned, FreshRunner, OpInv, EngineInv
  <1> QED
    BY <1>5, <1>6, <1>7, <1>8, <1>9 DEF Inv

\* The engine runs that very preset already.
LEMMA SkipSwitchKeeps == ASSUME Inv, SkipSwitch PROVE Inv'
  <1> USE RunnerAssumption, Typed DEF Inv
  <1>1. CASE leave("stale")
    <2>1. ~free /\ leave("stale")
      BY <1>1 DEF SkipSwitch, free
    <2>2. op' \in Operations
      BY <1>1, <2>1, LeaveEffect DEF Alive
    <2>3. runner' \in Runners
      BY DEF SkipSwitch, same, Spots, TypeOK
    <2>4. EngineTypes'
      BY DEF SkipSwitch, same, watching, world, free, Alive, spawning, is_running, TypeOK,
         Runners, Operations, Workers, OpInv, PipeInv, EngineTypes, WorkerTypes
    <2>5. WorkerTypes'
      BY LeaveEffect DEF SkipSwitch, same, watching, world, worker, to, NoOp, TypeOK, Runners,
         Operations, Workers, OpInv, PipeInv, EngineTypes, WorkerTypes
    <2>6. TypeOK'
      BY <2>2, <2>3, <2>4, <2>5 DEF TypeOK, EngineTypes, WorkerTypes
    <2>7. OpInv' /\ PipeInv'
      BY <2>1, LeaveEffect
    <2>8. ResidualInv'
      BY <2>1, LeaveEffect DEF SkipSwitch, same, ResidualInv
    <2>9. HandoverInv'
      BY <2>1, LeaveEffect DEF SkipSwitch, worker, to, NoOp, HandoverInv
    <2>10. EngineInv'
      BY <1>1, <2>1, LeaveEffect DEF SkipSwitch, same, watching, world, worker, to, NoOp, Rest,
         free, Alive, spawning, is_running, OpInv, HandoverInv, EngineInv
    <2> QED
      BY <2>6, <2>7, <2>8, <2>9, <2>10 DEF Inv
  <1>2. CASE leave("done")
    <2>1. ~free /\ leave("done")
      BY <1>2 DEF SkipSwitch, free
    <2>2. op' \in Operations
      BY <1>2, <2>1, LeaveEffect DEF Alive
    <2>3. runner' \in Runners
      BY DEF SkipSwitch, same, Spots, TypeOK
    <2>4. EngineTypes'
      BY DEF SkipSwitch, same, watching, world, free, Alive, spawning, is_running, TypeOK,
         Runners, Operations, Workers, OpInv, PipeInv, EngineTypes, WorkerTypes
    <2>5. WorkerTypes'
      BY LeaveEffect DEF SkipSwitch, same, watching, world, worker, to, NoOp, TypeOK, Runners,
         Operations, Workers, OpInv, PipeInv, EngineTypes, WorkerTypes
    <2>6. TypeOK'
      BY <2>2, <2>3, <2>4, <2>5 DEF TypeOK, EngineTypes, WorkerTypes
    <2>7. OpInv' /\ PipeInv'
      BY <2>1, LeaveEffect
    <2>8. ResidualInv'
      BY <2>1, LeaveEffect DEF SkipSwitch, same, ResidualInv
    <2>9. HandoverInv'
      BY <2>1, LeaveEffect DEF SkipSwitch, worker, to, NoOp, HandoverInv
    <2>10. EngineInv'
      BY <1>2, <2>1, LeaveEffect DEF SkipSwitch, same, watching, world, worker, to, NoOp, Rest,
         free, Alive, spawning, is_running, OpInv, HandoverInv, EngineInv
    <2> QED
      BY <2>6, <2>7, <2>8, <2>9, <2>10 DEF Inv
  <1> QED
    BY <1>1, <1>2 DEF SkipSwitch

\* A switch has its preset compiled and holds the old engine.
LEMMA CompileSwitchKeeps == ASSUME Inv, CompileSwitch PROVE Inv'
  <1> USE RunnerAssumption, Typed DEF Inv
  <1>1. op' \in Operations
    BY DEF CompileSwitch, same, watching, world, worker, to, NoOp, Rest, free, Alive, spawning,
       is_running, harmless, Places, Seats, swept, spawned, FreshRunner, Kinds, Spots, TypeOK,
       Runners, Operations, Workers, Counters, Outcomes, Pid, Preset, Failures, States, ALLOWED,
       WINDIVERT_CONFLICT_MAX_RETRIES, serving, server, OpInv, PipeInv
  <1>2. runner' \in Runners
    BY DEF CompileSwitch, same, TypeOK, Runners, Operations
  <1>3. EngineTypes'
    BY DEF CompileSwitch, same, watching, world, free, Alive, spawning, is_running, TypeOK,
       Runners, Operations, Workers, EngineTypes, WorkerTypes
  <1>4. WorkerTypes'
    BY DEF CompileSwitch, same, watching, world, worker, to, NoOp, TypeOK, Runners, EngineTypes,
       WorkerTypes
  <1>5. TypeOK'
    BY <1>1, <1>2, <1>3, <1>4 DEF TypeOK, EngineTypes, WorkerTypes
  <1>6. OpInv' /\ PipeInv'
    BY DEF CompileSwitch, same, watching, world, worker, to, NoOp, Rest, free, Alive, spawning,
       is_running, harmless, Places, OpInv, PipeInv
  <1>7. ResidualInv'
    BY DEF CompileSwitch, worker, to, NoOp, FreshRunner, OpInv, ResidualInv
  <1>8. HandoverInv'
    BY DEF CompileSwitch, same, watching, world, worker, free, Alive, spawning, is_running,
       harmless, Places, HandoverInv
  <1>9. EngineInv'
    BY DEF CompileSwitch, same, watching, world, worker, to, Alive, spawning, HandoverInv,
       EngineInv
  <1> QED
    BY <1>5, <1>6, <1>7, <1>8, <1>9 DEF Inv

-----------------------------------------------------------------------------
(* ... what a start does before it has an engine *)

\* The engine held is asked to exit before another is started.
LEMMA CleanKeeps == ASSUME Inv, Clean PROVE Inv'
  <1> USE RunnerAssumption, Typed DEF Inv
  <1>1. CASE /\ is_running /\ may("stopping") /\ ask({runner.held})
             /\ runner' = [runner EXCEPT !.held = NoPid, !.state = "idle"]
    <2>1. {runner.held} \in SUBSET Pids /\ ask({runner.held})
      BY <1>1 DEF is_running, Alive
    <2>2. op' \in Operations
      BY AskEffect DEF Clean, worker, to, Spots, TypeOK, Runners, Operations
    <2>3. runner' \in Runners
      BY <1>1, <2>1, AskEffect DEF Clean, watching, world, worker, to, NoOp, Rest, free, Alive,
         spawning, is_running, harmless, Places, Seats, swept, spawned, FreshRunner, Kinds,
         Spots, TypeOK, Runners, Operations, Workers, Counters, Outcomes, Pid, Preset, Failures,
         States, ALLOWED, WINDIVERT_CONFLICT_MAX_RETRIES, OpInv, PipeInv
    <2>4. EngineTypes'
      BY <2>1, AskEffect DEF Clean, watching, TypeOK, Runners, Operations, Workers, EngineTypes,
         WorkerTypes
    <2>5. WorkerTypes'
      BY <2>1, AskEffect DEF Clean, watching, world, worker, to, NoOp, TypeOK, Runners,
         Operations, Workers, EngineTypes, WorkerTypes
    <2>6. TypeOK'
      BY <2>2, <2>3, <2>4, <2>5 DEF TypeOK, EngineTypes, WorkerTypes
    <2>7. OpInv' /\ PipeInv'
      BY DEF Clean, watching, world, worker, to, NoOp, Rest, free, Alive, Places, Seats, swept,
         spawned, FreshRunner, OpInv, PipeInv, TypeOK, Kinds, Spots, Runners, Operations
    <2>8. ResidualInv'
      BY <1>1, <2>1, AskEffect DEF Clean, watching, world, worker, to, NoOp, Rest, free, Alive,
         harmless, Places, ResidualInv, TypeOK
    <2>9. HandoverInv'
      BY <1>1, <2>1, AskEffect DEF Clean, watching, world, worker, to, HandoverInv
    <2>10. EngineInv'
      BY <1>1, <2>1, AskEffect DEF Clean, watching, world, worker, to, NoOp, Seats, swept,
         spawned, EngineInv
    <2> QED
      BY <2>6, <2>7, <2>8, <2>9, <2>10 DEF Inv
  <1>2. CASE UNCHANGED <<runner, world>>
    <2>1. TypeOK'
      BY <1>2 DEF Clean, watching, world, worker, to, NoOp, Alive, spawning, Spots, TypeOK,
         Runners, Operations
    <2>2. OpInv' /\ PipeInv'
      BY DEF Clean, watching, world, worker, to, NoOp, Rest, free, Alive, Places, Seats, swept,
         spawned, FreshRunner, OpInv, PipeInv, TypeOK, Kinds, Spots, Runners, Operations
    <2>3. ResidualInv'
      BY <1>2 DEF Clean, watching, world, worker, to, NoOp, Rest, free, Alive, spawning,
         is_running, harmless, Places, ResidualInv
    <2>4. HandoverInv'
      BY <1>2 DEF Clean, to, HandoverInv
    <2>5. EngineInv'
      BY <1>2 DEF Clean, watching, world, worker, to, Alive, spawning, is_running, swept,
         spawned, EngineInv
    <2> QED
      BY <2>1, <2>2, <2>3, <2>4, <2>5 DEF Inv
  <1> QED
    BY <1>1, <1>2 DEF Clean, stop_process_only

\* Engines that nobody holds are asked to exit too.
LEMMA SweepBeforeSpawnKeeps == ASSUME Inv, SweepBeforeSpawn PROVE Inv'
  <1> USE RunnerAssumption, Typed DEF Inv
  <1>1. Alive \in SUBSET Pids /\ ask(Alive)
    BY DEF SweepBeforeSpawn, Alive
  <1>2. TypeOK'
    BY <1>1, AskEffect DEF SweepBeforeSpawn, watching, world, worker, to, Spots, TypeOK, Runners,
       Operations
  <1>3. OpInv' /\ PipeInv'
    BY AskEffect DEF SweepBeforeSpawn, watching, world, worker, to, NoOp, Rest, free, Alive,
       spawning, is_running, harmless, Places, Seats, OpInv, PipeInv
  <1>4. ResidualInv'
    BY <1>1, AskEffect DEF SweepBeforeSpawn, watching, world, worker, to, NoOp, Rest, free,
       Alive, spawning, is_running, harmless, Places, ResidualInv
  <1>5. HandoverInv'
    BY <1>1, AskEffect DEF SweepBeforeSpawn, to, NoOp, Rest, free, Alive, spawning, HandoverInv
  <1>6. EngineInv'
    BY <1>1, AskEffect DEF EngineInv
  <1> QED
    BY <1>2, <1>3, <1>4, <1>5, <1>6 DEF Inv

\* A recovery of WinDivert asks every engine to exit.
LEMMA RecoverKeeps == ASSUME Inv, Recover PROVE Inv'
  <1> USE RunnerAssumption, Typed DEF Inv
  <1>1. Alive \in SUBSET Pids /\ ask(Alive)
    BY DEF Recover, Alive
  <1>2. TypeOK'
    BY <1>1, AskEffect DEF Recover, watching, world, worker, to, Spots, TypeOK, Runners,
       Operations
  <1>3. OpInv' /\ PipeInv'
    BY DEF Recover, watching, world, worker, to, NoOp, Rest, free, Alive, Places, Seats, swept,
       spawned, FreshRunner, OpInv, PipeInv, TypeOK, Kinds, Spots, Runners, Operations
  <1>4. ResidualInv'
    BY <1>1, AskEffect DEF Recover, watching, world, worker, to, NoOp, Rest, free, Alive,
       spawning, is_running, harmless, Places, ResidualInv
  <1>5. HandoverInv'
    BY <1>1, AskEffect DEF Recover, to, NoOp, Rest, is_running, harmless, Places, HandoverInv
  <1>6. EngineInv'
    BY <1>1, AskEffect DEF EngineInv
  <1> QED
    BY <1>2, <1>3, <1>4, <1>5, <1>6 DEF Inv

\* The way to the spawn is free, or the driver service is stuck.
LEMMA ReadyKeeps == ASSUME Inv, Ready PROVE Inv'
  <1> USE RunnerAssumption, Typed DEF Inv
  <1>1. CASE leave("failed") /\ UNCHANGED runner
    <2>1. ~free /\ leave("failed")
      BY <1>1 DEF Ready, OpInv, free, NoOp
    <2>2. op' \in Operations
      BY <1>1, <2>1, LeaveEffect DEF Ready, watching, world, free, Alive, spawning, is_running,
         harmless, Places, Seats, swept, spawned, FreshRunner, Kinds, Spots, TypeOK, Runners,
         Operations, Workers, Counters, Outcomes, Pid, Preset, Failures, States, ALLOWED,
         WINDIVERT_CONFLICT_MAX_RETRIES, serving, server, OpInv, PipeInv
    <2>3. runner' \in Runners
      BY <1>1 DEF TypeOK
    <2>4. EngineTypes'
      BY LeaveEffect DEF Ready, watching, world, free, Alive, spawning, is_running, TypeOK,
         Runners, Operations, Workers, OpInv, PipeInv, EngineTypes, WorkerTypes
    <2>5. WorkerTypes'
      BY LeaveEffect DEF Ready, watching, world, worker, to, NoOp, TypeOK, Runners, OpInv,
         PipeInv, EngineTypes, WorkerTypes
    <2>6. TypeOK'
      BY <2>2, <2>3, <2>4, <2>5 DEF TypeOK, EngineTypes, WorkerTypes
    <2>7. OpInv' /\ PipeInv'
      BY <2>1, LeaveEffect
    <2>8. ResidualInv'
      BY <1>1, <2>1, LeaveEffect DEF Ready, harmless, Places, OpInv, PipeInv, ResidualInv, TypeOK
    <2>9. HandoverInv'
      BY <1>1, <2>1, LeaveEffect DEF Ready, watching, world, worker, to, NoOp, HandoverInv
    <2>10. EngineInv'
      BY <1>1, <2>1, LeaveEffect DEF Ready, watching, world, worker, to, NoOp, Rest, free, Alive,
         spawning, is_running, OpInv, HandoverInv, EngineInv
    <2> QED
      BY <2>6, <2>7, <2>8, <2>9, <2>10 DEF Inv
  <1>2. CASE to("dry") /\ runner' = IF spawning THEN [runner EXCEPT !.path = op.want] ELSE runner
    <2>1. TypeOK'
      BY <1>2 DEF Ready, watching, world, worker, to, NoOp, Alive, spawning, Spots, TypeOK,
         Runners, Operations
    <2>2. OpInv' /\ PipeInv'
      BY <1>2 DEF Ready, watching, world, worker, to, NoOp, Rest, free, Alive, Places, Seats,
         swept, spawned, FreshRunner, OpInv, PipeInv, TypeOK, Kinds, Spots, Runners, Operations
    <2>3. ResidualInv'
      BY <1>2 DEF Ready, watching, world, worker, to, NoOp, Rest, free, Alive, spawning,
         is_running, harmless, Places, ResidualInv
    <2>4. HandoverInv'
      BY <1>2 DEF Ready, watching, world, worker, to, NoOp, Rest, free, Alive, spawning,
         is_running, harmless, Places, HandoverInv
    <2>5. EngineInv'
      BY <1>2 DEF Ready, watching, world, worker, to, Alive, spawning, is_running, swept,
         spawned, EngineInv
    <2> QED
      BY <2>1, <2>2, <2>3, <2>4, <2>5 DEF Inv
  <1> QED
    BY <1>1, <1>2 DEF Ready

\* The dry run of the preset, which may refuse it.
LEMMA DryRunKeeps == ASSUME Inv, DryRun PROVE Inv'
  <1> USE RunnerAssumption, Typed DEF Inv
  <1>1. CASE to("popen") /\ UNCHANGED runner
    <2>1. TypeOK'
      BY <1>1 DEF DryRun, fail, watching, world, worker, to, NoOp, Rest, free, Alive, spawning,
         Spots, TypeOK, Runners, Operations
    <2>2. OpInv' /\ PipeInv'
      BY <1>1 DEF DryRun, worker, to, NoOp, Rest, free, Alive, Places, Seats, swept, spawned,
         FreshRunner, OpInv, PipeInv, TypeOK, Kinds, Spots, Runners, Operations
    <2>3. ResidualInv'
      BY <1>1 DEF DryRun, fail, watching, world, worker, to, NoOp, Rest, free, Alive, spawning,
         is_running, harmless, Places, ResidualInv
    <2>4. HandoverInv'
      BY <1>1 DEF DryRun, fail, watching, world, worker, to, NoOp, Rest, free, Alive, spawning,
         is_running, harmless, Places, HandoverInv
    <2>5. EngineInv'
      BY <1>1 DEF DryRun, fail, watching, world, worker, to, Alive, spawning, is_running, swept,
         spawned, FreshRunner, OpInv, EngineInv
    <2> QED
      BY <2>1, <2>2, <2>3, <2>4, <2>5 DEF Inv
  <1>2. CASE (\E why \in Failures : fail(why)) /\ runner' \in {runner,
  [runner EXCEPT !.state = "failed"]}
    <2>1. PICK why \in Failures : fail(why)
      BY <1>2
    <2>2. op' \in Operations
      BY <2>1, OpFails DEF fail, TypeOK
    <2>3. runner' \in Runners
      BY <1>2, <2>1 DEF DryRun, Kinds, Spots, TypeOK, Runners, Failures, States, ALLOWED,
         WINDIVERT_CONFLICT_MAX_RETRIES
    <2>4. EngineTypes'
      BY DEF DryRun, fail, watching, world, free, Alive, spawning, is_running, TypeOK, Runners,
         Operations, Workers, Failures, States, ALLOWED, WINDIVERT_CONFLICT_MAX_RETRIES, OpInv,
         PipeInv, EngineTypes, WorkerTypes
    <2>5. WorkerTypes'
      BY DEF DryRun, fail, watching, world, worker, to, NoOp, TypeOK, Runners, Operations,
         Workers, Failures, States, EngineTypes, WorkerTypes
    <2>6. TypeOK'
      BY <2>2, <2>3, <2>4, <2>5 DEF TypeOK, EngineTypes, WorkerTypes
    <2>7. OpInv' /\ PipeInv'
      <3>1. op'.kind = op.kind /\ op'.at = "failed" /\ op'.want = op.want /\ op'.recover = op.recover
        BY <2>1 DEF fail, TypeOK, Operations
      <3>2. op.kind \in {"switch", "start", "pause"} /\ ~op.recover
        BY DEF DryRun, OpInv, Places, TypeOK, Operations, Kinds
      <3>3. "failed" \in Places[op.kind]
        BY <3>2 DEF Places
      <3>4. OpInv'
        BY <2>1, <3>2, <3>3 DEF fail, worker, OpInv, free
      <3>5. PipeInv'
        BY <2>1 DEF fail, worker, PipeInv
      <3> QED
        BY <3>4, <3>5
    <2>8. ResidualInv'
      BY <1>2, <2>1 DEF DryRun, fail, watching, world, worker, to, NoOp, Rest, free, Alive,
         spawning, is_running, harmless, Places, Seats, swept, spawned, FreshRunner, OpInv,
         PipeInv, ResidualInv, TypeOK, Kinds, Spots, Runners, Operations, Workers, may, ALLOWED,
         States
    <2>9. HandoverInv'
      BY <1>2, <2>1 DEF DryRun, fail, watching, world, worker, to, NoOp, Rest, free, Alive,
         spawning, is_running, harmless, Places, Seats, swept, spawned, FreshRunner, OpInv,
         HandoverInv, TypeOK, Kinds, Spots, Runners, Operations, Pid
    <2>10. EngineInv'
      BY <1>2, <2>1 DEF DryRun, fail, watching, world, worker, to, NoOp, Rest, free, Alive,
         spawning, is_running, harmless, Places, Seats, swept, spawned, FreshRunner, OpInv,
         HandoverInv, EngineInv, TypeOK, Kinds, Spots, Runners, Operations, Pid, ResidualInv
    <2> QED
      BY <2>6, <2>7, <2>8, <2>9, <2>10 DEF Inv
  <1> QED
    BY <1>1, <1>2 DEF DryRun, Failures

-----------------------------------------------------------------------------
(* ... the new engine *)

\* The new engine is started beside the old one or alone.
LEMMA PopenKeeps == ASSUME Inv, Popen PROVE Inv'
  <1> USE RunnerAssumption, Typed DEF Inv
  <1>1. PICK p \in Pids :
        /\ fresh(p) /\ engines' = [engines EXCEPT ![p] = op.want]
        /\ runner' = [runner EXCEPT !.held = p, !.state = "starting",
               !.applied = IF ~is_running /\ runner.state \in {"running", "starting", "stopping"}
                           THEN NoPreset ELSE @]
        /\ asked' = asked \ {p} /\ told' = told \ {p} /\ left' = left \ {p}
    BY DEF Popen
  <1>2. op' \in Operations
    BY DEF Popen, fresh, Spots, TypeOK, Operations
  <1>3. runner' \in Runners
    BY <1>1 DEF TypeOK, Runners, Pid, Preset, States, ALLOWED
  <1>4. EngineTypes'
    BY DEF Popen, fresh, watching, world, free, Alive, spawning, is_running, TypeOK, Runners,
       Operations, Workers, OpInv, PipeInv, EngineTypes, WorkerTypes
  <1>5. WorkerTypes'
    BY DEF Popen, fresh, watching, TypeOK, Runners, EngineTypes, WorkerTypes
  <1>6. TypeOK'
    BY <1>2, <1>3, <1>4, <1>5 DEF TypeOK, EngineTypes, WorkerTypes
  <1>7. OpInv' /\ PipeInv'
    BY DEF Popen, Rest, free, Alive, Places, Seats, swept, spawned, FreshRunner, OpInv, PipeInv,
       TypeOK, Kinds, Spots, Runners, Operations
  <1>8. ResidualInv'
    BY <1>1 DEF Popen, fresh, to, NoOp, Rest, is_running, harmless, Places, FreshRunner, OpInv,
       PipeInv, ResidualInv
  <1>9. HandoverInv'
    BY <1>1 DEF Popen, fresh, FreshRunner, HandoverInv, TypeOK
  <1>10. EngineInv'
    BY DEF Popen, Rest, free, Alive, spawning, is_running, harmless, Places, Seats, swept,
       spawned, FreshRunner, OpInv, HandoverInv, EngineInv, TypeOK, Kinds, Spots, Runners,
       Operations, Pid, ResidualInv
  <1> QED
    BY <1>6, <1>7, <1>8, <1>9, <1>10 DEF Inv

\* The system does not start it.
LEMMA PopenRaisesKeeps == ASSUME Inv, PopenRaises PROVE Inv'
  <1> USE RunnerAssumption, Typed DEF Inv
  <1>1. op' \in Operations
    BY DEF PopenRaises, spawn_failed, fail, watching, world, worker, to, NoOp, Rest, free, Alive,
       spawning, is_running, harmless, Places, Seats, swept, spawned, FreshRunner, Kinds, Spots,
       TypeOK, Runners, Operations, Workers, Counters, Outcomes, Pid, Preset, Failures, States,
       ALLOWED, WINDIVERT_CONFLICT_MAX_RETRIES, serving, server, OpInv, PipeInv
  <1>2. runner' \in Runners
    BY DEF PopenRaises, spawn_failed, fail, watching, world, worker, to, NoOp, Rest, free, Alive,
       spawning, is_running, harmless, Places, Seats, swept, spawned, FreshRunner, Kinds, Spots,
       TypeOK, Runners, Operations, Workers, Counters, Outcomes, Pid, Preset, Failures, States,
       ALLOWED, WINDIVERT_CONFLICT_MAX_RETRIES, OpInv, PipeInv
  <1>3. EngineTypes'
    BY DEF PopenRaises, spawn_failed, fail, watching, world, free, Alive, spawning, is_running,
       TypeOK, Runners, Operations, Workers, OpInv, PipeInv, EngineTypes, WorkerTypes
  <1>4. WorkerTypes'
    BY DEF PopenRaises, spawn_failed, fail, watching, world, worker, to, NoOp, TypeOK, Runners,
       EngineTypes, WorkerTypes
  <1>5. TypeOK'
    BY <1>1, <1>2, <1>3, <1>4 DEF TypeOK, EngineTypes, WorkerTypes
  <1>6. OpInv' /\ PipeInv'
    BY DEF PopenRaises, spawn_failed, fail, watching, world, worker, to, NoOp, Rest, free, Alive,
       Places, Seats, swept, spawned, FreshRunner, OpInv, PipeInv, TypeOK, Kinds, Spots, Runners,
       Operations
  <1>7. ResidualInv'
    BY DEF PopenRaises, spawn_failed, fail, watching, world, worker, to, NoOp, Rest, is_running,
       harmless, Places, FreshRunner, OpInv, PipeInv, ResidualInv
  <1>8. HandoverInv'
    BY DEF PopenRaises, spawn_failed, fail, free, Alive, spawning, is_running, harmless, Places,
       FreshRunner, OpInv, HandoverInv, TypeOK, Kinds, Spots, Runners
  <1>9. EngineInv'
    BY DEF PopenRaises, spawn_failed, fail, watching, world, worker, to, NoOp, Rest, free, Alive,
       spawning, is_running, harmless, Places, Seats, swept, spawned, FreshRunner, OpInv,
       HandoverInv, EngineInv, TypeOK, Kinds, Spots, Runners, Operations, Pid, ResidualInv
  <1> QED
    BY <1>5, <1>6, <1>7, <1>8, <1>9 DEF Inv

\* It is seen running.
LEMMA ConfirmKeeps == ASSUME Inv, Confirm PROVE Inv'
  <1> USE RunnerAssumption, Typed DEF Inv
  <1>1. TypeOK'
    BY DEF Confirm, watching, world, worker, to, NoOp, Rest, free, Alive, spawning, is_running,
       spawned, FreshRunner, Kinds, Spots, TypeOK, Runners, Operations, Workers, Failures,
       States, ALLOWED, WINDIVERT_CONFLICT_MAX_RETRIES
  <1>2. OpInv' /\ PipeInv'
    BY DEF Confirm, watching, world, worker, to, NoOp, Rest, free, Alive, Places, Seats, swept,
       spawned, FreshRunner, OpInv, PipeInv, TypeOK, Kinds, Spots, Runners, Operations
  <1>3. ResidualInv'
    BY DEF Confirm, watching, world, worker, to, NoOp, Rest, is_running, harmless, Places,
       FreshRunner, OpInv, PipeInv, ResidualInv
  <1>4. HandoverInv'
    BY DEF Confirm, watching, world, worker, to, HandoverInv
  <1>5. EngineInv'
    BY DEF Confirm, watching, world, worker, to, NoOp, Rest, free, Alive, spawning, is_running,
       harmless, Places, Seats, swept, spawned, FreshRunner, OpInv, EngineInv
  <1> QED
    BY <1>1, <1>2, <1>3, <1>4, <1>5 DEF Inv

\* It exits while it starts.
LEMMA ExitsInStartKeeps == ASSUME Inv, ExitsInStart PROVE Inv'
  <1> USE RunnerAssumption, Typed DEF Inv
  <1>1. PICK why \in Failures : fail(why)
    BY DEF ExitsInStart
  <1>2. op' \in Operations
    BY <1>1, OpFails DEF fail, TypeOK
  <1>3. runner' \in Runners
    BY <1>1 DEF ExitsInStart, spawn_failed, fail, watching, world, worker, to, NoOp, Rest, free,
       Alive, spawning, is_running, harmless, Places, Seats, swept, spawned, FreshRunner, Kinds,
       Spots, TypeOK, Runners, Operations, Workers, Counters, Outcomes, Pid, Preset, Failures,
       States, ALLOWED, WINDIVERT_CONFLICT_MAX_RETRIES, OpInv, PipeInv
  <1>4. EngineTypes'
    <2>1. runner.held \in Pids \ refused
      BY DEF ExitsInStart, HandoverInv
    <2>2. engines' \in [Pids -> Preset]
      BY <2>1 DEF ExitsInStart, TypeOK, Preset
    <2>3. refused' \subseteq Alive'
      BY <2>1 DEF ExitsInStart, TypeOK, Alive
    <2> QED
      BY <2>2, <2>3 DEF ExitsInStart, watching, TypeOK, EngineTypes
  <1>5. WorkerTypes'
    BY DEF ExitsInStart, spawn_failed, fail, watching, world, worker, to, NoOp, TypeOK, Runners,
       Operations, Workers, EngineTypes, WorkerTypes
  <1>6. TypeOK'
    BY <1>2, <1>3, <1>4, <1>5 DEF TypeOK, EngineTypes, WorkerTypes
  <1>7. OpInv' /\ PipeInv'
    BY <1>1 DEF ExitsInStart, spawn_failed, fail, watching, world, worker, to, NoOp, Rest, free,
       Alive, Places, Seats, swept, spawned, FreshRunner, OpInv, PipeInv, TypeOK, Kinds, Spots,
       Runners, Operations
  <1>8. ResidualInv'
    BY <1>1 DEF ExitsInStart, spawn_failed, fail, watching, world, worker, to, NoOp, Rest,
       harmless, Places, OpInv, PipeInv, ResidualInv, TypeOK
  <1>9. HandoverInv'
    BY <1>1 DEF ExitsInStart, spawn_failed, fail, watching, world, Rest, free, Alive, spawning,
       is_running, HandoverInv, TypeOK, Kinds, Runners
  <1>10. EngineInv'
    BY <1>1 DEF ExitsInStart, spawn_failed, fail, watching, world, worker, to, NoOp, Rest, free,
       Alive, spawning, is_running, harmless, spawned, FreshRunner, OpInv, HandoverInv,
       EngineInv, TypeOK
  <1> QED
    BY <1>6, <1>7, <1>8, <1>9, <1>10 DEF Inv

\* It is in its place: the old one is asked to exit.
LEMMA PlacedKeeps == ASSUME Inv, Placed PROVE Inv'
  <1> USE RunnerAssumption, Typed DEF Inv
  <1>1. {op.old} \ {NoPid} \in SUBSET Pids /\ ask({op.old} \ {NoPid})
    BY DEF Placed, TypeOK, Operations, Pid
  <1>2. ~free /\ leave("done")
    BY DEF Placed, OpInv, free, NoOp
  <1>3. op' \in Operations
    BY LeaveEffect DEF Placed, watching, world, free, Alive, spawning, is_running, harmless,
       Places, Seats, swept, spawned, FreshRunner, Kinds, Spots, TypeOK, Runners, Operations,
       Workers, Counters, Outcomes, Pid, Preset, Failures, States, ALLOWED,
       WINDIVERT_CONFLICT_MAX_RETRIES, serving, server, OpInv, PipeInv
  <1>4. runner' \in Runners
    BY LeaveEffect DEF Placed, Spots, TypeOK, Runners, Operations
  <1>5. EngineTypes'
    BY <1>1, AskEffect, <1>2, LeaveEffect DEF Placed, watching, TypeOK, Runners, Operations,
       Workers, EngineTypes, WorkerTypes
  <1>6. WorkerTypes'
    BY <1>1, AskEffect, <1>2, LeaveEffect DEF Placed, watching, TypeOK, Runners, Operations,
       Workers, EngineTypes, WorkerTypes
  <1>7. TypeOK'
    BY <1>3, <1>4, <1>5, <1>6 DEF TypeOK, EngineTypes, WorkerTypes
  <1>8. OpInv' /\ PipeInv'
    BY <1>2, LeaveEffect
  <1>9. ResidualInv'
    BY AskEffect, <1>2, LeaveEffect DEF Placed, harmless, Places, OpInv, PipeInv, ResidualInv,
       TypeOK
  <1>10. HandoverInv'
    BY AskEffect, <1>2, LeaveEffect DEF Placed, watching, world, worker, to, NoOp, spawning,
       is_running, HandoverInv, TypeOK, Kinds, Spots, Runners
  <1>11. EngineInv'
    BY <1>1, AskEffect, <1>2, LeaveEffect DEF Placed, watching, NoOp, Rest, free, Alive,
       spawning, is_running, swept, spawned, FreshRunner, OpInv, EngineInv
  <1> QED
    BY <1>7, <1>8, <1>9, <1>10, <1>11 DEF Inv

\* The handover failed and the old engine is still there.
LEMMA HandoverFailedKeeps == ASSUME Inv, HandoverFailed PROVE Inv'
  <1> USE RunnerAssumption, Typed DEF Inv
  <1>0. unwatched' \subseteq Pids
    BY DEF HandoverFailed, restore_old, TypeOK, Operations, Pid
  <1>1. CASE \E is \in {"stale", "failed"} : leave(is) /\ runner' = [runner EXCEPT !.held = op.old,
  !.path = op.path]
    <2>1. PICK is \in {"stale", "failed"} : leave(is)
      BY <1>1 DEF HandoverFailed, restore_old
    <2>2. ~free
      BY DEF HandoverFailed, restore_old, OpInv, free, NoOp
    <2>3. op' \in Operations
      BY <1>1, <2>1, <2>2, LeaveEffect, Typed
    <2>4. runner' \in Runners
      BY <1>1, <2>1, <2>2, LeaveEffect DEF TypeOK, Runners, Operations, Preset
    <2>5. EngineTypes'
      BY LeaveEffect DEF HandoverFailed, restore_old, watching, world, free, Alive, spawning,
         is_running,
         TypeOK, Runners, Operations, Workers, OpInv, PipeInv, EngineTypes, WorkerTypes
    <2>6. WorkerTypes'
      BY <1>0, LeaveEffect DEF HandoverFailed, restore_old, watching, world, worker, to, NoOp,
         TypeOK, Runners,
         OpInv, PipeInv, EngineTypes, WorkerTypes
    <2>7. TypeOK'
      BY <2>3, <2>4, <2>5, <2>6 DEF TypeOK, EngineTypes, WorkerTypes
    <2>8. OpInv' /\ PipeInv'
      BY <2>1, <2>2, LeaveEffect
    <2>9. ResidualInv'
      BY <2>1, <2>2, LeaveEffect DEF HandoverFailed, restore_old, ResidualInv
    <2>10. HandoverInv'
      BY <1>1, <2>1, <2>2, LeaveEffect DEF HandoverFailed, restore_old, watching, world, worker,
         to, NoOp,
         spawning, is_running, HandoverInv, TypeOK, Kinds, Spots, Runners
    <2>11. EngineInv'
      BY <1>1, <2>1, <2>2, LeaveEffect DEF HandoverFailed, restore_old, watching, world, worker,
         to, NoOp,
         Rest, free, Alive, spawning, is_running, OpInv, HandoverInv, EngineInv
    <2> QED
      BY <2>7, <2>8, <2>9, <2>10, <2>11 DEF Inv
  <1>2. CASE UNCHANGED worker /\ op' = [op EXCEPT !.at = "dry", !.attempt = 1,
  !.why = "other"] /\ runner' = [runner EXCEPT !.held = op.old, !.path = op.want]
    <2>1. op' \in Operations
      BY <1>2, OpAgain DEF Spots, TypeOK, WINDIVERT_CONFLICT_MAX_RETRIES
    <2>2. runner' \in Runners
      BY <1>2 DEF HandoverFailed, restore_old, watching, world, worker, to, NoOp, Rest, free,
         Alive, spawning,
         is_running, harmless, Places, Seats, swept, spawned, FreshRunner, Kinds, Spots, TypeOK,
         Runners, Operations, Workers, Counters, Outcomes, Pid, Preset, Failures, States,
         ALLOWED, WINDIVERT_CONFLICT_MAX_RETRIES, OpInv, PipeInv
    <2>3. EngineTypes'
      BY <1>2 DEF HandoverFailed, restore_old, watching, world, free, Alive, spawning, is_running,
         TypeOK,
         Runners, Operations, Workers, EngineTypes, WorkerTypes
    <2>4. WorkerTypes'
      BY <1>0, <1>2 DEF HandoverFailed, restore_old, watching, world, worker, to, NoOp, TypeOK,
         Runners,
         EngineTypes, WorkerTypes
    <2>5. TypeOK'
      BY <2>1, <2>2, <2>3, <2>4 DEF TypeOK, EngineTypes, WorkerTypes
    <2>6. OpInv' /\ PipeInv'
      BY <1>2 DEF HandoverFailed, restore_old, watching, world, worker, to, NoOp, Rest, free,
         harmless,
         Places, OpInv, PipeInv
    <2>7. ResidualInv'
      BY <1>2 DEF HandoverFailed, restore_old, watching, world, worker, to, NoOp, FreshRunner,
         OpInv,
         ResidualInv
    <2>8. HandoverInv'
      BY <1>2 DEF HandoverFailed, restore_old, HandoverInv
    <2>9. EngineInv'
      BY <1>2 DEF HandoverFailed, restore_old, watching, world, worker, to, Alive, spawning,
         HandoverInv,
         EngineInv
    <2> QED
      BY <2>5, <2>6, <2>7, <2>8, <2>9 DEF Inv
  <1> QED
    BY <1>1, <1>2 DEF HandoverFailed, restore_old

\* The switch failed without an engine left: the old preset is started again.
LEMMA SwitchFailedKeeps == ASSUME Inv, SwitchFailed PROVE Inv'
  <1> USE RunnerAssumption, Typed DEF Inv
  <1>1. CASE leave("failed")
    <2>1. ~free /\ leave("failed")
      BY <1>1 DEF SwitchFailed, OpInv, free, NoOp
    <2>2. op' \in Operations
      BY <1>1, <2>1, LeaveEffect, Typed
    <2>3. runner' \in Runners
      BY LeaveEffect DEF SwitchFailed, TypeOK
    <2>4. EngineTypes'
      BY LeaveEffect DEF SwitchFailed, watching, world, free, Alive, spawning, is_running,
         TypeOK, Runners, Operations, Workers, OpInv, PipeInv, EngineTypes, WorkerTypes
    <2>5. WorkerTypes'
      BY LeaveEffect DEF SwitchFailed, watching, world, worker, to, NoOp, TypeOK, Runners, OpInv,
         PipeInv, EngineTypes, WorkerTypes
    <2>6. TypeOK'
      BY <2>2, <2>3, <2>4, <2>5 DEF TypeOK, EngineTypes, WorkerTypes
    <2>7. OpInv' /\ PipeInv'
      BY <2>1, LeaveEffect
    <2>8. ResidualInv'
      BY <1>1, <2>1, LeaveEffect DEF SwitchFailed, ResidualInv
    <2>9. HandoverInv'
      BY <1>1, <2>1, LeaveEffect DEF SwitchFailed, watching, world, worker, to, NoOp, HandoverInv
    <2>10. EngineInv'
      BY <1>1, <2>1, LeaveEffect DEF SwitchFailed, watching, world, worker, to, NoOp, Rest, free,
         Alive, spawning, is_running, OpInv, EngineInv
    <2> QED
      BY <2>6, <2>7, <2>8, <2>9, <2>10 DEF Inv
  <1>2. CASE UNCHANGED worker /\ op' = [op EXCEPT !.at = "recover", !.attempt = 1, !.why = "other"]
    <2>1. op' \in Operations
      BY <1>2, OpAgain DEF Spots, TypeOK, WINDIVERT_CONFLICT_MAX_RETRIES
    <2>2. runner' \in Runners
      BY DEF SwitchFailed, TypeOK
    <2>3. EngineTypes'
      BY <1>2 DEF SwitchFailed, watching, world, free, Alive, spawning, is_running, TypeOK,
         Runners, Operations, Workers, EngineTypes, WorkerTypes
    <2>4. WorkerTypes'
      BY <1>2 DEF SwitchFailed, watching, world, worker, to, NoOp, TypeOK, Runners, EngineTypes,
         WorkerTypes
    <2>5. TypeOK'
      BY <2>1, <2>2, <2>3, <2>4 DEF TypeOK, EngineTypes, WorkerTypes
    <2>6. OpInv' /\ PipeInv'
      BY <1>2 DEF SwitchFailed, watching, world, worker, to, NoOp, Rest, free, harmless, Places,
         OpInv, PipeInv
    <2>7. ResidualInv'
      BY <1>2 DEF SwitchFailed, watching, world, worker, to, NoOp, FreshRunner, OpInv,
         ResidualInv
    <2>8. HandoverInv'
      BY <1>2 DEF SwitchFailed, watching, world, worker, free, Alive, spawning, is_running,
         harmless, Places, HandoverInv
    <2>9. EngineInv'
      BY <1>2 DEF SwitchFailed, watching, world, worker, to, Alive, spawning, EngineInv
    <2> QED
      BY <2>5, <2>6, <2>7, <2>8, <2>9 DEF Inv
  <1> QED
    BY <1>1, <1>2 DEF SwitchFailed

\* A start failed: it is tried once more, or given up.
LEMMA StartFailedKeeps == ASSUME Inv, StartFailed PROVE Inv'
  <1> USE RunnerAssumption, Typed DEF Inv
  <1>1. CASE leave("failed")
    <2>1. ~free /\ leave("failed")
      BY <1>1 DEF StartFailed, OpInv, NoOp
    <2>2. op' \in Operations
      BY <1>1, <2>1, LeaveEffect, Typed
    <2>3. runner' \in Runners
      BY DEF StartFailed, transient, TypeOK
    <2>4. EngineTypes'
      BY <2>1, LeaveEffect DEF StartFailed, transient, recoverable, repairable, watching, world,
         worker, to, NoOp, Rest, free, Alive, spawning, spawned, FreshRunner, Kinds, Spots,
         TypeOK, WINDIVERT_CONFLICT_MAX_RETRIES, EngineTypes, WorkerTypes
    <2>5. WorkerTypes'
      BY <2>1, LeaveEffect DEF StartFailed, transient, recoverable, repairable, watching, world,
         worker, to, spawned, FreshRunner, TypeOK, WINDIVERT_CONFLICT_MAX_RETRIES, EngineTypes,
         WorkerTypes
    <2>6. TypeOK'
      BY <2>2, <2>3, <2>4, <2>5 DEF TypeOK, EngineTypes, WorkerTypes
    <2>7. OpInv' /\ PipeInv'
      BY <2>1, LeaveEffect
    <2>8. ResidualInv'
      BY <1>1, <2>1, LeaveEffect DEF StartFailed, transient, recoverable, repairable, spawning,
         is_running, harmless, Places, ResidualInv, TypeOK
    <2>9. HandoverInv'
      BY <1>1, <2>1, LeaveEffect DEF StartFailed, transient, recoverable, worker, to, NoOp,
         spawning, HandoverInv
    <2>10. EngineInv'
      BY <2>1, LeaveEffect DEF StartFailed, transient, recoverable, repairable, watching, world,
         free, Alive, spawning, is_running, harmless, Places, Seats, swept, EngineInv, TypeOK
    <2> QED
      BY <2>6, <2>7, <2>8, <2>9, <2>10 DEF Inv
  <1>2. CASE /\ UNCHANGED worker /\ (transient \/ recoverable \/ repairable)
             /\ op' = [op EXCEPT !.at = "compile", !.attempt = @ + 1, !.why = "other",
                                 !.recover = ~transient]
    <2>1. op' \in Operations
      <3>1. op.attempt + 1 \in 0..WINDIVERT_CONFLICT_MAX_RETRIES
        BY <1>2 DEF transient, recoverable, repairable, TypeOK, Operations,
           WINDIVERT_CONFLICT_MAX_RETRIES
      <3>2. (~transient) \in BOOLEAN
        OBVIOUS
      <3> QED
        BY <1>2, <3>1, <3>2, OpRestarts DEF TypeOK, EngineTypes, WorkerTypes
    <2>2. runner' \in Runners
      BY DEF StartFailed, transient, TypeOK
    <2>3. EngineTypes'
      BY <1>2 DEF StartFailed, transient, recoverable, repairable, watching, world, free, Alive,
         spawning, is_running, TypeOK, Runners, Operations, Workers, OpInv, PipeInv, EngineTypes,
         WorkerTypes
    <2>4. WorkerTypes'
      BY <1>2 DEF StartFailed, transient, recoverable, repairable, watching, world, worker, to,
         NoOp, TypeOK, Runners, Operations, Workers, EngineTypes, WorkerTypes
    <2>5. TypeOK'
      BY <2>1, <2>2, <2>3, <2>4 DEF TypeOK, EngineTypes, WorkerTypes
    <2>6. OpInv' /\ PipeInv'
      BY <1>2 DEF StartFailed, transient, world, worker, to, NoOp, Rest, free, Alive, spawning,
         is_running, harmless, Places, Seats, OpInv, PipeInv
    <2>7. ResidualInv'
      BY <1>2 DEF StartFailed, transient, recoverable, repairable, watching, world, worker, to,
         NoOp, Rest, free, Alive, spawning, is_running, harmless, Places, ResidualInv, TypeOK
    <2>8. HandoverInv'
      BY <1>2 DEF StartFailed, transient, recoverable, spawning, HandoverInv
    <2>9. EngineInv'
      BY <1>2 DEF StartFailed, transient, world, worker, to, Alive, spawning, is_running, swept,
         spawned, FreshRunner, OpInv, EngineInv
    <2> QED
      BY <2>5, <2>6, <2>7, <2>8, <2>9 DEF Inv
  <1> QED
    BY <1>1, <1>2 DEF StartFailed

-----------------------------------------------------------------------------
(* ... stops and pauses *)

\* The stop of the engine held raises.
LEMMA StopRaisesKeeps == ASSUME Inv, StopRaises PROVE Inv'
  <1> USE RunnerAssumption, Typed DEF Inv
  <1>1. ~free /\ leave("failed")
    BY DEF StopRaises, OpInv, free, NoOp
  <1>2. op' \in Operations
    BY LeaveEffect DEF StopRaises, watching, world, free, Alive, spawning, is_running, harmless,
       Places, Seats, swept, spawned, FreshRunner, Kinds, Spots, TypeOK, Runners, Operations,
       Workers, Counters, Outcomes, Pid, Preset, Failures, States, ALLOWED,
       WINDIVERT_CONFLICT_MAX_RETRIES, serving, server, OpInv, PipeInv
  <1>3. runner' \in Runners
    BY LeaveEffect DEF StopRaises, TypeOK
  <1>4. EngineTypes'
    BY LeaveEffect DEF StopRaises, watching, world, free, Alive, spawning, is_running, TypeOK,
       Runners, Operations, Workers, OpInv, PipeInv, EngineTypes, WorkerTypes
  <1>5. WorkerTypes'
    BY LeaveEffect DEF StopRaises, watching, world, worker, to, NoOp, TypeOK, Runners, OpInv,
       PipeInv, EngineTypes, WorkerTypes
  <1>6. TypeOK'
    BY <1>2, <1>3, <1>4, <1>5 DEF TypeOK, EngineTypes, WorkerTypes
  <1>7. OpInv' /\ PipeInv'
    BY <1>1, LeaveEffect
  <1>8. ResidualInv'
    <2>1. pipe.at # "residual"
      BY DEF StopRaises, ResidualInv, harmless, OpInv, NoOp
    <2>2. runner.state = "idle"
      BY DEF StopRaises, HandoverInv, may, ALLOWED, States, TypeOK, Runners
    <2> QED
      BY <2>2, <1>1, LeaveEffect DEF StopRaises, ResidualInv, harmless
  <1>9. HandoverInv'
    BY <1>1, LeaveEffect DEF StopRaises, to, NoOp, HandoverInv
  <1>10. EngineInv'
    BY LeaveEffect DEF StopRaises, watching, world, worker, to, NoOp, Rest, free, Alive,
       spawning, is_running, OpInv, HandoverInv, EngineInv
  <1> QED
    BY <1>6, <1>7, <1>8, <1>9, <1>10 DEF Inv

\* The engine held is stopped.
LEMMA StopHeldKeeps == ASSUME Inv, StopHeld PROVE Inv'
  <1> USE RunnerAssumption, Typed DEF Inv
  <1>1. {runner.held} \cap Alive \in SUBSET Pids /\ ask({runner.held} \cap Alive)
    BY DEF StopHeld, Alive
  <1>2. op' \in Operations
    BY AskEffect DEF StopHeld, worker, to, Spots, TypeOK, Runners, Operations
  <1>3. runner' \in Runners
    BY <1>1, AskEffect DEF StopHeld, watching, world, worker, to, NoOp, Rest, free, Alive,
       spawning, is_running, harmless, Places, Seats, swept, spawned, FreshRunner, Kinds, Spots,
       TypeOK, Runners, Operations, Workers, Counters, Outcomes, Pid, Preset, Failures, States,
       ALLOWED, WINDIVERT_CONFLICT_MAX_RETRIES, OpInv, PipeInv
  <1>4. EngineTypes'
    BY <1>1, AskEffect DEF StopHeld, watching, TypeOK, Runners, EngineTypes, WorkerTypes
  <1>5. WorkerTypes'
    BY <1>1, AskEffect DEF StopHeld, watching, world, worker, to, NoOp, TypeOK, Runners,
       EngineTypes, WorkerTypes
  <1>6. TypeOK'
    BY <1>2, <1>3, <1>4, <1>5 DEF TypeOK, EngineTypes, WorkerTypes
  <1>7. OpInv' /\ PipeInv'
    BY DEF StopHeld, watching, world, worker, to, NoOp, Rest, free, Alive, Places, Seats, swept,
       spawned, FreshRunner, OpInv, PipeInv, TypeOK, Kinds, Spots, Runners, Operations
  <1>8. ResidualInv'
    BY <1>1, AskEffect DEF StopHeld, watching, world, worker, to, NoOp, Rest, is_running,
       harmless, Places, FreshRunner, OpInv, PipeInv, ResidualInv
  <1>9. HandoverInv'
    BY <1>1, AskEffect DEF StopHeld, to, HandoverInv
  <1>10. EngineInv'
    BY <1>1, AskEffect DEF StopHeld, watching, world, worker, to, NoOp, Seats, swept, spawned,
       EngineInv
  <1> QED
    BY <1>6, <1>7, <1>8, <1>9, <1>10 DEF Inv

\* So is every other engine of this installation.
LEMMA StopRestKeeps == ASSUME Inv, StopRest PROVE Inv'
  <1> USE RunnerAssumption, Typed DEF Inv
  <1>1. Alive \in SUBSET Pids /\ ask(Alive)
    BY DEF StopRest, Alive
  <1>2. PICK is \in {"done", "failed"} : leave(is)
    BY DEF StopRest
  <1>3. ~free
    BY DEF StopRest, OpInv, free, NoOp
  <1>4. op' \in Operations
    BY AskEffect, <1>2, <1>3, LeaveEffect
  <1>5. runner' \in Runners
    BY <1>1, AskEffect, <1>2, <1>3, LeaveEffect DEF StopRest, watching, world, worker, to, NoOp,
       Rest, free, Alive, spawning, is_running, harmless, Places, Seats, swept, spawned,
       FreshRunner, Kinds, Spots, TypeOK, Runners, Operations, Workers, Counters, Outcomes, Pid,
       Preset, Failures, States, ALLOWED, WINDIVERT_CONFLICT_MAX_RETRIES, OpInv, PipeInv
  <1>6. EngineTypes'
    BY <1>1, AskEffect, <1>2, <1>3, LeaveEffect DEF StopRest, watching, world, worker, to,
       TypeOK, WINDIVERT_CONFLICT_MAX_RETRIES, EngineTypes, WorkerTypes
  <1>7. WorkerTypes'
    BY <1>1, AskEffect, <1>2, <1>3, LeaveEffect DEF StopRest, watching, world, worker, to,
       TypeOK, WINDIVERT_CONFLICT_MAX_RETRIES, EngineTypes, WorkerTypes
  <1>8. TypeOK'
    BY <1>4, <1>5, <1>6, <1>7 DEF TypeOK, EngineTypes, WorkerTypes
  <1>9. OpInv' /\ PipeInv'
    BY <1>2, <1>3, LeaveEffect
  <1>10. ResidualInv'
    BY <1>2, <1>3, LeaveEffect DEF StopRest, harmless, Places, ResidualInv, TypeOK
  <1>11. HandoverInv'
    BY <1>2, <1>3, LeaveEffect DEF StopRest, watching, world, worker, to, NoOp, HandoverInv
  <1>12. EngineInv'
    BY <1>1, AskEffect DEF EngineInv
  <1> QED
    BY <1>8, <1>9, <1>10, <1>11, <1>12 DEF Inv

\* A premium request pauses the engine.
LEMMA PauseKeeps == ASSUME Inv, Pause PROVE Inv'
  <1> USE RunnerAssumption, Typed DEF Inv
  <1>1. op' \in Operations
    BY OpNew DEF Pause, Kinds, Spots, TypeOK, Runners
  <1>2. runner' \in Runners
    BY DEF Pause, TypeOK
  <1>3. EngineTypes'
    BY DEF Pause, begin, watching, world, free, Alive, spawning, is_running, TypeOK, Runners,
       Operations, Workers, Counters, Outcomes, Pid, Preset, EngineTypes, WorkerTypes
  <1>4. WorkerTypes'
    BY DEF Pause, begin, watching, world, worker, to, NoOp, TypeOK, Runners, EngineTypes,
       WorkerTypes
  <1>5. TypeOK'
    BY <1>1, <1>2, <1>3, <1>4 DEF TypeOK, EngineTypes, WorkerTypes
  <1>6. OpInv' /\ PipeInv'
    BY DEF Pause, begin, watching, world, worker, to, NoOp, Rest, free, Alive, Places, Seats,
       swept, spawned, FreshRunner, OpInv, PipeInv, TypeOK, Kinds, Spots, Runners, Operations,
       Workers, HandoverInv, Preset
  <1>7. ResidualInv'
    BY DEF Pause, begin, watching, world, worker, is_running, harmless, Places, ResidualInv
  <1>8. HandoverInv'
    BY DEF Pause, begin, to, NoOp, OpInv, HandoverInv
  <1>9. EngineInv'
    BY DEF Pause, begin, watching, world, worker, to, Alive, spawning, is_running, swept,
       spawned, OpInv, EngineInv
  <1> QED
    BY <1>5, <1>6, <1>7, <1>8, <1>9 DEF Inv

\* The engine exits, and the request goes out without it.
LEMMA PauseExitsKeeps == ASSUME Inv, PauseExits PROVE Inv'
  <1> USE RunnerAssumption, Typed DEF Inv
  <1>1. CASE /\ is_running /\ may("stopping") /\ ask({runner.held})
             /\ runner' = [runner EXCEPT !.held = NoPid, !.state = "idle"]
    <2>1. {runner.held} \in SUBSET Pids /\ ask({runner.held})
      BY <1>1 DEF is_running, Alive
    <2>2. op' \in Operations
      BY AskEffect DEF PauseExits, worker, to, Spots, TypeOK, Runners, Operations
    <2>3. runner' \in Runners
      BY <1>1, <2>1, AskEffect DEF PauseExits, watching, world, worker, to, NoOp, Rest, free,
         Alive, spawning, is_running, harmless, Places, Seats, swept, spawned, FreshRunner,
         Kinds, Spots, TypeOK, Runners, Operations, Workers, Counters, Outcomes, Pid, Preset,
         Failures, States, ALLOWED, WINDIVERT_CONFLICT_MAX_RETRIES, OpInv, PipeInv
    <2>4. EngineTypes'
      BY <2>1, AskEffect DEF PauseExits, watching, TypeOK, Runners, Operations, Workers,
         EngineTypes, WorkerTypes
    <2>5. WorkerTypes'
      BY <2>1, AskEffect DEF PauseExits, watching, world, worker, to, NoOp, TypeOK, Runners,
         Operations, Workers, EngineTypes, WorkerTypes
    <2>6. TypeOK'
      BY <2>2, <2>3, <2>4, <2>5 DEF TypeOK, EngineTypes, WorkerTypes
    <2>7. OpInv' /\ PipeInv'
      BY DEF PauseExits, watching, world, worker, to, NoOp, Rest, free, Alive, Places, Seats,
         swept, spawned, FreshRunner, OpInv, PipeInv, TypeOK, Kinds, Spots, Runners, Operations
    <2>8. ResidualInv'
      BY <1>1, <2>1, AskEffect DEF PauseExits, watching, world, worker, to, ResidualInv, TypeOK,
         Workers, may, ALLOWED, States
    <2>9. HandoverInv'
      BY <1>1, <2>1, AskEffect DEF PauseExits, watching, world, worker, to, NoOp, spawning,
         is_running, HandoverInv, TypeOK, Kinds, Operations
    <2>10. EngineInv'
      BY <1>1, <2>1, AskEffect DEF PauseExits, watching, world, worker, to, NoOp, Seats, swept,
         spawned, FreshRunner, OpInv, HandoverInv, EngineInv, TypeOK, Operations
    <2> QED
      BY <2>6, <2>7, <2>8, <2>9, <2>10 DEF Inv
  <1>2. CASE UNCHANGED <<runner, world>>
    <2>1. TypeOK'
      BY <1>2 DEF PauseExits, watching, world, worker, to, NoOp, Alive, spawning, Spots, TypeOK,
         Runners, Operations
    <2>2. OpInv' /\ PipeInv'
      BY DEF PauseExits, watching, world, worker, to, NoOp, Rest, free, Alive, Places, Seats,
         swept, spawned, FreshRunner, OpInv, PipeInv, TypeOK, Kinds, Spots, Runners, Operations
    <2>3. ResidualInv'
      BY <1>2 DEF PauseExits, watching, world, worker, to, Alive, spawning, is_running, harmless,
         Places, Seats, OpInv, PipeInv, ResidualInv, TypeOK, Kinds, Spots, Runners, Operations,
         Workers
    <2>4. HandoverInv'
      BY <1>2 DEF PauseExits, to, NoOp, Rest, FreshRunner, OpInv, HandoverInv, TypeOK, Kinds,
         Spots, Operations
    <2>5. EngineInv'
      BY <1>2 DEF PauseExits, watching, world, worker, to, NoOp, Rest, free, Alive, Places,
         Seats, swept, spawned, FreshRunner, OpInv, HandoverInv, EngineInv, TypeOK, Operations,
         Pid
    <2> QED
      BY <2>1, <2>2, <2>3, <2>4, <2>5 DEF Inv
  <1> QED
    BY <1>1, <1>2 DEF PauseExits, stop_process_only

\* The engine does not exit: the request is not sent.
LEMMA PauseRefusedKeeps == ASSUME Inv, PauseRefused PROVE Inv'
  <1> USE RunnerAssumption, Typed DEF Inv
  <1>1. ~free /\ leave("failed")
    BY DEF PauseRefused, OpInv, free, NoOp
  <1>2. op' \in Operations
    BY LeaveEffect DEF PauseRefused, watching, world, free, Alive, spawning, is_running,
       harmless, Places, Seats, swept, spawned, FreshRunner, Kinds, Spots, TypeOK, Runners,
       Operations, Workers, Counters, Outcomes, Pid, Preset, Failures, States, ALLOWED,
       WINDIVERT_CONFLICT_MAX_RETRIES, serving, server, OpInv, PipeInv
  <1>3. runner' \in Runners
    BY LeaveEffect DEF PauseRefused, TypeOK
  <1>4. EngineTypes'
    BY LeaveEffect DEF PauseRefused, watching, world, free, Alive, spawning, is_running, TypeOK,
       Runners, Operations, Workers, OpInv, PipeInv, EngineTypes, WorkerTypes
  <1>5. WorkerTypes'
    BY LeaveEffect DEF PauseRefused, watching, world, worker, to, NoOp, TypeOK, Runners, OpInv,
       PipeInv, EngineTypes, WorkerTypes
  <1>6. TypeOK'
    BY <1>2, <1>3, <1>4, <1>5 DEF TypeOK, EngineTypes, WorkerTypes
  <1>7. OpInv' /\ PipeInv'
    BY <1>1, LeaveEffect
  <1>8. ResidualInv'
    BY <1>1, LeaveEffect DEF PauseRefused, Alive, spawning, is_running, harmless, Places,
       FreshRunner, OpInv, ResidualInv
  <1>9. HandoverInv'
    BY <1>1, LeaveEffect DEF PauseRefused, to, NoOp, HandoverInv
  <1>10. EngineInv'
    BY LeaveEffect DEF PauseRefused, watching, world, worker, to, NoOp, Rest, free, Alive,
       spawning, is_running, OpInv, HandoverInv, EngineInv
  <1> QED
    BY <1>6, <1>7, <1>8, <1>9, <1>10 DEF Inv

\* The request is answered and the engine started again.
LEMMA DirectRequestEndsKeeps == ASSUME Inv, DirectRequestEnds PROVE Inv'
  <1> USE RunnerAssumption, Typed DEF Inv
  <1>1. TypeOK'
    BY DEF DirectRequestEnds, watching, world, worker, to, NoOp, Rest, free, Alive, spawning,
       is_running, spawned, FreshRunner, Kinds, Spots, TypeOK, Runners, Operations, Workers
  <1>2. OpInv' /\ PipeInv'
    BY DEF DirectRequestEnds, watching, world, worker, to, NoOp, Rest, free, Alive, Places,
       Seats, swept, spawned, FreshRunner, OpInv, PipeInv, TypeOK, Kinds, Spots, Runners,
       Operations
  <1>3. ResidualInv'
    BY DEF DirectRequestEnds, watching, world, worker, to, NoOp, Rest, free, Alive, spawning,
       is_running, harmless, Places, ResidualInv
  <1>4. HandoverInv'
    BY DEF DirectRequestEnds, to, HandoverInv
  <1>5. EngineInv'
    BY DEF DirectRequestEnds, watching, world, worker, to, NoOp, Rest, free, Alive, Places,
       Seats, swept, spawned, FreshRunner, OpInv, EngineInv
  <1> QED
    BY <1>1, <1>2, <1>3, <1>4, <1>5 DEF Inv

-----------------------------------------------------------------------------
(* ... the workers of start, switch and stop *)

\* The user, or the program, asks for one of them.
LEMMA RequestKeeps == ASSUME Inv, Request PROVE Inv'
  <1> USE RunnerAssumption, Typed DEF Inv
  <1>1. TypeOK'
    BY DEF Request, watching, world, free, Alive, TypeOK, Runners, Operations, Workers, Counters,
       Outcomes, Pid, Preset
  <1>2. OpInv' /\ PipeInv'
    BY DEF Request, watching, world, Rest, free, Alive, spawning, is_running, harmless, Places,
       Seats, swept, spawned, FreshRunner, OpInv, PipeInv
  <1>3. ResidualInv'
    BY DEF Request, ResidualInv
  <1>4. HandoverInv'
    BY DEF Request, free, Alive, spawning, is_running, HandoverInv
  <1>5. EngineInv'
    BY DEF Request, watching, world, Rest, free, Alive, spawning, is_running, harmless, EngineInv
  <1> QED
    BY <1>1, <1>2, <1>3, <1>4, <1>5 DEF Inv

\* The worker of a start looks for engines.
LEMMA ProbeKeeps == ASSUME Inv, Probe PROVE Inv'
  <1> USE RunnerAssumption, Typed DEF Inv
  <1>1. TypeOK'
    BY DEF Probe, move, report, watching, world, worker, to, NoOp, Rest, free, Alive, spawning,
       Spots, TypeOK, Workers, Counters
  <1>2. OpInv' /\ PipeInv'
    BY DEF Probe, move, report, watching, world, Rest, free, Alive, spawning, is_running,
       harmless, Places, Seats, swept, spawned, FreshRunner, OpInv, PipeInv, TypeOK, Kinds,
       Workers, HandoverInv, Preset
  <1>3. ResidualInv'
    BY DEF Probe, move, report, to, NoOp, Rest, OpInv, PipeInv, ResidualInv, TypeOK, Kinds,
       Spots, Runners, Workers
  <1>4. HandoverInv'
    BY DEF Probe, move, report, watching, world, worker, free, Alive, spawning, is_running,
       harmless, Places, HandoverInv
  <1>5. EngineInv'
    <2>1. pipe'.at \notin {"handover", "extras"}
      BY DEF Probe, move, report, Rest, TypeOK, Workers
    <2>2. left' = left
      BY DEF Probe, move, report
    <2> QED
      BY <2>1, <2>2 DEF Probe, world, EngineInv, Alive, spawning
  <1> QED
    BY <1>1, <1>2, <1>3, <1>4, <1>5 DEF Inv

\* It takes over one that runs already,
LEMMA AdoptKeeps == ASSUME Inv, Adopt PROVE Inv'
  <1> USE RunnerAssumption, Typed DEF Inv
  <1>1. PICK p \in Alive : /\ runner' = [runner EXCEPT !.held = p, !.extra = Alive \ {p}]
        /\ watchers' = [watchers EXCEPT ![p] = "none"]
    BY DEF Adopt
  <1>2. op' \in Operations
    BY DEF Adopt, move, TypeOK
  <1>3. runner' \in Runners
    BY <1>1 DEF TypeOK, Runners, Pid, Alive
  <1>4. EngineTypes'
    BY DEF Adopt, move, watching, world, free, Alive, spawning, is_running, TypeOK, Runners,
       Operations, Workers, OpInv, PipeInv, EngineTypes, WorkerTypes
  <1>5. WorkerTypes'
    BY DEF Adopt, move, watching, world, worker, to, NoOp, Alive, TypeOK, Runners, Operations,
       Workers, EngineTypes, WorkerTypes
  <1>6. TypeOK'
    BY <1>2, <1>3, <1>4, <1>5 DEF TypeOK, EngineTypes, WorkerTypes
  <1>7. OpInv' /\ PipeInv'
    BY DEF Adopt, move, watching, NoOp, Seats, swept, spawned, FreshRunner, OpInv, PipeInv,
       TypeOK, Kinds, Workers
  <1>8. ResidualInv'
    BY DEF Adopt, move, ResidualInv
  <1>9. HandoverInv'
    BY <1>1 DEF Adopt, move, free, Alive, spawning, is_running, Places, OpInv, HandoverInv
  <1>10. EngineInv'
    BY DEF Adopt, move, watching, world, worker, to, Alive, spawning, is_running, EngineInv
  <1> QED
    BY <1>6, <1>7, <1>8, <1>9, <1>10 DEF Inv

\* ... or finds none it can take over.
LEMMA AdoptNoneKeeps == ASSUME Inv, AdoptNone PROVE Inv'
  <1> USE RunnerAssumption, Typed DEF Inv
  <1>1. TypeOK'
    BY DEF AdoptNone, move, watching, world, worker, to, NoOp, Rest, free, Alive, spawning,
       Spots, TypeOK, Workers, Counters
  <1>2. OpInv' /\ PipeInv'
    BY DEF AdoptNone, move, watching, NoOp, Seats, swept, spawned, FreshRunner, OpInv, PipeInv,
       TypeOK, Workers
  <1>3. ResidualInv'
    BY DEF AdoptNone, move, ResidualInv
  <1>4. HandoverInv'
    BY DEF AdoptNone, move, to, NoOp, OpInv, HandoverInv
  <1>5. EngineInv'
    BY DEF AdoptNone, move, watching, world, worker, to, Alive, spawning, EngineInv
  <1> QED
    BY <1>1, <1>2, <1>3, <1>4, <1>5 DEF Inv

\* It asks the others to exit.
LEMMA StopExtrasKeeps == ASSUME Inv, StopExtras PROVE Inv'
  <1> USE RunnerAssumption, Typed DEF Inv
  <1>1. runner.extra \in SUBSET Pids /\ ask(runner.extra)
    BY DEF StopExtras, TypeOK, Runners
  <1>2. TypeOK'
    BY <1>1, AskEffect DEF StopExtras, report, watching, world, Spots, TypeOK, Runners,
       Operations
  <1>3. OpInv' /\ PipeInv'
    BY DEF StopExtras, report, watching, NoOp, Rest, free, Alive, spawning, is_running, harmless,
       Places, Seats, OpInv, PipeInv
  <1>4. ResidualInv'
    BY <1>1, AskEffect DEF StopExtras, report, NoOp, Rest, ResidualInv, TypeOK
  <1>5. HandoverInv'
    BY <1>1, AskEffect DEF StopExtras, is_running, HandoverInv
  <1>6. EngineInv'
    BY <1>1, AskEffect DEF StopExtras, report, watching, Alive, spawning, is_running, OpInv,
       EngineInv
  <1> QED
    BY <1>2, <1>3, <1>4, <1>5, <1>6 DEF Inv

\* The worker of a stop finds no engine,
LEMMA NothingToStopKeeps == ASSUME Inv, NothingToStop PROVE Inv'
  <1> USE RunnerAssumption, Typed DEF Inv
  <1>1. TypeOK'
    BY DEF NothingToStop, report, watching, world, Spots, TypeOK
  <1>2. OpInv' /\ PipeInv'
    BY DEF NothingToStop, report, watching, NoOp, Rest, free, Alive, spawning, is_running,
       harmless, Places, Seats, OpInv, PipeInv
  <1>3. ResidualInv'
    BY DEF NothingToStop, report, watching, world, Rest, free, ResidualInv
  <1>4. HandoverInv'
    BY DEF NothingToStop, report, watching, world, worker, free, Alive, spawning, is_running,
       harmless, Places, HandoverInv
  <1>5. EngineInv'
    BY DEF NothingToStop, report, watching, world, worker, to, Alive, spawning, EngineInv
  <1> QED
    BY <1>1, <1>2, <1>3, <1>4, <1>5 DEF Inv

\* ... or finds some and lets the runner stop them.
LEMMA LookKeeps == ASSUME Inv, Look PROVE Inv'
  <1> USE RunnerAssumption, Typed DEF Inv
  <1>1. TypeOK'
    BY DEF Look, move, watching, world, worker, to, NoOp, Rest, free, Alive, spawning, Spots,
       TypeOK, Workers, Counters
  <1>2. OpInv' /\ PipeInv'
    BY DEF Look, move, watching, world, Rest, free, Alive, spawning, is_running, harmless,
       Places, Seats, swept, spawned, FreshRunner, OpInv, PipeInv, TypeOK, Kinds, Workers,
       HandoverInv
  <1>3. ResidualInv'
    BY DEF Look, move, ResidualInv
  <1>4. HandoverInv'
    BY DEF Look, move, watching, world, worker, free, Alive, spawning, is_running, harmless,
       Places, HandoverInv
  <1>5. EngineInv'
    BY DEF Look, move, watching, world, worker, to, Alive, spawning, EngineInv
  <1> QED
    BY <1>1, <1>2, <1>3, <1>4, <1>5 DEF Inv

\* What is left after the runner's stop is asked to exit.
LEMMA StopResidualKeeps == ASSUME Inv, StopResidual PROVE Inv'
  <1> USE RunnerAssumption, Typed DEF Inv
  <1>1. CASE pipe.kind = "stop"
    <2>1. Alive \in SUBSET Pids /\ ask(Alive)
      BY DEF StopResidual, Alive
    <2>2. TypeOK'
      BY <2>1, AskEffect DEF StopResidual, move, report, forget_runner, watching, world, TypeOK,
         Runners, Operations, Workers
    <2>3. OpInv' /\ PipeInv'
      BY <1>1, <2>1, AskEffect DEF StopResidual, move, report, forget_runner, watching, world,
         worker, to, NoOp, Rest, free, Alive, spawning, is_running, harmless, Places, Seats,
         swept, OpInv, PipeInv
    <2>4. ResidualInv'
      BY DEF StopResidual, move, report, forget_runner, NoOp, Rest, free, Alive, harmless,
         Places, ResidualInv, TypeOK
    <2>5. HandoverInv'
      <3>1. op.old = NoPid /\ op.at \notin {"confirm", "placed"} /\ op.kind # "switch"
        BY DEF StopResidual, ResidualInv, harmless, HandoverInv, OpInv, Places, free
      <3> QED
        BY <3>1 DEF StopResidual, forget_runner, HandoverInv, FreshRunner
    <2>6. EngineInv'
      BY <2>1, AskEffect DEF EngineInv
    <2> QED
      BY <2>2, <2>3, <2>4, <2>5, <2>6 DEF Inv
  <1>2. CASE pipe.kind = "start"
    <2>1. Alive \in SUBSET Pids /\ ask(Alive)
      BY DEF StopResidual, Alive
    <2>2. TypeOK'
      BY <2>1, AskEffect DEF StopResidual, move, report, forget_runner, watching, world, TypeOK,
         Runners, Operations, Workers
    <2>3. OpInv' /\ PipeInv'
      BY <2>1, AskEffect DEF StopResidual, move, report, forget_runner, watching, world, worker,
         to, NoOp, Rest, free, Alive, spawning, is_running, harmless, Places, Seats, swept,
         spawned, FreshRunner, OpInv, PipeInv, TypeOK, Kinds, Spots, Runners, Operations, Workers
    <2>4. ResidualInv'
      BY DEF StopResidual, move, report, forget_runner, NoOp, Rest, free, Alive, harmless,
         Places, ResidualInv, TypeOK
    <2>5. HandoverInv'
      <3>1. op.old = NoPid /\ op.at \notin {"confirm", "placed"} /\ op.kind # "switch"
        BY DEF StopResidual, ResidualInv, harmless, HandoverInv, OpInv, Places, free
      <3> QED
        BY <3>1 DEF StopResidual, forget_runner, HandoverInv, FreshRunner
    <2>6. EngineInv'
      BY <2>1, AskEffect DEF EngineInv
    <2> QED
      BY <2>2, <2>3, <2>4, <2>5, <2>6 DEF Inv
  <1> QED
    BY <1>1, <1>2 DEF StopResidual, PipeInv, Seats, TypeOK, Workers

-----------------------------------------------------------------------------
(* ... the watchers and the engines *)

\* A watcher finds its engine gone ...
LEMMA WatchKeeps == ASSUME Inv, NEW p \in Pids, Watch(p) PROVE Inv'
  <1> USE RunnerAssumption, Typed DEF Inv
  <1>1. TypeOK'
    BY DEF Watch, watching, world, worker, to, free, Alive, TypeOK, Runners
  <1>2. OpInv' /\ PipeInv'
    BY DEF Watch, watching, world, worker, to, NoOp, Rest, free, Alive, spawning, is_running,
       harmless, spawned, FreshRunner, OpInv, PipeInv
  <1>3. ResidualInv'
    BY DEF Watch, watching, world, worker, free, Alive, spawning, is_running, harmless, Places,
       ResidualInv
  <1>4. HandoverInv'
    BY DEF Watch, watching, world, worker, free, Alive, spawning, is_running, harmless, Places,
       HandoverInv
  <1>5. EngineInv'
    BY DEF Watch, watching, world, worker, to, NoOp, Rest, free, Alive, spawning, is_running,
       harmless, EngineInv
  <1> QED
    BY <1>1, <1>2, <1>3, <1>4, <1>5 DEF Inv

\* ... and reports it, unless the runner expected it to go.
LEMMA WatchMatchedKeeps == ASSUME Inv, NEW p \in Pids, WatchMatched(p) PROVE Inv'
  <1> USE RunnerAssumption, Typed DEF Inv
  <1>1. TypeOK'
    BY DEF WatchMatched, expected, watching, world, worker, to, NoOp, Alive, spawning, Spots,
       TypeOK
  <1>2. OpInv' /\ PipeInv'
    BY DEF WatchMatched, expected, watching, world, worker, to, NoOp, Rest, free, Alive,
       spawning, OpInv, PipeInv
  <1>3. ResidualInv'
    BY DEF WatchMatched, expected, watching, world, worker, free, Alive, spawning, is_running,
       harmless, Places, ResidualInv
  <1>4. HandoverInv'
    BY DEF WatchMatched, expected, watching, world, worker, free, Alive, spawning, is_running,
       harmless, Places, HandoverInv
  <1>5. EngineInv'
    BY DEF WatchMatched, expected, watching, world, worker, to, Alive, spawning, EngineInv
  <1> QED
    BY <1>1, <1>2, <1>3, <1>4, <1>5 DEF Inv

\* An engine dies by itself.
LEMMA DieKeeps == ASSUME Inv, NEW p \in Pids, Die(p) PROVE Inv'
  <1> USE RunnerAssumption, Typed DEF Inv
  <1>1. op' \in Operations
    <2>1. (op.died \/ (~free /\ p = server /\ p \notin refused)) \in BOOLEAN
      BY DEF TypeOK, Operations
    <2> QED
      BY <2>1 DEF Die, TypeOK, Operations
  <1>2. runner' \in Runners
    BY DEF Die, TypeOK
  <1>3. EngineTypes'
    BY DEF Die, watching, world, free, Alive, spawning, is_running, TypeOK, Runners, Operations,
       Workers, Counters, Outcomes, Pid, Preset, EngineTypes, WorkerTypes
  <1>4. WorkerTypes'
    BY DEF Die, watching, world, worker, to, NoOp, Rest, TypeOK, Runners, EngineTypes,
       WorkerTypes
  <1>5. TypeOK'
    BY <1>1, <1>2, <1>3, <1>4 DEF TypeOK, EngineTypes, WorkerTypes
  <1>6. OpInv' /\ PipeInv'
    BY DEF Die, worker, spawning, OpInv, PipeInv, Operations, free
  <1>7. ResidualInv'
    BY DEF Die, watching, world, worker, free, Alive, spawning, is_running, harmless, Places,
       ResidualInv
  <1>8. HandoverInv'
    BY DEF Die, free, Alive, spawning, is_running, HandoverInv
  <1>9. EngineInv'
    BY DEF Die, watching, world, worker, to, NoOp, Rest, free, Alive, spawning, is_running,
       harmless, EngineInv, TypeOK
  <1> QED
    BY <1>5, <1>6, <1>7, <1>8, <1>9 DEF Inv

-----------------------------------------------------------------------------
(* What rests on the invariant *)

\* Every step keeps what a published stop rests on.
LEMMA StopKept ==
  ASSUME Inv, StopInv, "pause" \notin Windows, Next
  PROVE  StopInv'
  <1> USE RunnerAssumption, Typed DEF Inv
  <1>1. CASE Begin
    <2>1. CASE pipe.at \in {"handover", "switch"} /\ begin("switch", "compile", pipe.want)
      BY <1>1, <2>1 DEF Begin, begin, StopInv, Workers, Rest, world, worker
    <2>2. CASE pipe.at = "spawn" /\ begin("start", "compile", pipe.want)
      BY <1>1, <2>2 DEF Begin, begin, StopInv, Workers, Rest, world, worker
    <2>3. CASE pipe.at \in {"prestop", "stop"} /\ begin("stop", "stopping", NoPreset)
      BY <1>1, <2>3 DEF Begin, begin, StopInv, Workers, Rest, world, worker
    <2> QED
      BY <1>1, <2>1, <2>2, <2>3 DEF Begin
  <1>2. CASE CompileFails
    <2>1. ~free /\ leave("failed")
      BY <1>2 DEF CompileFails, OpInv, free, NoOp
    <2> QED
      BY <1>2, <2>1, LeaveEffect DEF CompileFails, StopInv, harmless
  <1>3. CASE CompileStart
    BY <1>3 DEF CompileStart, StopInv, NoOp, harmless, free, is_running, world, worker, Alive
  <1>4. CASE SkipSwitch
    <2>1. CASE leave("stale")
      <3>1. ~free /\ leave("stale")
        BY <1>4, <2>1 DEF SkipSwitch, free
      <3> QED
        BY <1>4, <2>1, <3>1, LeaveEffect DEF SkipSwitch, StopInv
    <2>2. CASE leave("done")
      <3>1. ~free /\ leave("done")
        BY <1>4, <2>2 DEF SkipSwitch, free
      <3> QED
        BY <1>4, <2>2, <3>1, LeaveEffect DEF SkipSwitch, StopInv
    <2> QED
      BY <1>4, <2>1, <2>2 DEF SkipSwitch
  <1>5. CASE CompileSwitch
    BY <1>5 DEF CompileSwitch, same, StopInv, NoOp, harmless, free, is_running, worker
  <1>6. CASE Clean
    <2>1. CASE /\ is_running /\ may("stopping") /\ ask({runner.held})
               /\ runner' = [runner EXCEPT !.held = NoPid, !.state = "idle"]
      <3>1. {runner.held} \in SUBSET Pids /\ ask({runner.held})
        BY <2>1 DEF is_running, Alive
      <3> QED
        BY <1>6, <2>1, <3>1, AskEffect DEF Clean, StopInv, Operations, Kinds, is_running, world,
           worker, to
    <2>2. CASE UNCHANGED <<runner, world>>
      BY <1>6, <2>2 DEF Clean, StopInv, NoOp, harmless, free, is_running, world, worker, to,
         Alive
    <2> QED
      BY <1>6, <2>1, <2>2 DEF Clean, stop_process_only
  <1>7. CASE SweepBeforeSpawn
    <2>1. Alive \in SUBSET Pids /\ ask(Alive)
      BY <1>7 DEF SweepBeforeSpawn, Alive
    <2> QED
      BY <1>7, <2>1, AskEffect DEF SweepBeforeSpawn, StopInv, NoOp, harmless, free, is_running,
         world, worker, to
  <1>8. CASE Recover
    <2>1. Alive \in SUBSET Pids /\ ask(Alive)
      BY <1>8 DEF Recover, Alive
    <2> QED
      BY <1>8, <2>1, AskEffect DEF Recover, StopInv, NoOp, harmless, free, is_running, world,
         worker, to
  <1>9. CASE Ready
    <2>1. CASE leave("failed") /\ UNCHANGED runner
      <3>1. ~free /\ leave("failed")
        BY <1>9, <2>1 DEF Ready, OpInv, NoOp
      <3> QED
        BY <1>9, <2>1, <3>1, LeaveEffect DEF Ready, StopInv, harmless
    <2>2. CASE to("dry") /\ runner' = IF spawning THEN [runner EXCEPT !.path = op.want] ELSE runner
      BY <1>9, <2>2 DEF Ready, StopInv, NoOp, harmless, free, is_running, world, worker, to,
         Alive
    <2> QED
      BY <1>9, <2>1, <2>2 DEF Ready
  <1>10. CASE DryRun
    <2>1. UNCHANGED worker
      BY <1>10 DEF DryRun, to, fail
    <2>2. ~harmless
      BY <1>10 DEF DryRun, harmless, OpInv, NoOp
    <2> QED
      BY <2>1, <2>2 DEF StopInv, worker
  <1>11. CASE Popen
    <2>1. PICK p \in Pids :
          /\ fresh(p) /\ engines' = [engines EXCEPT ![p] = op.want]
          /\ runner' = [runner EXCEPT !.held = p, !.state = "starting",
                 !.applied = IF ~is_running /\ runner.state \in {"running", "starting", "stopping"}
                             THEN NoPreset ELSE @]
          /\ asked' = asked \ {p} /\ told' = told \ {p} /\ left' = left \ {p}
      BY <1>11 DEF Popen
    <2> QED
      BY <1>11, <2>1 DEF Popen, fresh, StopInv, Places, OpInv, harmless, free
  <1>12. CASE PopenRaises
    BY <1>12 DEF PopenRaises, spawn_failed, fail, StopInv, NoOp, harmless, free, is_running,
       world, worker, to, Alive
  <1>13. CASE Confirm
    BY <1>13 DEF Confirm, StopInv, Operations, is_running, worker, to
  <1>14. CASE ExitsInStart
    <2>1. PICK why \in Failures : fail(why)
      BY <1>14 DEF ExitsInStart
    <2> QED
      BY <1>14, <2>1 DEF ExitsInStart, spawn_failed, fail, StopInv, NoOp, harmless, free,
         is_running, world, worker, to, Alive
  <1>15. CASE Placed
    <2>1. {op.old} \ {NoPid} \in SUBSET Pids /\ ask({op.old} \ {NoPid})
      BY <1>15 DEF Placed, TypeOK, Operations, Pid
    <2>2. ~free /\ leave("done")
      BY <1>15 DEF Placed, OpInv, free, NoOp
    <2> QED
      BY <1>15, <2>1, AskEffect, <2>2, LeaveEffect DEF Placed, StopInv, harmless
  <1>16. CASE HandoverFailed
    <2>1. CASE \E is \in {"stale",
    "failed"} : leave(is) /\ runner' = [runner EXCEPT !.held = op.old, !.path = op.path]
      <3>1. PICK is \in {"stale", "failed"} : leave(is)
        BY <1>16, <2>1 DEF HandoverFailed, restore_old
      <3>2. ~free
        BY <1>16 DEF HandoverFailed, restore_old, free
      <3> QED
        BY <1>16, <2>1, <3>2, LeaveEffect DEF HandoverFailed, restore_old, StopInv
    <2>2. CASE UNCHANGED worker /\ op' = [op EXCEPT !.at = "dry", !.attempt = 1,
    !.why = "other"] /\ runner' = [runner EXCEPT !.held = op.old, !.path = op.want]
      BY <1>16, <2>2 DEF HandoverFailed, restore_old, StopInv, NoOp, harmless, free, is_running,
         worker
    <2> QED
      BY <1>16, <2>1, <2>2 DEF HandoverFailed, restore_old
  <1>17. CASE SwitchFailed
    <2>1. CASE leave("failed")
      <3>1. ~free /\ leave("failed")
        BY <1>17, <2>1 DEF SwitchFailed, free
      <3> QED
        BY <1>17, <3>1, LeaveEffect DEF SwitchFailed, StopInv
    <2>2. CASE UNCHANGED worker /\ op' = [op EXCEPT !.at = "recover", !.attempt = 1, !.why = "other"]
      BY <1>17, <2>2 DEF SwitchFailed, StopInv, NoOp, harmless, free, is_running, worker
    <2> QED
      BY <1>17, <2>1, <2>2 DEF SwitchFailed
  <1>18. CASE StartFailed
    <2>1. CASE leave("failed")
      <3>1. ~free /\ leave("failed")
        BY <1>18, <2>1 DEF StartFailed, OpInv, NoOp
      <3> QED
        BY <1>18, <2>1, <3>1, LeaveEffect DEF StartFailed, StopInv, Operations, Kinds, harmless
    <2>2. CASE /\ UNCHANGED worker /\ (transient \/ recoverable \/ repairable)
               /\ op' = [op EXCEPT !.at = "compile", !.attempt = @ + 1, !.why = "other",
                                   !.recover = ~transient]
      BY <1>18, <2>2 DEF StartFailed, StopInv, Operations, Kinds, Places, OpInv, PipeInv, Rest,
         NoOp, harmless, worker
    <2> QED
      BY <1>18, <2>1, <2>2 DEF StartFailed
  <1>19. CASE StopRaises
    <2>1. ~free /\ leave("failed")
      BY <1>19 DEF StopRaises, OpInv, free, NoOp
    <2> QED
      BY <1>19, <2>1, LeaveEffect DEF StopRaises, StopInv, Operations, Places, OpInv
  <1>20. CASE StopHeld
    <2>1. {runner.held} \cap Alive \in SUBSET Pids /\ ask({runner.held} \cap Alive)
      BY <1>20 DEF StopHeld, Alive
    <2> QED
      BY <1>20, <2>1, AskEffect DEF StopHeld, StopInv, NoOp, harmless, free, is_running, world,
         worker, to
  <1>21. CASE StopRest
    <2>1. Alive \in SUBSET Pids /\ ask(Alive)
      BY <1>21 DEF StopRest, Alive
    <2>2. PICK is \in {"done", "failed"} : leave(is)
      BY <1>21 DEF StopRest
    <2>3. ~free
      BY <1>21 DEF StopRest, OpInv, free, NoOp
    <2> QED
      BY <1>21, <2>3, LeaveEffect DEF StopRest, StopInv
  <1>22. CASE Pause
    BY <1>22 DEF Pause, begin, StopInv, Operations, is_running, worker
  <1>23. CASE PauseExits
    <2>1. CASE /\ is_running /\ may("stopping") /\ ask({runner.held})
               /\ runner' = [runner EXCEPT !.held = NoPid, !.state = "idle"]
      <3>1. {runner.held} \in SUBSET Pids /\ ask({runner.held})
        BY <2>1 DEF is_running, Alive
      <3> QED
        BY <1>23, <2>1, <3>1, AskEffect DEF PauseExits, StopInv, Operations, Kinds, is_running,
           world, worker, to
    <2>2. CASE UNCHANGED <<runner, world>>
      BY <1>23, <2>2 DEF PauseExits, StopInv, Operations, ResidualInv, TypeOK, NoOp, harmless,
         free, is_running, world, worker, to, Alive
    <2> QED
      BY <1>23, <2>1, <2>2 DEF PauseExits, stop_process_only
  <1>24. CASE PauseRefused
    <2>1. ~free /\ leave("failed")
      BY <1>24 DEF PauseRefused, OpInv, free, NoOp
    <2> QED
      BY <1>24, <2>1, LeaveEffect DEF PauseRefused, StopInv, NoOp, harmless, world, worker, to,
         Alive
  <1>25. CASE DirectRequestEnds
    BY <1>25 DEF DirectRequestEnds, StopInv, NoOp, harmless, free, is_running, world, worker, to,
       Alive
  <1>26. CASE Request
    BY <1>26 DEF Request, StopInv, Rest
  <1>27. CASE Probe
    BY <1>27 DEF Probe, move, report, StopInv, Rest
  <1>28. CASE Adopt
    <2>1. PICK p \in Alive : /\ runner' = [runner EXCEPT !.held = p, !.extra = Alive \ {p}]
          /\ watchers' = [watchers EXCEPT ![p] = "none"]
      BY <1>28 DEF Adopt
    <2> QED
      BY <1>28, <2>1 DEF Adopt, move, StopInv, Rest
  <1>29. CASE AdoptNone
    BY <1>29 DEF AdoptNone, move, StopInv, Rest
  <1>30. CASE StopExtras
    <2>1. runner.extra \in SUBSET Pids /\ ask(runner.extra)
      BY <1>30 DEF StopExtras, TypeOK, Runners
    <2> QED
      BY <1>30 DEF StopExtras, report, StopInv
  <1>31. CASE NothingToStop
    BY <1>31 DEF NothingToStop, report, StopInv, Operations, Kinds, Places, OpInv, PipeInv,
       ResidualInv, TypeOK, NoOp, harmless, free, is_running, world, worker, to, Alive
  <1>32. CASE Look
    BY <1>32 DEF Look, move, StopInv, Rest
  <1>33. CASE StopResidual
    <2>1. CASE pipe.kind = "stop"
      <3>1. Alive \in SUBSET Pids /\ ask(Alive)
        BY <1>33 DEF StopResidual, Alive
      <3> QED
        BY <1>33, <2>1, <3>1, AskEffect DEF StopResidual, move, report, forget_runner, StopInv,
           Operations, Kinds, ResidualInv, TypeOK, Workers, Rest, NoOp, harmless, free,
           is_running
    <2>2. CASE pipe.kind = "start"
      <3>1. Alive \in SUBSET Pids /\ ask(Alive)
        BY <1>33 DEF StopResidual, Alive
      <3> QED
        BY <1>33, <2>2, <3>1, AskEffect DEF StopResidual, move, report, forget_runner, StopInv,
           Operations, Kinds, Rest
    <2> QED
      BY <1>33, <2>1, <2>2 DEF StopResidual, PipeInv, Seats, TypeOK, Workers
  <1>34. ASSUME NEW p \in Pids, Watch(p) PROVE StopInv'
    BY <1>34 DEF Watch, StopInv, NoOp, harmless, free, is_running, world, worker, Alive
  <1>35. ASSUME NEW p \in Pids, WatchMatched(p) PROVE StopInv'
    BY <1>35 DEF WatchMatched, expected, StopInv, NoOp, harmless, free, is_running, world,
       worker, Alive
  <1>36. ASSUME NEW p \in Pids, Die(p) PROVE StopInv'
    BY <1>36 DEF Die, StopInv, worker
  <1> QED
    BY <1>1, <1>2, <1>3, <1>4, <1>5, <1>6, <1>7, <1>8, <1>9, <1>10, <1>11, <1>12, <1>13, <1>14,
       <1>15, <1>16, <1>17, <1>18, <1>19, <1>20, <1>21, <1>22, <1>23, <1>24, <1>25, <1>26, <1>27,
       <1>28, <1>29, <1>30, <1>31, <1>32, <1>33, <1>34, <1>35, <1>36 DEF Next, Operation,
       Starting, Stopping, Pausing, Working, Watching, Environment

\* Every step keeps what the runner says it applied.
LEMMA AppliedKept ==
  ASSUME Inv, AppliedInv, "adopt" \notin Windows, Next
  PROVE  AppliedInv'
  <1> USE RunnerAssumption, Typed DEF Inv
  <1>1. CASE Begin
    <2>1. CASE pipe.at \in {"handover", "switch"} /\ begin("switch", "compile", pipe.want)
      BY <1>1, <2>1 DEF Begin, begin, AppliedInv, past_clean, swept, spawned, Operations, Kinds,
         Places, OpInv, PipeInv, HandoverInv, harmless, free, spawning, is_running, world,
         worker, to, Alive
    <2>2. CASE pipe.at = "spawn" /\ begin("start", "compile", pipe.want)
      BY <1>1, <2>2 DEF Begin, begin, AppliedInv, past_clean, swept, spawned, Operations, Kinds,
         Places, OpInv, PipeInv, HandoverInv, harmless, free, spawning, is_running, world,
         worker, to, Alive
    <2>3. CASE pipe.at \in {"prestop", "stop"} /\ begin("stop", "stopping", NoPreset)
      BY <1>1, <2>3 DEF Begin, begin, AppliedInv, past_clean, swept, spawned, Operations, Kinds,
         Places, OpInv, PipeInv, HandoverInv, harmless, free, spawning, is_running, world,
         worker, to, Alive
    <2> QED
      BY <1>1, <2>1, <2>2, <2>3 DEF Begin
  <1>2. CASE CompileFails
    <2>1. ~free /\ leave("failed")
      BY <1>2 DEF CompileFails, OpInv, free, NoOp
    <2> QED
      BY <1>2, <2>1, LeaveEffect DEF CompileFails, AppliedInv, past_clean, swept, spawned,
         Operations, Kinds, Places, OpInv, PipeInv, HandoverInv, harmless, free, spawning,
         is_running, world, worker, to, Alive
  <1>3. CASE CompileStart
    BY <1>3 DEF CompileStart, AppliedInv, past_clean, swept, spawned, spawning, is_running,
       world, worker, to, Alive
  <1>4. CASE SkipSwitch
    <2>1. CASE leave("stale")
      <3>1. ~free /\ leave("stale")
        BY <1>4, <2>1 DEF SkipSwitch, free
      <3> QED
        BY <1>4, <2>1, <3>1, LeaveEffect DEF SkipSwitch, same, AppliedInv, past_clean, swept,
           spawned, Operations, Kinds, Places, OpInv, PipeInv, harmless, free, spawning,
           is_running, world, worker, to, Alive
    <2>2. CASE leave("done")
      <3>1. ~free /\ leave("done")
        BY <1>4, <2>2 DEF SkipSwitch, free
      <3> QED
        BY <1>4, <2>2, <3>1, LeaveEffect DEF SkipSwitch, same, AppliedInv, past_clean, swept,
           spawned, Operations, EngineInv, NoOp, world, worker
    <2> QED
      BY <1>4, <2>1, <2>2 DEF SkipSwitch
  <1>5. CASE CompileSwitch
    BY <1>5 DEF CompileSwitch, same, AppliedInv, past_clean, swept, spawned, spawning,
       is_running, world, worker, to, Alive
  <1>6. CASE Clean
    <2>1. op'.kind = op.kind /\ op'.at = "sweep" /\ op'.old = NoPid
      BY <1>6 DEF Clean, to, HandoverInv
    <2>2. CASE is_running /\ may("stopping")
      BY <1>6, <2>1, <2>2, RunnerAssumption DEF Clean, stop_process_only, AppliedInv, is_running,
         Alive, TypeOK, Runners
    <2>3. CASE ~(is_running /\ may("stopping"))
      <3>1. UNCHANGED <<runner, world>>
        BY <1>6, <2>3 DEF Clean, stop_process_only
      <3>2. is_running => runner.state = "idle"
        BY <1>6, <2>3 DEF Clean, HandoverInv, may, ALLOWED, States, TypeOK, Runners
      <3> QED
        BY <1>6, <2>1, <3>1, <3>2 DEF AppliedInv, Clean, is_running, Alive, world
    <2> QED
      BY <2>2, <2>3
  <1>7. CASE SweepBeforeSpawn
    <2>1. Alive \in SUBSET Pids /\ ask(Alive)
      BY <1>7 DEF SweepBeforeSpawn, Alive
    <2> QED
      BY <1>7, <2>1, AskEffect DEF SweepBeforeSpawn, AppliedInv, past_clean, spawning,
         is_running, to, Alive
  <1>8. CASE Recover
    <2>1. Alive \in SUBSET Pids /\ ask(Alive)
      BY <1>8 DEF Recover, Alive
    <2> QED
      BY <1>8, <2>1, AskEffect DEF Recover, AppliedInv, past_clean, swept, spawned, Operations,
         Kinds, Places, OpInv, PipeInv, HandoverInv, ResidualInv, EngineInv, TypeOK, Runners,
         harmless, free, spawning, is_running, to, Alive
  <1>9. CASE Ready
    <2>1. CASE leave("failed") /\ UNCHANGED runner
      <3>1. ~free /\ leave("failed")
        BY <1>9, <2>1 DEF Ready, OpInv, NoOp
      <3> QED
        BY <1>9, <2>1, <3>1, LeaveEffect DEF Ready, AppliedInv, past_clean, swept, spawned,
           Operations, Kinds, Places, OpInv, PipeInv, HandoverInv, harmless, free, spawning,
           is_running, world, worker, to, Alive
    <2>2. CASE to("dry") /\ runner' = IF spawning THEN [runner EXCEPT !.path = op.want] ELSE runner
      BY <1>9, <2>2 DEF Ready, AppliedInv, past_clean, swept, spawned, spawning, is_running,
         world, worker, to, Alive
    <2> QED
      BY <1>9, <2>1, <2>2 DEF Ready
  <1>10. CASE DryRun
    <2>1. PICK why \in Failures : op' \in {[op EXCEPT !.at = "popen"], [op EXCEPT !.at = "failed",
    !.why = why]}
      BY <1>10 DEF DryRun, to, fail, Failures
    <2>2. op'.kind = op.kind /\ op'.at \in {"popen", "failed"} /\ op'.old = op.old
                             /\ op'.recover = op.recover
      <3>1. CASE op' = [op EXCEPT !.at = "popen"]
        BY <3>1 DEF TypeOK, Operations
      <3>2. CASE op' = [op EXCEPT !.at = "failed", !.why = why]
        BY <3>2 DEF TypeOK, Operations
      <3> QED
        BY <2>1, <3>1, <3>2
    <2>3. runner' = runner \/ runner' = [runner EXCEPT !.state = "failed"]
      BY <1>10 DEF DryRun
    <2> QED
      BY <1>10, <2>2, <2>3 DEF AppliedInv, DryRun, world, is_running, Alive, past_clean, swept,
         spawned, spawning, TypeOK, Runners, HandoverInv
  <1>11. CASE Popen
    <2>1. PICK p \in Pids :
          /\ fresh(p) /\ engines' = [engines EXCEPT ![p] = op.want]
          /\ runner' = [runner EXCEPT !.held = p, !.state = "starting",
                 !.applied = IF ~is_running /\ runner.state \in {"running", "starting", "stopping"}
                             THEN NoPreset ELSE @]
          /\ asked' = asked \ {p} /\ told' = told \ {p} /\ left' = left \ {p}
      BY <1>11 DEF Popen
    <2> QED
      BY <1>11, <2>1 DEF Popen, fresh, AppliedInv, past_clean, swept, spawned, Places, OpInv
  <1>12. CASE PopenRaises
    BY <1>12 DEF PopenRaises, spawn_failed, fail, AppliedInv
  <1>13. CASE Confirm
    BY <1>13 DEF Confirm, AppliedInv, past_clean, swept, spawned, spawning, is_running, to, Alive
  <1>14. CASE ExitsInStart
    <2>1. PICK why \in Failures : fail(why)
      BY <1>14 DEF ExitsInStart
    <2> QED
      BY <1>14, <2>1 DEF ExitsInStart, spawn_failed, fail, AppliedInv
  <1>15. CASE Placed
    <2>1. {op.old} \ {NoPid} \in SUBSET Pids /\ ask({op.old} \ {NoPid})
      BY <1>15 DEF Placed, TypeOK, Operations, Pid
    <2>2. ~free /\ leave("done")
      BY <1>15 DEF Placed, OpInv, free, NoOp
    <2> QED
      BY <1>15, <2>1, AskEffect, <2>2, LeaveEffect DEF Placed, AppliedInv, past_clean, swept,
         spawned, Operations, Kinds, Places, OpInv, PipeInv, HandoverInv, ResidualInv, EngineInv,
         TypeOK, Runners, harmless, free, spawning, is_running
  <1>16. CASE HandoverFailed
    <2>1. CASE \E is \in {"stale",
    "failed"} : leave(is) /\ runner' = [runner EXCEPT !.held = op.old, !.path = op.path]
      <3>1. PICK is \in {"stale", "failed"} : leave(is)
        BY <1>16, <2>1 DEF HandoverFailed, restore_old
      <3>2. ~free
        BY <1>16 DEF HandoverFailed, restore_old, free
      <3> QED
        BY <1>16, <2>1, <3>1, <3>2, LeaveEffect DEF HandoverFailed, restore_old, AppliedInv,
           past_clean,
           swept, spawned, Operations, HandoverInv, ResidualInv, EngineInv, NoOp, spawning,
           is_running, world, worker, to, Alive
    <2>2. CASE UNCHANGED worker /\ op' = [op EXCEPT !.at = "dry", !.attempt = 1,
    !.why = "other"] /\ runner' = [runner EXCEPT !.held = op.old, !.path = op.want]
      BY <1>16, <2>2 DEF HandoverFailed, restore_old, AppliedInv, past_clean, swept, spawned,
         Operations,
         Kinds, Places, OpInv, PipeInv, HandoverInv, harmless, free, spawning, is_running, world,
         worker, to, Alive
    <2> QED
      BY <1>16, <2>1, <2>2 DEF HandoverFailed, restore_old
  <1>17. CASE SwitchFailed
    <2>1. CASE leave("failed")
      <3>1. ~free /\ leave("failed")
        BY <1>17, <2>1 DEF SwitchFailed, free
      <3> QED
        BY <1>17, <2>1, <3>1, LeaveEffect DEF SwitchFailed, AppliedInv, past_clean, Places,
           OpInv, PipeInv, HandoverInv, harmless, free, spawning, is_running, world, worker, to,
           Alive
    <2>2. CASE UNCHANGED worker /\ op' = [op EXCEPT !.at = "recover", !.attempt = 1, !.why = "other"]
      BY <1>17, <2>2 DEF SwitchFailed, AppliedInv, past_clean, swept, spawned, spawning,
         is_running, world, worker, to, Alive
    <2> QED
      BY <1>17, <2>1, <2>2 DEF SwitchFailed
  <1>18. CASE StartFailed
    <2>1. CASE leave("failed")
      <3>1. ~free /\ leave("failed")
        BY <1>18, <2>1 DEF StartFailed, OpInv, NoOp
      <3> QED
        BY <1>18, <2>1, <3>1, LeaveEffect DEF StartFailed, transient, recoverable, repairable,
           AppliedInv, past_clean, swept, NoOp, spawning, is_running, world, worker, to, Alive
    <2>2. CASE /\ UNCHANGED worker /\ (transient \/ recoverable \/ repairable)
               /\ op' = [op EXCEPT !.at = "compile", !.attempt = @ + 1, !.why = "other",
                                   !.recover = ~transient]
      BY <1>18, <2>2 DEF StartFailed, transient, recoverable, repairable, AppliedInv, past_clean,
         swept, NoOp, spawning, is_running, world, worker, to, Alive
    <2> QED
      BY <1>18, <2>1, <2>2 DEF StartFailed
  <1>19. CASE StopRaises
    <2>1. ~free /\ leave("failed")
      BY <1>19 DEF StopRaises, OpInv, free, NoOp
    <2> QED
      BY <1>19, <2>1, LeaveEffect DEF StopRaises, AppliedInv, past_clean, Places, OpInv, PipeInv,
         HandoverInv, ResidualInv, EngineInv, TypeOK, Runners, Pid, Preset, States, may, ALLOWED,
         Workers, Rest, NoOp
  <1>20. CASE StopHeld
    <2>1. {runner.held} \cap Alive \in SUBSET Pids /\ ask({runner.held} \cap Alive)
      BY <1>20 DEF StopHeld, Alive
    <2> QED
      BY <1>20, <2>1, AskEffect DEF StopHeld, AppliedInv, past_clean, swept, spawned, Operations,
         Kinds, Places, OpInv, PipeInv, HandoverInv, ResidualInv, EngineInv, TypeOK, Runners,
         harmless, free, spawning, is_running, to, Alive
  <1>21. CASE StopRest
    <2>1. Alive \in SUBSET Pids /\ ask(Alive)
      BY <1>21 DEF StopRest, Alive
    <2>2. PICK is \in {"done", "failed"} : leave(is)
      BY <1>21 DEF StopRest
    <2>3. ~free
      BY <1>21 DEF StopRest, OpInv, free, NoOp
    <2> QED
      BY <1>21, <2>1, AskEffect, <2>2, <2>3, LeaveEffect DEF StopRest, AppliedInv, past_clean,
         swept, NoOp, spawning, is_running
  <1>22. CASE Pause
    BY <1>22 DEF Pause, begin, AppliedInv, past_clean, swept, spawned, Operations, Kinds, Places,
       OpInv, Rest, NoOp
  <1>23. CASE PauseExits
    <2>1. CASE /\ is_running /\ may("stopping") /\ ask({runner.held})
               /\ runner' = [runner EXCEPT !.held = NoPid, !.state = "idle"]
      <3>1. {runner.held} \in SUBSET Pids /\ ask({runner.held})
        BY <2>1 DEF is_running, Alive
      <3> QED
        BY <1>23, <2>1, <3>1, AskEffect DEF PauseExits, AppliedInv, past_clean, swept, spawned,
           Operations, Kinds, ResidualInv, EngineInv, TypeOK, Runners, harmless, free, spawning,
           is_running, to, Alive
    <2>2. CASE UNCHANGED <<runner, world>>
      BY <1>23, <2>2 DEF PauseExits, AppliedInv, past_clean, swept, spawned, Operations, Kinds,
         ResidualInv, EngineInv, TypeOK, Runners, harmless, free, spawning, is_running, world,
         worker, to, Alive
    <2> QED
      BY <1>23, <2>1, <2>2 DEF PauseExits, stop_process_only
  <1>24. CASE PauseRefused
    <2>1. ~free /\ leave("failed")
      BY <1>24 DEF PauseRefused, OpInv, free, NoOp
    <2> QED
      BY <1>24, <2>1, LeaveEffect DEF PauseRefused, AppliedInv, past_clean, swept, spawned,
         Operations, Kinds, Places, OpInv, PipeInv, HandoverInv, harmless, free, spawning,
         is_running, world, worker, to, Alive
  <1>25. CASE DirectRequestEnds
    BY <1>25 DEF DirectRequestEnds, AppliedInv, past_clean, swept, spawned, spawning, is_running,
       world, worker, to, Alive
  <1>26. CASE Request
    BY <1>26 DEF Request, AppliedInv, past_clean, spawning, is_running, to, Alive
  <1>27. CASE Probe
    BY <1>27 DEF Probe, move, report, AppliedInv, past_clean, spawning, is_running, world,
       worker, to, Alive
  <1>28. CASE Adopt
    <2>1. PICK p \in Alive : /\ runner' = [runner EXCEPT !.held = p, !.extra = Alive \ {p}]
          /\ watchers' = [watchers EXCEPT ![p] = "none"]
      BY <1>28 DEF Adopt
    <2> QED
      BY <1>28, <2>1 DEF Adopt, move, AppliedInv, past_clean, Places, OpInv, PipeInv, HandoverInv
  <1>29. CASE AdoptNone
    BY <1>29 DEF AdoptNone, move, AppliedInv, past_clean, spawning, is_running, world, worker,
       to, Alive
  <1>30. CASE StopExtras
    <2>1. runner.extra \in SUBSET Pids /\ ask(runner.extra)
      BY <1>30 DEF StopExtras, TypeOK, Runners
    <2> QED
      BY <1>30, <2>1, AskEffect DEF StopExtras, report, AppliedInv, past_clean, Places, OpInv,
         PipeInv, HandoverInv, harmless, free, spawning, is_running, to, Alive
  <1>31. CASE NothingToStop
    BY <1>31 DEF NothingToStop, report, AppliedInv, past_clean, spawning, is_running, world,
       worker, to, Alive
  <1>32. CASE Look
    BY <1>32 DEF Look, move, AppliedInv, past_clean, spawning, is_running, world, worker, to,
       Alive
  <1>33. CASE StopResidual
    <2>1. ask(Alive) /\ Alive \in SUBSET Pids
      BY <1>33 DEF StopResidual, Alive
    <2>2. runner.state = "idle" /\ op.at \notin {"placed", "failed"} /\ op.kind # "switch"
      BY <1>33 DEF StopResidual, ResidualInv, harmless, OpInv, NoOp
    <2>3. runner' = runner \/ runner' = FreshRunner
      BY <1>33 DEF StopResidual, forget_runner
    <2>4. UNCHANGED op
      BY <1>33 DEF StopResidual
    <2>5. CASE runner' = FreshRunner
      BY <2>2, <2>4, <2>5 DEF AppliedInv, FreshRunner
    <2>6. CASE runner' = runner
      <3>1. is_running' => is_running /\ runner.applied = NoPreset
        BY <2>1, <2>2, <2>6, AskEffect DEF AppliedInv, is_running
      <3> QED
        BY <2>2, <2>4, <2>6, <3>1 DEF AppliedInv
    <2> QED
      BY <2>3, <2>5, <2>6
  <1>34. ASSUME NEW p \in Pids, Watch(p) PROVE AppliedInv'
    BY <1>34 DEF Watch, AppliedInv, past_clean, spawning, is_running, world, worker, to, Alive
  <1>35. ASSUME NEW p \in Pids, WatchMatched(p) PROVE AppliedInv'
    BY <1>35 DEF WatchMatched, expected, AppliedInv, past_clean, spawning, is_running, world,
       worker, to, Alive
  <1>36. ASSUME NEW p \in Pids, Die(p) PROVE AppliedInv'
    BY <1>36 DEF Die, AppliedInv, past_clean, spawning, is_running, to, Alive
  <1> QED
    BY <1>1, <1>2, <1>3, <1>4, <1>5, <1>6, <1>7, <1>8, <1>9, <1>10, <1>11, <1>12, <1>13, <1>14,
       <1>15, <1>16, <1>17, <1>18, <1>19, <1>20, <1>21, <1>22, <1>23, <1>24, <1>25, <1>26, <1>27,
       <1>28, <1>29, <1>30, <1>31, <1>32, <1>33, <1>34, <1>35, <1>36 DEF Next, Operation,
       Starting, Stopping, Pausing, Working, Watching, Environment

\* Every step keeps what the traffic goes through during an operation.
LEMMA ServingKept ==
  ASSUME Inv, ServingInv, AppliedInv, "adopt" \notin Windows, Next
  PROVE  ServingInv'
  <1> USE RunnerAssumption, Typed DEF Inv
  <1>1. CASE Begin
    <2>1. CASE pipe.at \in {"handover", "switch"} /\ begin("switch", "compile", pipe.want)
      BY <1>1, <2>1 DEF Begin, begin, ServingInv, serving, server, same, AppliedInv, Kinds,
         Places, OpInv, PipeInv, HandoverInv, ResidualInv, EngineInv, NoOp, world, worker, to,
         Alive
    <2>2. CASE pipe.at = "spawn" /\ begin("start", "compile", pipe.want)
      BY <1>1, <2>2 DEF Begin, begin, ServingInv, serving, server, same, AppliedInv, Kinds,
         Places, OpInv, PipeInv, HandoverInv, ResidualInv, EngineInv, NoOp, world, worker, to,
         Alive
    <2>3. CASE pipe.at \in {"prestop", "stop"} /\ begin("stop", "stopping", NoPreset)
      BY <1>1, <2>3 DEF Begin, begin, ServingInv, serving, server, same, AppliedInv, Kinds,
         Places, OpInv, PipeInv, HandoverInv, ResidualInv, EngineInv, NoOp, world, worker, to,
         Alive
    <2> QED
      BY <1>1, <2>1, <2>2, <2>3 DEF Begin
  <1>2. CASE CompileFails
    <2>1. ~free /\ leave("failed")
      BY <1>2 DEF CompileFails, OpInv, free, NoOp
    <2> QED
      BY <1>2, <2>1, LeaveEffect DEF CompileFails, ServingInv, serving, swept, NoOp
  <1>3. CASE CompileStart
    BY <1>3 DEF CompileStart, ServingInv, serving, server, same, world, worker, to, Alive
  <1>4. CASE SkipSwitch
    <2>1. CASE leave("stale")
      <3>1. ~free /\ leave("stale")
        BY <1>4, <2>1 DEF SkipSwitch, free
      <3> QED
        BY <2>1, <3>1, LeaveEffect DEF SkipSwitch, same, ServingInv, swept, NoOp
    <2>2. CASE leave("done")
      <3>1. ~free /\ leave("done")
        BY <1>4, <2>2 DEF SkipSwitch, free
      <3> QED
        BY <2>2, <3>1, LeaveEffect DEF SkipSwitch, same, ServingInv, swept, NoOp
    <2> QED
      BY <1>4, <2>1, <2>2 DEF SkipSwitch
  <1>5. CASE CompileSwitch
    BY <1>5 DEF CompileSwitch, same, ServingInv, serving, server, AppliedInv, HandoverInv,
       ResidualInv, world, worker, to, Alive
  <1>6. CASE Clean
    <2>1. CASE /\ is_running /\ may("stopping") /\ ask({runner.held})
               /\ runner' = [runner EXCEPT !.held = NoPid, !.state = "idle"]
      <3>1. {runner.held} \in SUBSET Pids /\ ask({runner.held})
        BY <2>1 DEF is_running, Alive
      <3> QED
        BY <1>6, <2>1, <3>1, AskEffect DEF Clean, ServingInv, serving, server, same, AppliedInv,
           Kinds, Places, OpInv, PipeInv, HandoverInv, ResidualInv, EngineInv, NoOp, to, Alive
    <2>2. CASE UNCHANGED <<runner, world>>
      BY <1>6, <2>2 DEF Clean, ServingInv, serving, server, same, AppliedInv, Kinds, Places,
         OpInv, PipeInv, world, worker, to, Alive
    <2> QED
      BY <1>6, <2>1, <2>2 DEF Clean, stop_process_only
  <1>7. CASE SweepBeforeSpawn
    <2>1. Alive \in SUBSET Pids /\ ask(Alive)
      BY <1>7 DEF SweepBeforeSpawn, Alive
    <2> QED
      BY <1>7, <2>1, AskEffect DEF SweepBeforeSpawn, ServingInv, serving, spawning, is_running,
         to, Alive
  <1>8. CASE Recover
    <2>1. Alive \in SUBSET Pids /\ ask(Alive)
      BY <1>8 DEF Recover, Alive
    <2> QED
      BY <1>8, <2>1, AskEffect DEF Recover, ServingInv, serving, server, same, AppliedInv,
         HandoverInv, ResidualInv, EngineInv, NoOp, harmless, free, spawning, is_running, to,
         Alive
  <1>9. CASE Ready
    <2>1. CASE leave("failed") /\ UNCHANGED runner
      <3>1. ~free /\ leave("failed")
        BY <1>9, <2>1 DEF Ready, OpInv, NoOp
      <3> QED
        BY <2>1, <3>1, LeaveEffect DEF Ready, ServingInv, serving, swept, NoOp
    <2>2. CASE to("dry") /\ runner' = IF spawning THEN [runner EXCEPT !.path = op.want] ELSE runner
      BY <1>9, <2>2 DEF Ready, ServingInv, serving, server, same, world, worker, to, Alive
    <2> QED
      BY <1>9, <2>1, <2>2 DEF Ready
  <1>10. CASE DryRun
    <2>1. PICK why \in Failures : op' \in {[op EXCEPT !.at = "popen"], [op EXCEPT !.at = "failed",
    !.why = why]}
      BY <1>10 DEF DryRun, to, fail, Failures
    <2>2. op' = [op EXCEPT !.at = op'.at, !.why = op'.why] /\ op'.at \in {"popen", "failed"}
      <3>1. CASE op' = [op EXCEPT !.at = "popen"]
        BY <3>1 DEF TypeOK, Operations
      <3>2. CASE op' = [op EXCEPT !.at = "failed", !.why = why]
        BY <3>2 DEF TypeOK, Operations
      <3> QED
        BY <2>1, <3>1, <3>2
    <2>3. runner'.held = runner.held
      BY <1>10 DEF DryRun, TypeOK, Runners
    <2>4. serving' = serving
      BY <1>10, <2>2, <2>3 DEF DryRun, world, serving, server, Alive, TypeOK, Operations
    <2> QED
      BY <1>10, <2>2, <2>4 DEF ServingInv, DryRun, TypeOK, Operations, OpInv, Places
  <1>11. CASE Popen
    <2>1. PICK p \in Pids :
          /\ fresh(p) /\ engines' = [engines EXCEPT ![p] = op.want]
          /\ runner' = [runner EXCEPT !.held = p, !.state = "starting",
                 !.applied = IF ~is_running /\ runner.state \in {"running", "starting", "stopping"}
                             THEN NoPreset ELSE @]
          /\ asked' = asked \ {p} /\ told' = told \ {p} /\ left' = left \ {p}
      BY <1>11 DEF Popen
    <2> QED
      BY <1>11, <2>1 DEF Popen, fresh, ServingInv, serving, server, same, AppliedInv,
         HandoverInv, ResidualInv, EngineInv, NoOp, harmless, free, spawning, is_running, to,
         Alive
  <1>12. CASE PopenRaises
    BY <1>12 DEF PopenRaises, spawn_failed, fail, ServingInv, serving, server, same, AppliedInv,
       HandoverInv, ResidualInv, EngineInv, NoOp, harmless, free, spawning, is_running, world,
       worker, to, Alive
  <1>13. CASE Confirm
    BY <1>13 DEF Confirm, ServingInv, serving, server, same, AppliedInv, HandoverInv,
       ResidualInv, world, worker, to, Alive
  <1>14. CASE ExitsInStart
    <2>1. PICK why \in Failures : fail(why)
      BY <1>14 DEF ExitsInStart
    <2> QED
      BY <1>14, <2>1 DEF ExitsInStart, spawn_failed, fail, ServingInv, serving, server, same,
         AppliedInv, HandoverInv, ResidualInv, EngineInv, NoOp, to, Alive
  <1>15. CASE Placed
    <2>1. {op.old} \ {NoPid} \in SUBSET Pids /\ ask({op.old} \ {NoPid})
      BY <1>15 DEF Placed, TypeOK, Operations, Pid
    <2>2. ~free /\ leave("done")
      BY <1>15 DEF Placed, OpInv, free, NoOp
    <2> QED
      BY <1>15, <2>2, LeaveEffect DEF Placed, ServingInv, NoOp, harmless
  <1>16. CASE HandoverFailed
    <2>1. CASE \E is \in {"stale",
    "failed"} : leave(is) /\ runner' = [runner EXCEPT !.held = op.old, !.path = op.path]
      <3>1. PICK is \in {"stale", "failed"} : leave(is)
        BY <1>16, <2>1 DEF HandoverFailed, restore_old
      <3>2. ~free
        BY <1>16 DEF HandoverFailed, restore_old, free
      <3> QED
        BY <1>16, <2>1, <3>1, <3>2, LeaveEffect DEF HandoverFailed, restore_old, ServingInv, NoOp,
           harmless
    <2>2. CASE UNCHANGED worker /\ op' = [op EXCEPT !.at = "dry", !.attempt = 1,
    !.why = "other"] /\ runner' = [runner EXCEPT !.held = op.old, !.path = op.want]
      BY <1>16, <2>2 DEF HandoverFailed, restore_old, ServingInv, serving, server, same, AppliedInv,
         HandoverInv, ResidualInv, world, worker, to, Alive
    <2> QED
      BY <1>16, <2>1, <2>2 DEF HandoverFailed, restore_old
  <1>17. CASE SwitchFailed
    <2>1. CASE leave("failed")
      <3>1. ~free /\ leave("failed")
        BY <1>17, <2>1 DEF SwitchFailed, free
      <3> QED
        BY <2>1, <3>1, LeaveEffect DEF SwitchFailed, ServingInv, serving, swept, NoOp
    <2>2. CASE UNCHANGED worker /\ op' = [op EXCEPT !.at = "recover", !.attempt = 1, !.why = "other"]
      BY <1>17, <2>2 DEF SwitchFailed, ServingInv, serving, server, same, world, worker, to,
         Alive
    <2> QED
      BY <1>17, <2>1, <2>2 DEF SwitchFailed
  <1>18. CASE StartFailed
    <2>1. CASE leave("failed")
      <3>1. ~free /\ leave("failed")
        BY <1>18, <2>1 DEF StartFailed, OpInv, NoOp
      <3> QED
        BY <3>1, LeaveEffect DEF StartFailed, repairable, ServingInv, NoOp, harmless
    <2>2. CASE /\ UNCHANGED worker /\ (transient \/ recoverable \/ repairable)
               /\ op' = [op EXCEPT !.at = "compile", !.attempt = @ + 1, !.why = "other",
                                   !.recover = ~transient]
      BY <1>18, <2>2 DEF StartFailed, repairable, ServingInv, serving, server, world, worker, to,
         Alive
    <2> QED
      BY <1>18, <2>1, <2>2 DEF StartFailed
  <1>19. CASE StopRaises
    <2>1. ~free /\ leave("failed")
      BY <1>19 DEF StopRaises, OpInv, free, NoOp
    <2> QED
      BY <1>19, <2>1, LeaveEffect DEF StopRaises, ServingInv, serving, swept, NoOp
  <1>20. CASE StopHeld
    <2>1. {runner.held} \cap Alive \in SUBSET Pids /\ ask({runner.held} \cap Alive)
      BY <1>20 DEF StopHeld, Alive
    <2> QED
      BY <1>20, <2>1, AskEffect DEF StopHeld, ServingInv, serving, server, same, AppliedInv,
         Kinds, Places, OpInv, PipeInv, HandoverInv, ResidualInv, EngineInv, NoOp, to, Alive
  <1>21. CASE StopRest
    <2>1. Alive \in SUBSET Pids /\ ask(Alive)
      BY <1>21 DEF StopRest, Alive
    <2>2. PICK is \in {"done", "failed"} : leave(is)
      BY <1>21 DEF StopRest
    <2>3. ~free
      BY <1>21 DEF StopRest, OpInv, free, NoOp
    <2> QED
      BY <2>1, AskEffect, <2>2, <2>3, LeaveEffect DEF StopRest, ServingInv, NoOp, harmless
  <1>22. CASE Pause
    BY <1>22 DEF Pause, begin, ServingInv, serving, server, same, AppliedInv, Kinds, Places,
       OpInv, PipeInv, HandoverInv, ResidualInv, EngineInv, NoOp, spawning, is_running
  <1>23. CASE PauseExits
    <2>1. CASE /\ is_running /\ may("stopping") /\ ask({runner.held})
               /\ runner' = [runner EXCEPT !.held = NoPid, !.state = "idle"]
      <3>1. {runner.held} \in SUBSET Pids /\ ask({runner.held})
        BY <2>1 DEF is_running, Alive
      <3> QED
        BY <1>23, <2>1, <3>1, AskEffect DEF PauseExits, ServingInv, serving, server, same,
           AppliedInv, past_clean, swept, spawned, Operations, Kinds, Places, OpInv, PipeInv,
           HandoverInv, ResidualInv, EngineInv, TypeOK, Runners, world, worker, to, Alive
    <2>2. CASE UNCHANGED <<runner, world>>
      BY <1>23, <2>2 DEF PauseExits, ServingInv, serving, server, same, AppliedInv, past_clean,
         swept, spawned, Operations, Kinds, ResidualInv, EngineInv, TypeOK, Runners, world,
         worker, to, Alive
    <2> QED
      BY <1>23, <2>1, <2>2 DEF PauseExits, stop_process_only
  <1>24. CASE PauseRefused
    <2>1. ~free /\ leave("failed")
      BY <1>24 DEF PauseRefused, OpInv, free, NoOp
    <2> QED
      BY <1>24, <2>1, LeaveEffect DEF PauseRefused, ServingInv, serving, swept, NoOp
  <1>25. CASE DirectRequestEnds
    BY <1>25 DEF DirectRequestEnds, ServingInv, serving, server, same, world, worker, to, Alive
  <1>26. CASE Request
    BY <1>26 DEF Request, ServingInv, serving, server, same, to, Alive
  <1>27. CASE Probe
    BY <1>27 DEF Probe, ServingInv, serving, server, same, world, worker, to, Alive
  <1>28. CASE Adopt
    <2>1. PICK p \in Alive : /\ runner' = [runner EXCEPT !.held = p, !.extra = Alive \ {p}]
          /\ watchers' = [watchers EXCEPT ![p] = "none"]
      BY <1>28 DEF Adopt
    <2> QED
      BY <1>28, <2>1 DEF Adopt, move, ServingInv, Kinds, Places, OpInv, PipeInv, EngineInv, NoOp
  <1>29. CASE AdoptNone
    BY <1>29 DEF AdoptNone, move, ServingInv, serving, server, same, world, worker, to, Alive
  <1>30. CASE StopExtras
    <2>1. runner.extra \in SUBSET Pids /\ ask(runner.extra)
      BY <1>30 DEF StopExtras, TypeOK, Runners
    <2> QED
      BY <1>30, <2>1, AskEffect DEF StopExtras, report, ServingInv, serving, server, same,
         AppliedInv, HandoverInv, ResidualInv, EngineInv, NoOp, to, Alive
  <1>31. CASE NothingToStop
    BY <1>31 DEF NothingToStop, report, ServingInv, serving, world, worker, to, Alive
  <1>32. CASE Look
    BY <1>32 DEF Look, move, ServingInv, serving, server, same, world, worker, to, Alive
  <1>33. CASE StopResidual
    <2>1. CASE pipe.kind = "stop"
      <3>1. Alive \in SUBSET Pids /\ ask(Alive)
        BY <1>33 DEF StopResidual, Alive
      <3> QED
        BY <1>33, <2>1, <3>1, AskEffect DEF StopResidual, move, report, forget_runner,
           ServingInv, serving, server, same, AppliedInv, past_clean, swept, spawned, Operations,
           Kinds, Places, OpInv, PipeInv, HandoverInv, ResidualInv
    <2>2. CASE pipe.kind = "start"
      <3>1. Alive \in SUBSET Pids /\ ask(Alive)
        BY <1>33 DEF StopResidual, Alive
      <3> QED
        BY <1>33, <2>2, <3>1, AskEffect DEF StopResidual, move, report, forget_runner,
           ServingInv, serving, server, same, AppliedInv, past_clean, swept, spawned, Operations,
           Kinds, Places, OpInv, PipeInv, HandoverInv, ResidualInv
    <2> QED
      BY <1>33, <2>1, <2>2 DEF StopResidual, PipeInv, Seats, TypeOK, Workers
  <1>34. ASSUME NEW p \in Pids, Watch(p) PROVE ServingInv'
    BY <1>34 DEF Watch, ServingInv, serving, server, same, world, worker, to, Alive
  <1>35. ASSUME NEW p \in Pids, WatchMatched(p) PROVE ServingInv'
    BY <1>35 DEF WatchMatched, expected, ServingInv, serving, server, same, world, worker, to,
       Alive
  <1>36. ASSUME NEW p \in Pids, Die(p) PROVE ServingInv'
    <2>1. /\ op'.kind = op.kind /\ op'.at = op.at /\ op'.old = op.old
          /\ op'.want = op.want /\ op'.before = op.before
          /\ op'.died = (op.died \/ (~free /\ p = server /\ p \notin refused))
      BY <1>36 DEF Die, TypeOK, Operations
    <2>2. server' = server
      BY <1>36, <2>1 DEF Die, server
    <2>3. CASE p # server
      <3>1. serving' = serving
        BY <1>36, <2>2, <2>3 DEF Die, serving, Alive
      <3> QED
        BY <2>1, <3>1 DEF ServingInv
    <2>4. CASE p = server /\ p \in refused
      <3>1. serving' = serving
        BY <1>36, <2>2, <2>4 DEF Die, serving, TypeOK
      <3> QED
        BY <2>1, <3>1 DEF ServingInv
    <2>5. CASE p = server /\ p \notin refused
      <3>1. serving' = NoPreset
        BY <1>36, <2>2, <2>5 DEF Die, serving, TypeOK
      <3>2. ~free => op'.died
        BY <2>1, <2>5
      <3> QED
        BY <2>1, <3>1, <3>2 DEF ServingInv, OpInv, NoOp
    <2> QED
      BY <2>3, <2>4, <2>5
  <1> QED
    BY <1>1, <1>2, <1>3, <1>4, <1>5, <1>6, <1>7, <1>8, <1>9, <1>10, <1>11, <1>12, <1>13, <1>14,
       <1>15, <1>16, <1>17, <1>18, <1>19, <1>20, <1>21, <1>22, <1>23, <1>24, <1>25, <1>26, <1>27,
       <1>28, <1>29, <1>30, <1>31, <1>32, <1>33, <1>34, <1>35, <1>36 DEF Next, Operation,
       Starting, Stopping, Pausing, Working, Watching, Environment

-----------------------------------------------------------------------------
(* The refinement of EngineSlot *)

\* A begin is a request of the slot.
LEMMA BeginStep ==
  ASSUME free, OpInv, serving' = serving, outcome' = outcome,
         NEW kind \in {"switch", "start", "stop", "pause"}, NEW at, NEW want \in Preset,
         begin(kind, at, want)
  PROVE  Slot!Begin
  <1>1. op = NoOp
    BY DEF OpInv
  <1>2. op'.kind = kind /\ op'.want = want /\ op'.before = serving /\ op'.died = FALSE
    BY DEF begin, NoOp
  <1>3. kind \in Slot!Starting \cup Slot!Stopping /\ want \in Presets \cup {NoPreset}
    BY DEF Slot!Starting, Slot!Stopping, Preset
  <1> QED
    BY <1>1, <1>2, <1>3 DEF Slot!Begin, Slot!NoJob, NoOp

\* Nobody works on the slot: it serves what the engines do.
LEMMA ServingAtRest ==
  ASSUME NEW is \in {"done", "stale", "failed"}, leave(is), op.old = NoPid, op.at # "confirm",
         runner'.held = runner.held, engines' = engines, refused' = refused
  PROVE  serving' = serving
  <1>1. server = runner.held
    BY DEF server
  <1>2. server' = runner.held
    BY DEF leave, server, NoOp
  <1> QED
    BY <1>1, <1>2 DEF serving, Alive

\* An end is a finish of the slot.
LEMMA FinishStep ==
  ASSUME TypeOK, ~free, serving' = serving, op' = NoOp,
         NEW is \in {"done", "stale", "failed"}, outcome' = [kind |-> op.kind, is |-> is],
         Slot!reached(is)
  PROVE  Slot!Finish
  BY DEF NoOp, free, Slot!Finish, Slot!NoJob

\* Every step of the runner is one of the slot, or none.
LEMMA StepRefines ==
  ASSUME Inv, AppliedInv, ServingInv, "adopt" \notin Windows, Next
  PROVE  [Slot!Next]_(Slot!vars)
  <1> USE RunnerAssumption, Typed DEF Inv
  <1>1. CASE Begin
    <2>1. PICK kind \in {"switch", "start", "stop"}, at \in {"compile", "stopping"},
    want \in Preset : begin(kind, at, want)
      BY <1>1 DEF Begin, Preset, TypeOK, Workers
    <2>2. serving' = serving
      BY <1>1, <2>1 DEF Begin, begin, serving, server, world, OpInv, NoOp, Alive
    <2> QED
      BY <1>1, <2>1, <2>2, BeginStep DEF Begin, worker, Slot!Next
  <1>2. CASE CompileFails
    <2>1. ~free /\ leave("failed")
      BY <1>2 DEF CompileFails, OpInv, free, NoOp
    <2>2. serving' = serving
      BY <1>2, ServingAtRest DEF CompileFails, world, HandoverInv
    <2>3. Slot!reached("failed")
      BY <1>2 DEF CompileFails, Slot!reached, ServingInv, OpInv, Places, TypeOK, Operations,
         Kinds
    <2> QED
      BY <2>1, <2>2, <2>3, LeaveEffect, FinishStep DEF Slot!Next
  <1>3. CASE CompileStart
    BY <1>3 DEF CompileStart, Slot!Next, Slot!vars, Slot!Begin, Slot!Put, serving, server, same,
       spawning, is_running, world, worker, to, Alive
  <1>4. CASE SkipSwitch
    <2>1. ~free /\ serving' = serving
      <3>1. ~free /\ \E is \in {"done", "stale", "failed"} : leave(is)
        BY <1>4 DEF SkipSwitch, OpInv, free, NoOp
      <3> QED
        BY <1>4, <3>1, ServingAtRest DEF SkipSwitch, world, HandoverInv
    <2>2. CASE leave("stale")
      <3>1. Slot!reached("stale")
        BY <1>4 DEF SkipSwitch, Slot!reached, ServingInv
      <3> QED
        BY <2>1, <2>2, <3>1, LeaveEffect, FinishStep DEF Slot!Next
    <2>3. CASE same /\ leave("done")
      <3>1. op.old = NoPid /\ op.at = "compile" /\ op.kind = "switch"
        BY <1>4 DEF SkipSwitch, HandoverInv
      <3>2. serving = op.want
        BY <2>3, <3>1 DEF same, serving, server, AppliedInv, spawned, is_running, OpInv
      <3>3. Slot!reached("done")
        BY <3>1, <3>2 DEF Slot!reached, Slot!Starting
      <3> QED
        BY <2>1, <2>3, <3>3, LeaveEffect, FinishStep DEF Slot!Next
    <2> QED
      BY <1>4, <2>2, <2>3 DEF SkipSwitch
  <1>5. CASE CompileSwitch
    BY <1>5 DEF CompileSwitch, same, Slot!Next, Slot!vars, Slot!Begin, Slot!NoJob, Slot!Starting,
       Slot!Stopping, ServingInv, serving, server, Places, OpInv, PipeInv, HandoverInv,
       ResidualInv, EngineInv, spawning, is_running, world, worker, to, Alive
  <1>6. CASE Clean
    <2>1. CASE /\ is_running /\ may("stopping") /\ ask({runner.held})
               /\ runner' = [runner EXCEPT !.held = NoPid, !.state = "idle"]
      <3>1. {runner.held} \in SUBSET Pids /\ ask({runner.held})
        BY <2>1 DEF is_running, Alive
      <3> QED
        BY <1>6, <2>1, <3>1, AskEffect DEF Clean, Slot!Next, Slot!vars, Slot!Begin, Slot!Put,
           Slot!Drop, Slot!Die, Slot!Adopt, Slot!Finish, Slot!reached, Slot!NoJob, Slot!Starting,
           Slot!Stopping, ServingInv, serving, server, same, AppliedInv, past_clean, swept,
           spawned, Operations, Kinds, Places, OpInv, PipeInv, HandoverInv, ResidualInv,
           EngineInv, TypeOK, Runners, Pid, Preset, States, may, spawning, is_running, world,
           worker, to, Alive
    <2>2. CASE UNCHANGED <<runner, world>>
      BY <1>6, <2>2 DEF Clean, Slot!Next, Slot!vars, Slot!Begin, Slot!Put, Slot!Starting,
         Slot!Stopping, ServingInv, serving, server, same, spawning, is_running, world, worker,
         to, Alive
    <2> QED
      BY <1>6, <2>1, <2>2 DEF Clean, stop_process_only
  <1>7. CASE SweepBeforeSpawn
    <2>1. Alive \in SUBSET Pids /\ ask(Alive)
      BY <1>7 DEF SweepBeforeSpawn, Alive
    <2> QED
      BY <1>7, <2>1, AskEffect DEF SweepBeforeSpawn, Slot!Next, Slot!vars, Slot!Begin, Slot!Put,
         Slot!Drop, Slot!Die, Slot!Adopt, Slot!Finish, Slot!reached, Slot!NoJob, Slot!Starting,
         Slot!Stopping, ServingInv, serving, server, same, spawning, is_running, world, worker,
         to, Alive
  <1>8. CASE Recover
    <2>1. Alive \in SUBSET Pids /\ ask(Alive)
      BY <1>8 DEF Recover, Alive
    <2> QED
      BY <1>8, <2>1, AskEffect DEF Recover, Slot!Next, Slot!vars, Slot!Begin, Slot!Put,
         Slot!Drop, Slot!Die, Slot!Adopt, Slot!Finish, Slot!reached, Slot!NoJob, Slot!Starting,
         Slot!Stopping, ServingInv, serving, server, same, AppliedInv, past_clean, swept,
         spawned, Operations, Kinds, Places, OpInv, PipeInv, HandoverInv, ResidualInv, EngineInv,
         TypeOK, Runners, Pid, Preset, States, may, spawning, is_running, world, worker, to,
         Alive
  <1>9. CASE Ready
    <2>1. CASE leave("failed") /\ UNCHANGED runner
      <3>1. ~free
        BY <1>9 DEF Ready, OpInv, free, NoOp
      <3>2. serving' = serving
        BY <1>9, <2>1, ServingAtRest DEF Ready, world, HandoverInv
      <3>3. Slot!reached("failed")
        BY <1>9 DEF Ready, Slot!reached, ServingInv, OpInv, Places, TypeOK, Operations, Kinds
      <3> QED
        BY <2>1, <3>1, <3>2, <3>3, LeaveEffect, FinishStep DEF Slot!Next
    <2>2. CASE to("dry")
      <3>1. op.at = "ready" /\ op' = [op EXCEPT !.at = "dry"] /\ runner'.held = runner.held
        BY <1>9, <2>2 DEF Ready, to, TypeOK, Runners
      <3>2. serving' = serving
        BY <1>9, <3>1 DEF Ready, world, serving, server, Alive
      <3> QED
        BY <2>2, <3>2 DEF to, worker, Slot!vars
    <2> QED
      BY <1>9, <2>1, <2>2 DEF Ready
  <1>10. CASE DryRun
    <2>1. PICK why \in Failures : op' \in {[op EXCEPT !.at = "popen"], [op EXCEPT !.at = "failed",
    !.why = why]}
      BY <1>10 DEF DryRun, to, fail, Failures
    <2>2. op' = [op EXCEPT !.at = op'.at, !.why = op'.why] /\ op'.at \in {"popen", "failed"}
      <3>1. CASE op' = [op EXCEPT !.at = "popen"]
        BY <3>1 DEF TypeOK, Operations
      <3>2. CASE op' = [op EXCEPT !.at = "failed", !.why = why]
        BY <3>2 DEF TypeOK, Operations
      <3> QED
        BY <2>1, <3>1, <3>2
    <2>3. runner'.held = runner.held /\ outcome' = outcome
      BY <1>10 DEF DryRun, to, fail, worker, TypeOK, Runners
    <2>4. serving' = serving
      BY <1>10, <2>2, <2>3 DEF DryRun, world, serving, server, Alive, TypeOK, Operations
    <2> QED
      BY <2>2, <2>3, <2>4 DEF Slot!vars, TypeOK, Operations
  <1>11. CASE Popen
    <2>1. PICK p \in Pids :
          /\ fresh(p) /\ engines' = [engines EXCEPT ![p] = op.want]
          /\ runner' = [runner EXCEPT !.held = p, !.state = "starting",
                 !.applied = IF ~is_running /\ runner.state \in {"running", "starting", "stopping"}
                             THEN NoPreset ELSE @]
          /\ asked' = asked \ {p} /\ told' = told \ {p} /\ left' = left \ {p}
      BY <1>11 DEF Popen
    <2> QED
      BY <1>11, <2>1 DEF Popen, fresh, Slot!Next, Slot!vars, Slot!Begin, Slot!Put, Slot!Starting,
         Slot!Stopping, ServingInv, serving, server, same, AppliedInv, past_clean, swept,
         spawned, Operations, Kinds, Places, OpInv, PipeInv, HandoverInv, ResidualInv, EngineInv,
         TypeOK, Runners, Pid, Preset, States, may, spawning, is_running, world, worker, to,
         Alive
  <1>12. CASE PopenRaises
    BY <1>12 DEF PopenRaises, spawn_failed, fail, Slot!Next, Slot!vars, Slot!Begin, Slot!Put,
       Slot!Starting, Slot!Stopping, ServingInv, serving, server, same, AppliedInv, past_clean,
       swept, spawned, Operations, Kinds, Places, OpInv, PipeInv, HandoverInv, ResidualInv,
       EngineInv, TypeOK, Runners, Pid, Preset, States, may, spawning, is_running, world, worker,
       to, Alive
  <1>13. CASE Confirm
    BY <1>13 DEF Confirm, Slot!Next, Slot!vars, Slot!Begin, Slot!Put, Slot!Starting,
       Slot!Stopping, ServingInv, serving, server, same, AppliedInv, past_clean, swept, spawned,
       Operations, Kinds, Places, OpInv, PipeInv, HandoverInv, ResidualInv, EngineInv, TypeOK,
       Runners, Pid, spawning, is_running, world, worker, to, Alive
  <1>14. CASE ExitsInStart
    <2>1. PICK why \in Failures : fail(why)
      BY <1>14 DEF ExitsInStart
    <2> QED
      BY <1>14, <2>1 DEF ExitsInStart, spawn_failed, fail, Slot!Next, Slot!vars, Slot!Begin,
         Slot!Put, Slot!Starting, Slot!Stopping, ServingInv, serving, server, same, Places,
         OpInv, PipeInv, HandoverInv, ResidualInv, EngineInv, spawning, is_running, world,
         worker, to, Alive
  <1>15. CASE Placed
    <2>1. ~free /\ leave("done")
      BY <1>15 DEF Placed, OpInv, free, NoOp
    <2>2. serving' = serving
      <3>1. {op.old} \ {NoPid} \in SUBSET Pids /\ ask({op.old} \ {NoPid})
        BY <1>15 DEF Placed, TypeOK, Operations, Pid
      <3>2. op.at = "placed" /\ runner'.held = runner.held
        BY <1>15 DEF Placed, TypeOK, Runners
      <3>3. runner.held \in Pids /\ runner.held \notin {op.old} \ {NoPid}
        BY <3>2 DEF HandoverInv
      <3>4. server = runner.held /\ server' = runner.held
        BY <2>1, <3>2, <3>3, LeaveEffect DEF server, NoOp
      <3>5. /\ engines'[runner.held] = engines[runner.held]
            /\ runner.held \in refused' <=> runner.held \in refused
        BY <3>1, <3>3, AskEffect
      <3> QED
        BY <3>3, <3>4, <3>5 DEF serving, Alive
    <2>3. Slot!reached("done")
      BY <1>15 DEF Placed, Slot!reached, Slot!Starting, Slot!Stopping, ServingInv, OpInv, Places,
         TypeOK, Operations, Kinds
    <2> QED
      BY <2>1, <2>2, <2>3, LeaveEffect, FinishStep DEF Slot!Next
  <1>16. CASE HandoverFailed
    <2>1. op.kind = "switch" /\ op.at = "failed" /\ op.old \in Pids /\ server = op.old /\ ~free
      BY <1>16 DEF HandoverFailed, restore_old, HandoverInv, server, free, TypeOK, Operations, Pid
    <2>2. runner'.held = op.old
      BY <1>16 DEF HandoverFailed, restore_old, TypeOK, Runners
    <2>3. ASSUME NEW is \in {"stale", "failed"}, leave(is) PROVE [Slot!Next]_(Slot!vars)
      <3>1. serving' = serving
        BY <1>16, <2>1, <2>2, <2>3, LeaveEffect DEF HandoverFailed, restore_old, serving, server,
           NoOp, world,
           Alive
      <3>2. Slot!reached(is)
        BY <2>1 DEF Slot!reached, Slot!Starting, ServingInv
      <3> QED
        BY <2>1, <2>3, <3>1, <3>2, LeaveEffect, FinishStep DEF Slot!Next
    <2>4. CASE op' = [op EXCEPT !.at = "dry", !.attempt = 1, !.why = "other"] /\ UNCHANGED worker
      BY <1>16, <2>1, <2>2, <2>4 DEF HandoverFailed, restore_old, serving, server, Alive, world,
         worker,
         Slot!vars
    <2> QED
      BY <1>16, <2>3, <2>4 DEF HandoverFailed, restore_old
  <1>17. CASE SwitchFailed
    <2>1. CASE leave("failed")
      <3>1. ~free /\ leave("failed")
        BY <1>17, <2>1 DEF SwitchFailed, free
      <3> QED
        BY <1>17, <2>1, <3>1, LeaveEffect DEF SwitchFailed, Slot!Next, Slot!vars, Slot!Begin,
           Slot!Put, Slot!Drop, Slot!Die, Slot!Adopt, Slot!Finish, Slot!reached, Slot!NoJob,
           Slot!Starting, Slot!Stopping, ServingInv, serving, server, same, AppliedInv,
           past_clean, swept, spawned, Operations, Kinds, Places, OpInv, PipeInv, HandoverInv,
           ResidualInv, EngineInv, TypeOK, Runners, Pid, Preset, States, may, ALLOWED, Workers,
           Rest, NoOp, harmless, free, spawning, is_running, world, worker, to, Alive
    <2>2. CASE UNCHANGED worker /\ op' = [op EXCEPT !.at = "recover", !.attempt = 1, !.why = "other"]
      BY <1>17, <2>2 DEF SwitchFailed, Slot!Next, Slot!vars, Slot!Begin, Slot!Put, Slot!Starting,
         Slot!Stopping, ServingInv, serving, server, same, spawning, is_running, world, worker,
         to, Alive
    <2> QED
      BY <1>17, <2>1, <2>2 DEF SwitchFailed
  <1>18. CASE StartFailed
    <2>1. CASE leave("failed")
      <3>1. ~free /\ leave("failed")
        BY <1>18, <2>1 DEF StartFailed, OpInv, NoOp
      <3> QED
        BY <1>18, <2>1, <3>1, LeaveEffect DEF StartFailed, transient, recoverable, repairable,
           Slot!Next, Slot!vars, Slot!Begin, Slot!Put, Slot!Drop, Slot!Die, Slot!Adopt,
           Slot!Finish, Slot!reached, Slot!NoJob, Slot!Starting, Slot!Stopping, ServingInv,
           serving, server, same, AppliedInv, past_clean, swept, spawned, Operations, Kinds,
           Places, OpInv, PipeInv, HandoverInv, ResidualInv, EngineInv, TypeOK, Runners, Pid,
           Preset, States, may, ALLOWED, Workers, Rest, NoOp, harmless, free, spawning,
           is_running, world, worker, to, Alive
    <2>2. CASE /\ UNCHANGED worker /\ (transient \/ recoverable \/ repairable)
               /\ op' = [op EXCEPT !.at = "compile", !.attempt = @ + 1, !.why = "other",
                                   !.recover = ~transient]
      BY <1>18, <2>2 DEF StartFailed, transient, recoverable, repairable, Slot!Next, Slot!vars,
         Slot!Begin, ServingInv, serving, server, spawning, is_running, world, worker, to, Alive
    <2> QED
      BY <1>18, <2>1, <2>2 DEF StartFailed
  <1>19. CASE StopRaises
    <2>1. ~free /\ leave("failed")
      BY <1>19 DEF StopRaises, OpInv, free, NoOp
    <2>2. serving' = serving
      BY <1>19, ServingAtRest DEF StopRaises, world, HandoverInv
    <2>3. Slot!reached("failed")
      BY <1>19 DEF StopRaises, Slot!reached, ServingInv, OpInv, Places, TypeOK, Operations, Kinds
    <2> QED
      BY <2>1, <2>2, <2>3, LeaveEffect, FinishStep DEF Slot!Next
  <1>20. CASE StopHeld
    <2>1. {runner.held} \cap Alive \in SUBSET Pids /\ ask({runner.held} \cap Alive)
      BY <1>20 DEF StopHeld, Alive
    <2> QED
      BY <1>20, <2>1, AskEffect DEF StopHeld, Slot!Next, Slot!vars, Slot!Begin, Slot!Put,
         Slot!Drop, Slot!Die, Slot!Adopt, Slot!Finish, Slot!reached, Slot!NoJob, Slot!Starting,
         Slot!Stopping, ServingInv, serving, server, same, AppliedInv, past_clean, swept,
         spawned, Operations, Kinds, Places, OpInv, PipeInv, HandoverInv, ResidualInv, EngineInv,
         TypeOK, Runners, Pid, Preset, States, may, spawning, is_running, world, worker, to,
         Alive
  <1>21. CASE StopRest
    <2>1. Alive \in SUBSET Pids /\ ask(Alive)
      BY <1>21 DEF StopRest, Alive
    <2>2. PICK is \in {"done", "failed"} : leave(is)
      BY <1>21 DEF StopRest
    <2>3. ~free
      BY <1>21 DEF StopRest, OpInv, free, NoOp
    <2> QED
      BY <1>21, <2>1, AskEffect, <2>2, <2>3, LeaveEffect DEF StopRest, Slot!Next, Slot!vars,
         Slot!Begin, Slot!Put, Slot!Drop, Slot!Die, Slot!Adopt, Slot!Finish, Slot!reached,
         Slot!NoJob, Slot!Starting, Slot!Stopping, ServingInv, serving, server, same, AppliedInv,
         past_clean, swept, spawned, Operations, Kinds, Places, OpInv, PipeInv, HandoverInv,
         ResidualInv, EngineInv, TypeOK, Runners, Pid, Preset, States, may, ALLOWED, Workers,
         Rest, NoOp, harmless, free, spawning, is_running, world, worker, to, Alive
  <1>22. CASE Pause
    BY <1>22 DEF Pause, begin, Slot!Next, Slot!vars, Slot!Begin, Slot!Put, Slot!Drop, Slot!Die,
       Slot!Adopt, Slot!Finish, Slot!reached, Slot!NoJob, Slot!Starting, Slot!Stopping,
       ServingInv, serving, server, same, AppliedInv, past_clean, swept, spawned, Operations,
       Kinds, Places, OpInv, PipeInv, HandoverInv, ResidualInv, EngineInv, TypeOK, Runners, Pid,
       Preset, States, may, ALLOWED, Workers, Rest, NoOp, harmless, free, spawning, is_running,
       world, worker, to, Alive
  <1>23. CASE PauseExits
    <2>1. CASE /\ is_running /\ may("stopping") /\ ask({runner.held})
               /\ runner' = [runner EXCEPT !.held = NoPid, !.state = "idle"]
      <3>1. {runner.held} \in SUBSET Pids /\ ask({runner.held})
        BY <2>1 DEF is_running, Alive
      <3> QED
        BY <1>23, <2>1, <3>1, AskEffect DEF PauseExits, Slot!Next, Slot!vars, Slot!Begin,
           Slot!Put, Slot!Drop, Slot!Die, Slot!Adopt, Slot!Finish, Slot!reached, Slot!NoJob,
           Slot!Starting, Slot!Stopping, ServingInv, serving, server, same, AppliedInv,
           past_clean, swept, spawned, Operations, Kinds, Places, OpInv, PipeInv, HandoverInv,
           ResidualInv, EngineInv, TypeOK, Runners, Pid, Preset, States, may, spawning,
           is_running, world, worker, to, Alive
    <2>2. CASE UNCHANGED <<runner, world>>
      BY <1>23, <2>2 DEF PauseExits, Slot!Next, Slot!vars, Slot!Begin, Slot!Put, Slot!Starting,
         Slot!Stopping, ServingInv, serving, server, same, AppliedInv, past_clean, swept,
         spawned, Operations, Kinds, TypeOK, Runners, Pid, Preset, States, may, spawning,
         is_running, world, worker, to, Alive
    <2> QED
      BY <1>23, <2>1, <2>2 DEF PauseExits, stop_process_only
  <1>24. CASE PauseRefused
    <2>1. ~free /\ leave("failed")
      BY <1>24 DEF PauseRefused, OpInv, free, NoOp
    <2>2. serving' = serving
      BY <1>24, ServingAtRest DEF PauseRefused, world, HandoverInv
    <2>3. Slot!reached("failed")
      BY <1>24 DEF PauseRefused, Slot!reached, ServingInv, OpInv, Places, TypeOK, Operations,
         Kinds
    <2> QED
      BY <2>1, <2>2, <2>3, LeaveEffect, FinishStep DEF Slot!Next
  <1>25. CASE DirectRequestEnds
    BY <1>25 DEF DirectRequestEnds, Slot!Next, Slot!vars, Slot!Begin, Slot!Put, serving, server,
       same, spawning, is_running, world, worker, to, Alive
  <1>26. CASE Request
    BY <1>26 DEF Request, Slot!Next, Slot!vars, Slot!Begin, Slot!Put, serving, server, same,
       worker, to, Alive
  <1>27. CASE Probe
    BY <1>27 DEF Probe, move, report, Slot!Next, Slot!vars, Slot!Begin, Slot!Put, Slot!Starting,
       Slot!Stopping, ServingInv, serving, server, same, spawning, is_running, world, worker, to,
       Alive
  <1>28. CASE Adopt
    <2>1. PICK p \in Alive : runner' = [runner EXCEPT !.held = p, !.extra = Alive \ {p}]
      BY <1>28 DEF Adopt
    <2>2. op = NoOp /\ op' = op /\ outcome' = outcome /\ engines' = engines /\ refused' = refused
      BY <1>28 DEF Adopt, move, OpInv, world
    <2>3. serving = NoPreset
      BY <1>28, <2>2 DEF Adopt, NoOp, serving, server, is_running
    <2>4. serving' \in Preset
      BY <2>2 DEF serving, Alive, TypeOK, Preset
    <2> QED
      BY <2>2, <2>3, <2>4 DEF NoOp, Preset, Slot!Next, Slot!Adopt, Slot!NoJob, Slot!vars
  <1>29. CASE AdoptNone
    BY <1>29 DEF AdoptNone, move, Slot!Next, Slot!vars, Slot!Begin, Slot!Put, Slot!Starting,
       Slot!Stopping, ServingInv, serving, server, same, spawning, is_running, world, worker, to,
       Alive
  <1>30. CASE StopExtras
    <2>1. runner.extra \in SUBSET Pids /\ ask(runner.extra)
      BY <1>30 DEF StopExtras, TypeOK, Runners
    <2> QED
      BY <1>30, <2>1, AskEffect DEF StopExtras, report, Slot!Next, Slot!vars, Slot!Begin,
         Slot!Put, Slot!Drop, Slot!Die, Slot!Adopt, Slot!Finish, Slot!reached, Slot!NoJob,
         Slot!Starting, Slot!Stopping, ServingInv, serving, server, same, AppliedInv, past_clean,
         swept, spawned, Operations, Kinds, Places, OpInv, PipeInv, HandoverInv, ResidualInv,
         EngineInv, TypeOK, Runners, Pid, Preset, States, may, ALLOWED, Workers, Rest, NoOp,
         harmless, free
  <1>31. CASE NothingToStop
    BY <1>31 DEF NothingToStop, report, Slot!Next, Slot!vars, Slot!Begin, Slot!Put,
       Slot!Starting, Slot!Stopping, ServingInv, serving, server, same, spawning, is_running,
       world, worker, to, Alive
  <1>32. CASE Look
    BY <1>32 DEF Look, move, Slot!Next, Slot!vars, Slot!Begin, Slot!Put, Slot!Starting,
       Slot!Stopping, ServingInv, serving, server, same, spawning, is_running, world, worker, to,
       Alive
  <1>33. CASE StopResidual
    <2>1. CASE pipe.kind = "stop"
      <3>1. Alive \in SUBSET Pids /\ ask(Alive)
        BY <1>33 DEF StopResidual, Alive
      <3> QED
        BY <1>33, <2>1, <3>1, AskEffect DEF StopResidual, move, report, forget_runner, Slot!Next,
           Slot!vars, Slot!Begin, Slot!Put, Slot!Drop, Slot!Die, Slot!Adopt, Slot!Finish,
           Slot!reached, Slot!NoJob, Slot!Starting, Slot!Stopping, ServingInv, serving, server,
           same, AppliedInv, past_clean, swept, spawned, Operations, Kinds, Places, OpInv,
           PipeInv, HandoverInv, ResidualInv, EngineInv, TypeOK, Runners, Pid, Preset, States,
           may, ALLOWED, Workers, Rest, NoOp, harmless, free
    <2>2. CASE pipe.kind = "start"
      <3>1. Alive \in SUBSET Pids /\ ask(Alive)
        BY <1>33 DEF StopResidual, Alive
      <3> QED
        BY <1>33, <2>2, <3>1, AskEffect DEF StopResidual, move, report, forget_runner, Slot!Next,
           Slot!vars, Slot!Begin, Slot!Put, Slot!Drop, Slot!Die, Slot!Adopt, Slot!Finish,
           Slot!reached, Slot!NoJob, Slot!Starting, Slot!Stopping, ServingInv, serving, server,
           same, AppliedInv, past_clean, swept, spawned, Operations, Kinds, Places, OpInv,
           PipeInv, HandoverInv, ResidualInv, EngineInv, TypeOK, Runners, Pid, Preset, States,
           may, ALLOWED, Workers, Rest, NoOp, harmless, free
    <2> QED
      BY <1>33, <2>1, <2>2 DEF StopResidual, PipeInv, Seats, TypeOK, Workers
  <1>34. ASSUME NEW p \in Pids, Watch(p) PROVE [Slot!Next]_(Slot!vars)
    BY <1>34 DEF Watch, Slot!Next, Slot!vars, Slot!Begin, Slot!Put, serving, server, same,
       spawning, is_running, world, worker, to, Alive
  <1>35. ASSUME NEW p \in Pids, WatchMatched(p) PROVE [Slot!Next]_(Slot!vars)
    BY <1>35 DEF WatchMatched, expected, Slot!Next, Slot!vars, Slot!Begin, Slot!Put,
       Slot!Starting, Slot!Stopping, ServingInv, serving, server, same, spawning, is_running,
       world, worker, to, Alive
  <1>36. ASSUME NEW p \in Pids, Die(p) PROVE [Slot!Next]_(Slot!vars)
    BY <1>36 DEF Die, Slot!Next, Slot!vars, Slot!Begin, Slot!Put, Slot!Drop, Slot!Die,
       Slot!Adopt, Slot!Finish, Slot!reached, Slot!NoJob, Slot!Starting, Slot!Stopping,
       ServingInv, serving, server, same, AppliedInv, past_clean, swept, spawned, Operations,
       Kinds, Places, OpInv, PipeInv, HandoverInv, ResidualInv, EngineInv, TypeOK, Runners, Pid,
       Preset, States, may, ALLOWED, Workers, Rest, NoOp, harmless, free, spawning, is_running,
       world, worker, to, Alive
  <1> QED
    BY <1>1, <1>2, <1>3, <1>4, <1>5, <1>6, <1>7, <1>8, <1>9, <1>10, <1>11, <1>12, <1>13, <1>14,
       <1>15, <1>16, <1>17, <1>18, <1>19, <1>20, <1>21, <1>22, <1>23, <1>24, <1>25, <1>26, <1>27,
       <1>28, <1>29, <1>30, <1>31, <1>32, <1>33, <1>34, <1>35, <1>36 DEF Next, Operation,
       Starting, Stopping, Pausing, Working, Watching, Environment

\* Every step keeps what the watchers rest on.
LEMMA WatchKept ==
  ASSUME Inv, WatchInv, AppliedInv, {"watch", "adopt"} \cap Windows = {}, Next
  PROVE  WatchInv'
  <1> USE RunnerAssumption, Typed DEF Inv
  <1>1. CASE Begin
    <2>1. CASE pipe.at \in {"handover", "switch"} /\ begin("switch", "compile", pipe.want)
      BY <1>1, <2>1 DEF Begin, begin, WatchInv, watching, watchers_awake, expected, AppliedInv,
         past_clean, Places, OpInv, PipeInv, HandoverInv, free, spawning, is_running, world,
         Alive, FreshRunner
    <2>2. CASE pipe.at = "spawn" /\ begin("start", "compile", pipe.want)
      BY <1>1, <2>2 DEF Begin, begin, WatchInv, watching, watchers_awake, expected, AppliedInv,
         past_clean, swept, spawned, Operations, Kinds, Places, OpInv, PipeInv, HandoverInv,
         free, spawning, is_running, world, Alive, FreshRunner
    <2>3. CASE pipe.at \in {"prestop", "stop"} /\ begin("stop", "stopping", NoPreset)
      BY <1>1, <2>3 DEF Begin, begin, WatchInv, watching, watchers_awake, expected, AppliedInv,
         past_clean, Places, OpInv, PipeInv, HandoverInv, free, spawning, is_running, world,
         Alive, FreshRunner
    <2> QED
      BY <1>1, <2>1, <2>2, <2>3 DEF Begin
  <1>2. CASE CompileFails
    <2>1. ~free /\ leave("failed")
      BY <1>2 DEF CompileFails, OpInv, free, NoOp
    <2> QED
      BY <1>2, <2>1, LeaveEffect DEF CompileFails, WatchInv, watching, Workers, Rest, NoOp,
         harmless, free, spawning, is_running, world, Alive, FreshRunner
  <1>3. CASE CompileStart
    BY <1>3 DEF CompileStart, WatchInv, watching, watchers_awake, expected, AppliedInv,
       past_clean, swept, free, spawning, is_running, world, Alive, FreshRunner
  <1>4. CASE SkipSwitch
    <2>1. CASE leave("stale")
      <3>1. ~free /\ leave("stale")
        BY <1>4, <2>1 DEF SkipSwitch, free
      <3> QED
        BY <1>4, <2>1, <3>1, LeaveEffect DEF SkipSwitch, same, WatchInv, watching,
           watchers_awake, expected, AppliedInv, NoOp, harmless, free, spawning, is_running,
           world, Alive, FreshRunner
    <2>2. CASE leave("done")
      <3>1. ~free /\ leave("done")
        BY <1>4, <2>2 DEF SkipSwitch, free
      <3> QED
        BY <1>4, <2>2, <3>1, LeaveEffect DEF SkipSwitch, same, WatchInv, watching,
           watchers_awake, expected, AppliedInv, NoOp, harmless, free, spawning, is_running,
           world, Alive, FreshRunner
    <2> QED
      BY <1>4, <2>1, <2>2 DEF SkipSwitch
  <1>5. CASE CompileSwitch
    BY <1>5 DEF CompileSwitch, same, WatchInv, watching, watchers_awake, free, spawning,
       is_running, world, Alive, FreshRunner
  <1>6. CASE Clean
    <2>1. op'.kind = op.kind /\ op'.at = "sweep" /\ op'.old = NoPid /\ op.old = NoPid
                             /\ op.kind # "stop" /\ op.kind # "none"
      BY <1>6 DEF Clean, to, HandoverInv, OpInv, Places
    <2>2. CASE is_running /\ may("stopping")
      <3>1. ask({runner.held}) /\ {runner.held} \in SUBSET Pids
        BY <1>6, <2>2 DEF Clean, stop_process_only, is_running, Alive
      <3>2. runner' = [runner EXCEPT !.held = NoPid, !.state = "idle"]
        BY <1>6, <2>2 DEF Clean, stop_process_only
      <3> QED
        BY <1>6, <2>1, <3>1, <3>2, AskEffect DEF Clean, watching, WatchInv, is_running, Alive,
           free
    <2>3. CASE ~(is_running /\ may("stopping"))
      <3>1. UNCHANGED <<runner, world, watching>>
        BY <1>6, <2>3 DEF Clean, stop_process_only
      <3>2. is_running => runner.state = "idle"
        BY <1>6, <2>3 DEF Clean, HandoverInv, may, ALLOWED, States, TypeOK, Runners
      <3> QED
        BY <1>6, <2>1, <3>1, <3>2 DEF WatchInv, is_running, Alive, world, watching, free
    <2> QED
      BY <2>2, <2>3
  <1>7. CASE SweepBeforeSpawn
    <2>1. Alive \in SUBSET Pids /\ ask(Alive)
      BY <1>7 DEF SweepBeforeSpawn, Alive
    <2> QED
      BY <1>7, <2>1, AskEffect DEF SweepBeforeSpawn, WatchInv, watching, watchers_awake,
         expected, AppliedInv, past_clean, Places, OpInv, PipeInv, HandoverInv, free, spawning,
         is_running, world, worker, to
  <1>8. CASE Recover
    <2>1. Alive \in SUBSET Pids /\ ask(Alive)
      BY <1>8 DEF Recover, Alive
    <2> QED
      BY <1>8, <2>1, AskEffect DEF Recover, WatchInv, watching, watchers_awake, expected,
         AppliedInv, past_clean, swept, spawned, Operations, Kinds, Places, OpInv, PipeInv,
         HandoverInv, ResidualInv, EngineInv, TypeOK, harmless, free, spawning, is_running,
         world, worker, to
  <1>9. CASE Ready
    <2>1. CASE leave("failed") /\ UNCHANGED runner
      <3>1. ~free /\ leave("failed")
        BY <1>9, <2>1 DEF Ready, OpInv, NoOp
      <3> QED
        BY <1>9, <2>1, <3>1, LeaveEffect DEF Ready, WatchInv, watching, watchers_awake, NoOp,
           harmless, free, spawning, is_running, world, Alive, FreshRunner
    <2>2. CASE to("dry") /\ runner' = IF spawning THEN [runner EXCEPT !.path = op.want] ELSE runner
      BY <1>9, <2>2 DEF Ready, WatchInv, watching, watchers_awake, expected, AppliedInv,
         past_clean, swept, free, spawning, is_running, world, worker, to, Alive, FreshRunner
    <2> QED
      BY <1>9, <2>1, <2>2 DEF Ready
  <1>10. CASE DryRun
    <2>1. PICK why \in Failures : op' \in {[op EXCEPT !.at = "popen"], [op EXCEPT !.at = "failed",
    !.why = why]}
      BY <1>10 DEF DryRun, to, fail, Failures
    <2>2. op'.kind = op.kind /\ op'.at \in {"popen", "failed"} /\ op'.old = op.old
                             /\ op'.recover = op.recover
      <3>1. CASE op' = [op EXCEPT !.at = "popen"]
        BY <3>1 DEF TypeOK, Operations
      <3>2. CASE op' = [op EXCEPT !.at = "failed", !.why = why]
        BY <3>2 DEF TypeOK, Operations
      <3> QED
        BY <2>1, <3>1, <3>2
    <2>3. runner' = runner \/ runner' = [runner EXCEPT !.state = "failed"]
      BY <1>10 DEF DryRun
    <2>4. runner'.held = runner.held /\ runner'.state \in {runner.state, "failed"}
      BY <2>3 DEF TypeOK, Runners
    <2>5. op.at = "dry" /\ ~free
      BY <1>10 DEF DryRun, OpInv, free, NoOp
    <2> QED
      BY <1>10, <2>2, <2>4, <2>5 DEF WatchInv, DryRun, world, watching, is_running, Alive,
         past_clean, swept, spawning
  <1>11. CASE Popen
    <2>1. PICK p \in Pids :
          /\ fresh(p) /\ engines' = [engines EXCEPT ![p] = op.want]
          /\ runner' = [runner EXCEPT !.held = p, !.state = "starting",
                 !.applied = IF ~is_running /\ runner.state \in {"running", "starting", "stopping"}
                             THEN NoPreset ELSE @]
          /\ asked' = asked \ {p} /\ told' = told \ {p} /\ left' = left \ {p}
      BY <1>11 DEF Popen
    <2> QED
      BY <1>11, <2>1 DEF Popen, fresh, WatchInv, watching, Places, OpInv, PipeInv, HandoverInv,
         free, spawning, is_running, world, Alive, FreshRunner
  <1>12. CASE PopenRaises
    BY <1>12 DEF PopenRaises, spawn_failed, fail, WatchInv, watching, Places, OpInv, PipeInv,
       HandoverInv, free, spawning, is_running, world, Alive, FreshRunner
  <1>13. CASE Confirm
    BY <1>13 DEF Confirm, WatchInv, watching, watchers_awake, expected, AppliedInv, past_clean,
       swept, spawned, Operations, Kinds, Places, OpInv, PipeInv, HandoverInv, ResidualInv,
       EngineInv, TypeOK, harmless, free, spawning, is_running, world, worker, to, Alive,
       FreshRunner
  <1>14. CASE ExitsInStart
    <2>1. PICK why \in Failures : fail(why)
      BY <1>14 DEF ExitsInStart
    <2> QED
      BY <1>14, <2>1 DEF ExitsInStart, spawn_failed, fail, WatchInv, watching, watchers_awake,
         expected, AppliedInv, Places, OpInv, PipeInv, HandoverInv, ResidualInv, NoOp, harmless,
         is_running, world, Alive, FreshRunner
  <1>15. CASE Placed
    <2>1. {op.old} \ {NoPid} \in SUBSET Pids /\ ask({op.old} \ {NoPid})
      BY <1>15 DEF Placed, TypeOK, Operations, Pid
    <2>2. ~free /\ leave("done")
      BY <1>15 DEF Placed, OpInv, free, NoOp
    <2> QED
      BY <1>15, <2>1, AskEffect, <2>2, LeaveEffect DEF Placed, WatchInv, watching,
         watchers_awake, expected, AppliedInv, Places, OpInv, PipeInv, HandoverInv, ResidualInv,
         NoOp, spawning, is_running
  <1>16. CASE HandoverFailed
    <2>1. CASE \E is \in {"stale",
    "failed"} : leave(is) /\ runner' = [runner EXCEPT !.held = op.old, !.path = op.path]
      <3>1. PICK is \in {"stale", "failed"} : leave(is)
        BY <1>16, <2>1 DEF HandoverFailed, restore_old
      <3>2. ~free
        BY <1>16 DEF HandoverFailed, restore_old, free
      <3> QED
        BY <1>16, <2>1, <3>1, <3>2, LeaveEffect DEF HandoverFailed, restore_old, WatchInv, watching,
           watchers_awake, expected, AppliedInv, Places, OpInv, PipeInv, HandoverInv,
           ResidualInv, NoOp, harmless, free, spawning, is_running, world, Alive, FreshRunner
    <2>2. CASE UNCHANGED worker /\ op' = [op EXCEPT !.at = "dry", !.attempt = 1,
    !.why = "other"] /\ runner' = [runner EXCEPT !.held = op.old, !.path = op.want]
      BY <1>16, <2>2 DEF HandoverFailed, restore_old, WatchInv, watching, watchers_awake, expected,
         AppliedInv, past_clean, Places, OpInv, PipeInv, HandoverInv, free, spawning, is_running,
         world, Alive, FreshRunner
    <2> QED
      BY <1>16, <2>1, <2>2 DEF HandoverFailed, restore_old
  <1>17. CASE SwitchFailed
    <2>1. CASE leave("failed")
      <3>1. ~free /\ leave("failed")
        BY <1>17, <2>1 DEF SwitchFailed, free
      <3> QED
        BY <1>17, <2>1, <3>1, LeaveEffect DEF SwitchFailed, WatchInv, watching, watchers_awake,
           NoOp, harmless, free, spawning, is_running, world, Alive, FreshRunner
    <2>2. CASE UNCHANGED worker /\ op' = [op EXCEPT !.at = "recover", !.attempt = 1, !.why = "other"]
      BY <1>17, <2>2 DEF SwitchFailed, WatchInv, watching, watchers_awake, free, spawning,
         is_running, world, Alive, FreshRunner
    <2> QED
      BY <1>17, <2>1, <2>2 DEF SwitchFailed
  <1>18. CASE StartFailed
    <2>1. CASE leave("failed")
      <3>1. ~free /\ leave("failed")
        BY <1>18, <2>1 DEF StartFailed, OpInv, NoOp
      <3> QED
        BY <1>18, <2>1, <3>1, LeaveEffect DEF StartFailed, transient, recoverable, repairable,
           WatchInv, watching, watchers_awake, expected, AppliedInv, NoOp, harmless, free,
           spawning, is_running, world, Alive, FreshRunner
    <2>2. CASE /\ UNCHANGED worker /\ (transient \/ recoverable \/ repairable)
               /\ op' = [op EXCEPT !.at = "compile", !.attempt = @ + 1, !.why = "other",
                                   !.recover = ~transient]
      BY <1>18, <2>2 DEF StartFailed, transient, recoverable, repairable, WatchInv, watching,
         watchers_awake, expected, AppliedInv, past_clean, swept, spawned, Operations, Kinds,
         NoOp, harmless, free, spawning, is_running, world, Alive, FreshRunner
    <2> QED
      BY <1>18, <2>1, <2>2 DEF StartFailed
  <1>19. CASE StopRaises
    <2>1. ~free /\ leave("failed")
      BY <1>19 DEF StopRaises, OpInv, free, NoOp
    <2> QED
      BY <1>19, <2>1, LeaveEffect DEF StopRaises, WatchInv, watching, Workers, Rest, NoOp,
         harmless, free, spawning, is_running, world, Alive, FreshRunner
  <1>20. CASE StopHeld
    <2>1. {runner.held} \cap Alive \in SUBSET Pids /\ ask({runner.held} \cap Alive)
      BY <1>20 DEF StopHeld, Alive
    <2> QED
      BY <1>20, <2>1, AskEffect DEF StopHeld, WatchInv, watching, swept, spawned, Operations,
         Kinds, Places, OpInv, PipeInv, HandoverInv, ResidualInv, EngineInv, TypeOK, harmless,
         free, spawning, is_running, world, worker, to
  <1>21. CASE StopRest
    <2>1. Alive \in SUBSET Pids /\ ask(Alive)
      BY <1>21 DEF StopRest, Alive
    <2>2. PICK is \in {"done", "failed"} : leave(is)
      BY <1>21 DEF StopRest
    <2>3. ~free
      BY <1>21 DEF StopRest, OpInv, free, NoOp
    <2> QED
      BY <1>21, <2>1, AskEffect, <2>2, <2>3, LeaveEffect DEF StopRest, WatchInv, watching,
         AppliedInv, NoOp, spawning, is_running
  <1>22. CASE Pause
    BY <1>22 DEF Pause, begin, WatchInv, watching, watchers_awake, expected, AppliedInv,
       past_clean, swept, spawned, Operations, Kinds, Places, OpInv, PipeInv, HandoverInv, free,
       spawning, is_running, world, Alive, FreshRunner
  <1>23. CASE PauseExits
    <2>1. CASE /\ is_running /\ may("stopping") /\ ask({runner.held})
               /\ runner' = [runner EXCEPT !.held = NoPid, !.state = "idle"]
      <3>1. {runner.held} \in SUBSET Pids /\ ask({runner.held})
        BY <2>1 DEF is_running, Alive
      <3> QED
        BY <1>23, <2>1, <3>1, AskEffect DEF PauseExits, WatchInv, watching, watchers_awake,
           expected, AppliedInv, past_clean, swept, spawned, Operations, Kinds, Places, OpInv,
           PipeInv, HandoverInv, ResidualInv, EngineInv, TypeOK, Runners, Pid, Preset, States,
           may, ALLOWED, Workers, worker, to
    <2>2. CASE UNCHANGED <<runner, world>>
      BY <1>23, <2>2 DEF PauseExits, WatchInv, watching, watchers_awake, expected, AppliedInv,
         past_clean, swept, spawned, Operations, Kinds, ResidualInv, EngineInv, TypeOK, harmless,
         free, spawning, is_running, world, worker, to, Alive, FreshRunner
    <2> QED
      BY <1>23, <2>1, <2>2 DEF PauseExits, stop_process_only
  <1>24. CASE PauseRefused
    <2>1. ~free /\ leave("failed")
      BY <1>24 DEF PauseRefused, OpInv, free, NoOp
    <2> QED
      BY <1>24, <2>1, LeaveEffect DEF PauseRefused, WatchInv, watching, Workers, Rest, NoOp,
         harmless, free, spawning, is_running, world, Alive, FreshRunner
  <1>25. CASE DirectRequestEnds
    BY <1>25 DEF DirectRequestEnds, WatchInv, watching, watchers_awake, expected, AppliedInv,
       past_clean, swept, free, spawning, is_running, world, worker, to, Alive, FreshRunner
  <1>26. CASE Request
    BY <1>26 DEF Request, WatchInv, watching, watchers_awake, expected, AppliedInv, past_clean,
       swept, free, spawning, is_running, world, Alive, FreshRunner
  <1>27. CASE Probe
    BY <1>27 DEF Probe, move, report, WatchInv, watching, watchers_awake, expected, AppliedInv,
       past_clean, swept, spawned, harmless, free, spawning, is_running, world, Alive,
       FreshRunner
  <1>28. CASE Adopt
    <2>1. PICK p \in Alive : /\ runner' = [runner EXCEPT !.held = p, !.extra = Alive \ {p}]
          /\ watchers' = [watchers EXCEPT ![p] = "none"]
      BY <1>28 DEF Adopt
    <2> QED
      BY <1>28, <2>1 DEF Adopt, move, WatchInv, watching, watchers_awake, expected, AppliedInv,
         past_clean, Places, OpInv, PipeInv, HandoverInv, ResidualInv, EngineInv, TypeOK,
         harmless, free, spawning, is_running, world, Alive, FreshRunner
  <1>29. CASE AdoptNone
    BY <1>29 DEF AdoptNone, move, WatchInv, watching, watchers_awake, free, spawning, is_running,
       world, Alive, FreshRunner
  <1>30. CASE StopExtras
    <2>1. runner.extra \in SUBSET Pids /\ ask(runner.extra)
      BY <1>30 DEF StopExtras, TypeOK, Runners
    <2> QED
      BY <1>30, <2>1, AskEffect DEF StopExtras, report, WatchInv, watching, watchers_awake,
         expected, AppliedInv, past_clean, swept, spawned, Operations, Kinds, PipeInv,
         HandoverInv, harmless, free, spawning, is_running
  <1>31. CASE NothingToStop
    BY <1>31 DEF NothingToStop, report, WatchInv, watching, watchers_awake, expected, AppliedInv,
       free, spawning, is_running, world, Alive, FreshRunner
  <1>32. CASE Look
    BY <1>32 DEF Look, move, WatchInv, watching, watchers_awake, expected, AppliedInv,
       past_clean, swept, free, spawning, is_running, world, Alive, FreshRunner
  <1>33. CASE StopResidual
    <2>1. CASE pipe.kind = "stop"
      <3>1. Alive \in SUBSET Pids /\ ask(Alive)
        BY <1>33 DEF StopResidual, Alive
      <3> QED
        BY <1>33, <2>1, <3>1, AskEffect DEF StopResidual, move, report, forget_runner, WatchInv,
           watching, watchers_awake, expected, AppliedInv, is_running, world, Alive, FreshRunner
    <2>2. CASE pipe.kind = "start"
      <3>1. Alive \in SUBSET Pids /\ ask(Alive)
        BY <1>33 DEF StopResidual, Alive
      <3> QED
        BY <1>33, <2>2, <3>1, AskEffect DEF StopResidual, move, report, forget_runner, WatchInv,
           watching, watchers_awake, expected, AppliedInv, Places, OpInv, PipeInv, HandoverInv,
           ResidualInv, NoOp, harmless, free, spawning, is_running
    <2> QED
      BY <1>33, <2>1, <2>2 DEF StopResidual, PipeInv, Seats, TypeOK, Workers
  <1>34. ASSUME NEW p \in Pids, Watch(p) PROVE WatchInv'
    BY <1>34 DEF Watch, WatchInv, watching, watchers_awake, expected, AppliedInv, past_clean,
       swept, free, spawning, is_running, world, Alive, FreshRunner
  <1>35. ASSUME NEW p \in Pids, WatchMatched(p) PROVE WatchInv'
    BY <1>35 DEF WatchMatched, expected, WatchInv, watching, watchers_awake, AppliedInv,
       past_clean, swept, free, spawning, is_running, world, Alive, FreshRunner
  <1>36. ASSUME NEW p \in Pids, Die(p) PROVE WatchInv'
    BY <1>36 DEF Die, WatchInv, watching, watchers_awake, expected, AppliedInv, past_clean,
       swept, free, spawning, is_running, world, Alive, FreshRunner
  <1> QED
    BY <1>1, <1>2, <1>3, <1>4, <1>5, <1>6, <1>7, <1>8, <1>9, <1>10, <1>11, <1>12, <1>13, <1>14,
       <1>15, <1>16, <1>17, <1>18, <1>19, <1>20, <1>21, <1>22, <1>23, <1>24, <1>25, <1>26, <1>27,
       <1>28, <1>29, <1>30, <1>31, <1>32, <1>33, <1>34, <1>35, <1>36 DEF Next, Operation,
       Starting, Stopping, Pausing, Working, Watching, Environment

\* A step of the kind most steps are: the runner holds what it held, the
\* watchers sleep, no engine is spawned, and the operation neither confirms a
\* start nor ends a stop.
LEMMA QuietStep ==
  ASSUME Inv, ToldInv, UNCHANGED watching, Alive' \subseteq Alive,
         runner'.held = runner.held, runner'.state \in {runner.state, "failed"},
         \/ /\ op'.kind = op.kind /\ op'.at = op.at /\ op'.old = op.old
            /\ runner'.state = runner.state
         \/ /\ op.at # "confirm" /\ ~being_stopped
            /\ op'.old \in {op.old, NoPid, runner.held}
  PROVE  ToldInv'
  <1>1. runner'.state = "idle" => {runner'.held, op'.old} \ {NoPid} \subseteq unwatched'
    BY DEF ToldInv, watching
  <1>2. runner'.state = "stopping" => being_stopped'
    BY DEF ToldInv, being_stopped
  <1>3. runner'.held \in Pids \ unwatched' /\ op'.at # "confirm" /\ ~being_stopped'
          => watchers'[runner'.held] # "none" \/ runner'.held \in told'
    BY DEF ToldInv, watching, being_stopped
  <1>4. op'.old \in Alive' \ unwatched' => watchers'[op'.old] = "waiting"
    <2>1. NoPid \notin Alive
      BY RunnerAssumption DEF Alive
    <2>2. \A p \in Pids : watchers[p] \in {"none", "waiting", "matched"}
      BY DEF Inv, TypeOK
    <2>3. Alive \subseteq Pids
      BY DEF Alive
    <2> QED
      BY <2>1, <2>2, <2>3 DEF ToldInv, watching
  <1>5. \A p \in Alive' : watchers'[p] # "matched" /\ p \notin told'
    BY DEF ToldInv, watching
  <1> QED
    BY <1>1, <1>2, <1>3, <1>4, <1>5 DEF ToldInv

\* Every step keeps what the reports of deaths rest on.
LEMMA ToldKept ==
  ASSUME Inv, ToldInv, Next
  PROVE  ToldInv'
  <1> USE RunnerAssumption, Typed DEF Inv
  <1>1. CASE Begin
    <2>1. op.at # "confirm" /\ ~being_stopped
      BY <1>1 DEF Begin, free, OpInv, NoOp, being_stopped
    <2>2. PICK kind \in Kinds, at \in Spots, want \in Preset : begin(kind, at, want)
      BY <1>1 DEF Begin, Kinds, Spots, Preset, TypeOK, Workers
    <2>3. op'.old = NoPid
      BY <2>2 DEF begin, NoOp
    <2>4. UNCHANGED <<runner, engines, watching>>
      BY <1>1 DEF Begin, world
    <2> QED
      BY <2>1, <2>3, <2>4, QuietStep DEF Alive
  <1>2. CASE CompileFails \/ SkipSwitch \/ StopRaises \/ PauseRefused
    <2>1. ~free /\ op.at # "confirm" /\ ~being_stopped
      BY <1>2 DEF CompileFails, SkipSwitch, StopRaises, PauseRefused, OpInv, free, NoOp,
         being_stopped
    <2>2. PICK is \in {"stale", "done", "failed"} : leave(is)
      BY <1>2 DEF CompileFails, SkipSwitch, StopRaises, PauseRefused
    <2>3. op'.old = NoPid
      BY <2>2 DEF leave, NoOp
    <2>4. runner'.held = runner.held /\ runner'.state \in {runner.state, "failed"}
      BY <1>2 DEF CompileFails, SkipSwitch, StopRaises, PauseRefused, TypeOK, Runners
    <2> QED
      BY <1>2, <2>1, <2>3, <2>4, QuietStep
      DEF CompileFails, SkipSwitch, StopRaises, PauseRefused, world, Alive
  <1>3. CASE CompileStart \/ DirectRequestEnds
    <2>1. op'.old = op.old /\ op.at # "confirm" /\ ~being_stopped
      BY <1>3 DEF CompileStart, DirectRequestEnds, to, TypeOK, Operations, being_stopped
    <2> QED
      BY <1>3, <2>1, QuietStep DEF CompileStart, DirectRequestEnds, world, Alive
  <1>4. CASE CompileSwitch
    <2>1. op'.old \in {NoPid, runner.held} /\ op.at # "confirm" /\ ~being_stopped
      BY <1>4 DEF CompileSwitch, TypeOK, Operations, being_stopped
    <2>2. runner'.held = runner.held /\ runner'.state = runner.state
      BY <1>4 DEF CompileSwitch, TypeOK, Runners
    <2> QED
      BY <1>4, <2>1, <2>2, QuietStep DEF CompileSwitch, world, Alive
  <1>5. CASE Clean \/ PauseExits
    <2>1. /\ op'.old = op.old /\ op'.kind = op.kind /\ op'.at \in {"sweep", "open", "closed"}
          /\ op.kind # "stop" /\ op.at \notin {"confirm", "dry", "popen"} /\ op.old = NoPid
      BY <1>5 DEF Clean, PauseExits, to, TypeOK, Operations, OpInv, Places, HandoverInv
    <2>2. UNCHANGED watching
      BY <1>5 DEF Clean, PauseExits
    <2>3. CASE UNCHANGED <<runner, world>>
      BY <2>1, <2>2, <2>3, QuietStep DEF world, Alive, being_stopped
    <2>4. CASE /\ is_running /\ ask({runner.held})
               /\ runner' = [runner EXCEPT !.held = NoPid, !.state = "idle"]
      <3>1. Alive' \subseteq Alive
        BY <2>4, AskEffect DEF is_running, Alive
      <3>2. runner'.held = NoPid /\ runner'.state = "idle"
        BY <2>4 DEF TypeOK, Runners
      <3> QED
        BY <2>1, <2>2, <3>1, <3>2 DEF ToldInv, watching, Alive
    <2> QED
      BY <1>5, <2>3, <2>4 DEF Clean, PauseExits, stop_process_only
  <1>6. CASE SweepBeforeSpawn \/ Recover
    <2>1. Alive' \subseteq Alive
      BY <1>6, AskEffect DEF SweepBeforeSpawn, Recover, Alive
    <2>2. op'.old = op.old /\ op.at # "confirm" /\ ~being_stopped
      BY <1>6 DEF SweepBeforeSpawn, Recover, to, TypeOK, Operations, spawning, being_stopped
    <2> QED
      BY <1>6, <2>1, <2>2, QuietStep DEF SweepBeforeSpawn, Recover
  <1>7. CASE Ready
    <2>1. op.at # "confirm" /\ ~being_stopped
      BY <1>7 DEF Ready, being_stopped
    <2>2. op'.old \in {op.old, NoPid}
      BY <1>7 DEF Ready, leave, to, NoOp, TypeOK, Operations
    <2>3. runner'.held = runner.held /\ runner'.state = runner.state
      BY <1>7 DEF Ready, TypeOK, Runners
    <2> QED
      BY <1>7, <2>1, <2>2, <2>3, QuietStep DEF Ready, world, Alive
  <1>8. CASE DryRun
    <2>1. op.at # "confirm" /\ ~being_stopped
      BY <1>8 DEF DryRun, being_stopped
    <2>2. op'.old = op.old
      BY <1>8 DEF DryRun, to, fail, TypeOK, Operations
    <2>3. runner'.held = runner.held /\ runner'.state \in {runner.state, "failed"}
      BY <1>8 DEF DryRun, TypeOK, Runners
    <2> QED
      BY <1>8, <2>1, <2>2, <2>3, QuietStep DEF DryRun, world, Alive
  <1>9. CASE SwitchFailed \/ StartFailed
    <2>1. op.at # "confirm" /\ ~being_stopped
      BY <1>9 DEF SwitchFailed, StartFailed, being_stopped
    <2>2. op'.old \in {op.old, NoPid}
      <3>1. CASE leave("failed")
        BY <3>1 DEF leave, NoOp
      <3>2. CASE ~leave("failed")
        BY <1>9, <3>2 DEF SwitchFailed, StartFailed, TypeOK, Operations
      <3> QED
        BY <3>1, <3>2
    <2>3. UNCHANGED <<runner, engines, watching>>
      BY <1>9 DEF SwitchFailed, StartFailed, world
    <2> QED
      BY <2>1, <2>2, <2>3, QuietStep DEF Alive
  <1>10. CASE Pause
    <2>1. op.at # "confirm" /\ ~being_stopped /\ op'.old = NoPid
      BY <1>10 DEF Pause, begin, free, OpInv, NoOp, being_stopped
    <2> QED
      BY <1>10, <2>1, QuietStep DEF Pause, Alive
  <1>11. CASE Request \/ Probe \/ AdoptNone \/ NothingToStop \/ Look
    BY <1>11, QuietStep DEF Request, Probe, AdoptNone, NothingToStop, Look, world, Alive
  <1>12. CASE StopExtras
    <2>1. Alive' \subseteq Alive
      BY <1>12, AskEffect DEF StopExtras, TypeOK, Runners
    <2>2. runner'.held = runner.held /\ runner'.state = runner.state
      BY <1>12 DEF StopExtras, TypeOK, Runners
    <2> QED
      BY <1>12, <2>1, <2>2, QuietStep DEF StopExtras
  <1>13. CASE StopResidual
    <2>1. Alive' \subseteq Alive
      BY <1>13, AskEffect DEF StopResidual, Alive
    <2>2. CASE pipe.kind = "stop"
      <3>1. runner'.held = NoPid /\ runner'.state = "idle" /\ watchers' = [p \in Pids |-> "none"]
        BY <1>13, <2>2 DEF StopResidual, forget_runner, FreshRunner
      <3>2. op.old = NoPid
        BY <1>13 DEF StopResidual, ResidualInv, HandoverInv, harmless, free, OpInv, NoOp
      <3> QED
        BY <1>13, <2>1, <3>1, <3>2 DEF StopResidual, ToldInv, Alive
    <2>3. CASE pipe.kind # "stop"
      BY <1>13, <2>1, <2>3, QuietStep DEF StopResidual, forget_runner, watching
    <2> QED
      BY <2>2, <2>3
  <1>14. CASE Popen
    <2>1. PICK p \in Pids :
            /\ fresh(p) /\ engines' = [engines EXCEPT ![p] = op.want]
            /\ runner'.held = p /\ runner'.state = "starting"
            /\ told' = told \ {p} /\ unwatched' = unwatched \ {p}
      BY <1>14 DEF Popen, TypeOK, Runners
    <2>2. op'.at = "confirm" /\ op'.old = op.old /\ watchers' = watchers
      BY <1>14 DEF Popen, TypeOK, Operations
    <2>3. Alive' \subseteq Alive \cup {p} /\ p # op.old /\ watchers[p] = "none"
      BY <2>1 DEF Alive, TypeOK, fresh
    <2> QED
      BY <2>1, <2>2, <2>3 DEF ToldInv
  <1>15. CASE PopenRaises \/ ExitsInStart
    <2>1. runner'.held = NoPid /\ runner'.state = "failed"
      BY <1>15 DEF PopenRaises, ExitsInStart, spawn_failed, TypeOK, Runners
    <2>2. op'.old = op.old
      BY <1>15 DEF PopenRaises, ExitsInStart, fail, TypeOK, Operations
    <2>3. Alive' \subseteq Alive
      BY <1>15 DEF PopenRaises, ExitsInStart, world, Alive, TypeOK
    <2> QED
      BY <1>15, <2>1, <2>2, <2>3 DEF PopenRaises, ExitsInStart, watching, ToldInv
  <1>16. CASE Confirm
    <2>1. /\ runner'.held = runner.held /\ runner'.state = "running"
          /\ op'.old = op.old /\ op'.at = "placed" /\ op.old # runner.held
          /\ runner.held \in Pids /\ UNCHANGED <<told, unwatched, engines>>
      BY <1>16 DEF Confirm, to, world, is_running, Alive, TypeOK, Runners, Operations, HandoverInv
    <2>2. watchers' = [watchers EXCEPT ![runner.held] = "waiting"] /\ Alive' = Alive
      BY <1>16, <2>1 DEF Confirm, Alive
    <2>3. Alive \subseteq Pids
      BY DEF Alive
    <2> QED
      BY <2>1, <2>2, <2>3 DEF ToldInv, TypeOK
  <1>17. CASE Placed
    <2>1. Alive' \subseteq Alive
      BY <1>17, AskEffect DEF Placed, TypeOK, Operations, Pid
    <2>2. op' = NoOp /\ op.at = "placed"
      BY <1>17 DEF Placed, leave
    <2>3. runner'.held = runner.held /\ runner'.state = runner.state
      BY <1>17 DEF Placed, TypeOK, Runners
    <2>4. op'.old = NoPid /\ ~being_stopped
      BY <2>2 DEF NoOp, being_stopped
    <2> QED
      BY <1>17, <2>1, <2>2, <2>3, <2>4, QuietStep DEF Placed
  <1>18. CASE HandoverFailed
    <2>1. PICK path \in {op.path, op.want} : restore_old(path)
      BY <1>18 DEF HandoverFailed
    <2>2. /\ runner'.held = op.old /\ runner'.state = runner.state /\ op.old \in Pids
          /\ unwatched' = IF op.old \in Alive \/ watchers[op.old] # "none" THEN unwatched
                          ELSE unwatched \cup {op.old}
      BY <1>18, <2>1 DEF restore_old, HandoverFailed, TypeOK, Runners, Operations, Pid
    <2>3. op.at = "failed" /\ op'.old \in {op.old, NoPid} /\ ~being_stopped
      <3>1. CASE leave("failed") \/ leave("stale")
        BY <1>18, <3>1 DEF HandoverFailed, leave, NoOp, being_stopped
      <3>2. CASE ~leave("failed") /\ ~leave("stale")
        BY <1>18, <3>2 DEF HandoverFailed, TypeOK, Operations, being_stopped
      <3> QED
        BY <3>1, <3>2
    <2>4. Alive' = Alive /\ UNCHANGED <<watchers, told>>
      BY <1>18 DEF HandoverFailed, world, Alive
    <2>5. runner.state = "idle" => op.old \in unwatched'
      BY <2>2 DEF ToldInv
    <2>6. NoPid \notin Alive /\ Alive \subseteq Pids
      BY DEF Alive
    <2> QED
      BY <2>2, <2>3, <2>4, <2>5, <2>6 DEF ToldInv
  <1>19. CASE StopHeld
    <2>1. Alive' \subseteq Alive
      BY <1>19, AskEffect DEF StopHeld, Alive
    <2>2. /\ runner'.held = runner.held /\ runner'.state \in {runner.state, "stopping"}
          /\ op'.kind = "stop" /\ op'.at = "sweep" /\ op'.old = op.old /\ UNCHANGED watching
      BY <1>19 DEF StopHeld, to, TypeOK, Runners, Operations, OpInv, Places, Kinds
    <2> QED
      BY <2>1, <2>2 DEF ToldInv, being_stopped, watching
  <1>20. CASE StopRest
    <2>1. Alive' \subseteq Alive
      BY <1>20, AskEffect DEF StopRest, Alive
    <2>2. runner'.held = NoPid /\ runner'.state = "idle" /\ op'.old = NoPid /\ UNCHANGED watching
      BY <1>20 DEF StopRest, leave, NoOp, TypeOK, Runners
    <2>3. NoPid \notin Alive
      BY DEF Alive
    <2> QED
      BY <2>1, <2>2, <2>3 DEF ToldInv, watching
  <1>21. CASE Adopt
    <2>1. PICK p \in Alive :
            /\ runner'.held = p /\ watchers' = [watchers EXCEPT ![p] = "none"]
            /\ unwatched' = unwatched \cup {p}
      BY <1>21 DEF Adopt, TypeOK, Runners
    <2>2. /\ runner'.state = runner.state /\ UNCHANGED <<op, told, engines>>
          /\ op.old = NoPid /\ Alive' = Alive /\ Alive \subseteq Pids
      BY <1>21 DEF Adopt, world, free, OpInv, NoOp, Alive, TypeOK, Runners
    <2> QED
      BY <2>1, <2>2 DEF ToldInv, TypeOK, being_stopped
  <1>22. ASSUME NEW p \in Pids, Watch(p) PROVE ToldInv'
    <2>1. /\ p \notin Alive /\ UNCHANGED <<runner, op, told, unwatched>> /\ Alive' = Alive
          /\ watchers' = [watchers EXCEPT ![p] = IF p = runner.held THEN "matched" ELSE "none"]
      BY <1>22 DEF Watch, world, Alive
    <2>2. Alive \subseteq Pids
      BY DEF Alive
    <2> QED
      BY <2>1, <2>2 DEF ToldInv, TypeOK, being_stopped
  <1>23. ASSUME NEW p \in Pids, WatchMatched(p) PROVE ToldInv'
    <2>1. /\ watchers[p] = "matched" /\ watchers' = [watchers EXCEPT ![p] = "none"]
          /\ told' = IF expected THEN told ELSE told \cup {p}
          /\ UNCHANGED <<runner, op, unwatched>> /\ Alive' = Alive
      BY <1>23 DEF WatchMatched, world, Alive
    <2>2. p \notin Alive /\ Alive \subseteq Pids
      BY <2>1 DEF ToldInv, Alive
    <2> QED
      BY <2>1, <2>2 DEF ToldInv, TypeOK, expected, being_stopped
  <1>24. ASSUME NEW p \in Pids, Die(p) PROVE ToldInv'
    <2>1. Alive' \subseteq Alive
      BY <1>24 DEF Die, Alive, TypeOK
    <2>2. op'.kind = op.kind /\ op'.at = op.at /\ op'.old = op.old
      BY <1>24 DEF Die, TypeOK, Operations
    <2> QED
      BY <1>24, <2>1, <2>2, QuietStep DEF Die
  <1> QED
    BY <1>1, <1>2, <1>3, <1>4, <1>5, <1>6, <1>7, <1>8, <1>9, <1>10, <1>11, <1>12, <1>13, <1>14,
       <1>15, <1>16, <1>17, <1>18, <1>19, <1>20, <1>21, <1>22, <1>23, <1>24 DEF Next, Operation,
       Starting, Stopping, Pausing, Working, Watching, Environment

\* The invariant and its parts hold at the start, and every step keeps them.
LEMMA InitInv == Init => Inv /\ StopInv /\ AppliedInv /\ ServingInv /\ WatchInv /\ ToldInv
  <1> SUFFICES ASSUME Init PROVE Inv /\ StopInv /\ AppliedInv /\ ServingInv /\ WatchInv /\ ToldInv
    OBVIOUS
  <1>1. op = NoOp /\ runner = FreshRunner /\ pipe = Rest /\ refused = {} /\ asked = {} /\ told = {}
    BY DEF Init
  <1>2. Alive \subseteq left /\ (phase = "stopped" => Alive = {}) /\ phase \in {"stopped", "running"}
    BY DEF Init, Alive
  <1>3. TypeOK
    <2>1. engines \in [Pids -> Preset] /\ left \subseteq Pids
      BY RunnerAssumption DEF Init, Preset
    <2>2. used \in Counters /\ outcome \in Outcomes
      BY RunnerAssumption DEF Init, Counters, Outcomes, Kinds
    <2> QED
      BY <2>1, <2>2, Typed DEF Init, TypeOK
  <1>4. OpInv /\ PipeInv /\ ResidualInv
    BY <1>1 DEF OpInv, PipeInv, ResidualInv, NoOp, Rest, Places, Seats
  <1>5. HandoverInv /\ EngineInv
    BY <1>1, <1>2 DEF HandoverInv, EngineInv, NoOp, Rest, FreshRunner, spawning
  <1>6. StopInv
    BY <1>1, <1>2 DEF StopInv, harmless, free, NoOp
  <1>7. AppliedInv /\ ServingInv /\ WatchInv
    BY DEF Init, AppliedInv, ServingInv, WatchInv, NoOp, FreshRunner, spawning
  <1>8. ToldInv
    BY RunnerAssumption DEF Init, ToldInv, NoOp, FreshRunner, Alive
  <1> QED
    BY <1>3, <1>4, <1>5, <1>6, <1>7, <1>8 DEF Inv

LEMMA InvKept == ASSUME Inv, [Next]_vars PROVE Inv'
  <1>1. CASE Starting
    BY <1>1, CompileFailsKeeps, CompileStartKeeps, SkipSwitchKeeps, CompileSwitchKeeps,
       CleanKeeps, SweepBeforeSpawnKeeps, RecoverKeeps, ReadyKeeps, DryRunKeeps, PopenKeeps,
       PopenRaisesKeeps, ConfirmKeeps, ExitsInStartKeeps, PlacedKeeps, HandoverFailedKeeps,
       SwitchFailedKeeps, StartFailedKeeps DEF Starting
  <1>2. CASE Stopping \/ Pausing
    BY <1>2, StopRaisesKeeps, StopHeldKeeps, StopRestKeeps, PauseExitsKeeps, PauseRefusedKeeps,
       DirectRequestEndsKeeps DEF Stopping, Pausing
  <1>3. CASE Working
    BY <1>3, BeginKeeps, ProbeKeeps, AdoptKeeps, AdoptNoneKeeps, StopExtrasKeeps,
       NothingToStopKeeps, LookKeeps, StopResidualKeeps DEF Working
  <1>4. CASE Watching
    BY <1>4, WatchKeeps, WatchMatchedKeeps DEF Watching
  <1>5. CASE Environment
    BY <1>5, RequestKeeps, PauseKeeps, DieKeeps DEF Environment
  <1>6. CASE UNCHANGED vars
    BY <1>6 DEF vars, Inv, TypeOK, OpInv, PipeInv, ResidualInv, HandoverInv, EngineInv, Alive,
       is_running, free, spawning, harmless
  <1> QED
    BY <1>1, <1>2, <1>3, <1>4, <1>5, <1>6 DEF Next, Operation

\* A step that changes nothing keeps everything.
LEMMA Stutter ==
  ASSUME UNCHANGED vars
  PROVE  /\ StopInv => StopInv'
         /\ AppliedInv => AppliedInv'
         /\ ServingInv => ServingInv'
         /\ WatchInv => WatchInv'
         /\ ToldInv => ToldInv'
         /\ UNCHANGED Slot!vars
  BY DEF vars, StopInv, AppliedInv, ServingInv, WatchInv, ToldInv, being_stopped, Slot!vars, serving, server, Alive,
     is_running, free, spawning, harmless, past_clean, expected

-----------------------------------------------------------------------------
(* The theorems *)

\* The runner, its worker and its watchers keep to their types, whatever
\* happens between them.
THEOREM TypeCorrect == Spec => []TypeOK
  <1>1. Inv => TypeOK
    BY DEF Inv
  <1> QED
    BY <1>1, InitInv, InvKept, PTL DEF Spec

\* No operation of zapret2_runner.py leaves an engine behind that the runner
\* does not hold, on any path of failure, retry and restoration.
THEOREM NothingLeftBehind == Spec => []NothingBehind
  <1>1. Inv => NothingBehind
    BY RunnerAssumption DEF Inv, OpInv, EngineInv, NothingBehind, NoOp, Alive
  <1> QED
    BY <1>1, InitInv, InvKept, PTL DEF Spec

\* If no stop looks for the engine while a premium request has it paused
\* (control_workers.py, StopWorker), a stop that is reported stays true.
THEOREM StopAlwaysFinal ==
  ASSUME "pause" \notin Windows
  PROVE  Spec => []StopIsFinal
  <1>1. StopInv => StopIsFinal
    BY DEF StopInv, StopIsFinal
  <1>2. Inv /\ StopInv /\ [Next]_vars => StopInv'
    BY StopKept, Stutter
  <1> QED
    BY <1>1, <1>2, InitInv, InvKept, PTL DEF Spec

\* Whatever the operations, their failures and the watchers do, the death of
\* the engine the runner is left with is never lost, but for an adopted engine
\* and the old one of a handover that fails after it died (runner_base.py:173).
THEOREM DeathsAlwaysTold == Spec => []DeathTold
  <1>1. Inv /\ ToldInv => DeathTold
    BY DEF Inv, OpInv, NoOp, free, being_stopped, ToldInv, DeathTold
  <1>2. Inv /\ ToldInv /\ [Next]_vars => ToldInv'
    BY ToldKept, Stutter
  <1> QED
    BY <1>1, <1>2, InitInv, InvKept, PTL DEF Spec

\* If no watcher sleeps between its two reads while an operation begins, and
\* no engine is adopted by a runner that applied a preset, then besides an exit
\* is reported as unexpected only if nobody asked for it
\* (_on_watched_process_exit).
THEOREM AlarmsAlwaysRight ==
  ASSUME {"watch", "adopt"} \cap Windows = {}
  PROVE  Spec => []AlarmsRight
  <1>1. WatchInv => OnlyUnasked
    BY DEF WatchInv, OnlyUnasked
  <1>2. Inv /\ AppliedInv /\ WatchInv /\ [Next]_vars
        => AppliedInv' /\ WatchInv'
    BY AppliedKept, WatchKept, Stutter
  <1>3. Spec => []OnlyUnasked
    BY <1>1, <1>2, InitInv, InvKept, PTL DEF Spec
  <1>4. OnlyUnasked /\ DeathTold => AlarmsRight
    BY DEF AlarmsRight
  <1> QED
    BY <1>3, <1>4, DeathsAlwaysTold, PTL

\* The runner implements the safety half of EngineSlot: each of its steps is
\* one of the promise or leaves the promise's state alone.
THEOREM SwitchAllOrNothing ==
  ASSUME "adopt" \notin Windows
  PROVE  Spec => Slot!Init /\ [][Slot!Next]_(Slot!vars)
  <1>1. Init => Slot!Init
    BY RunnerAssumption DEF Init, NoOp, FreshRunner, serving, server, Alive, Slot!Init,
       Slot!NoJob
  <1>2. Inv /\ AppliedInv /\ ServingInv /\ [Next]_vars
        => AppliedInv' /\ ServingInv' /\ [Slot!Next]_(Slot!vars)
    BY AppliedKept, ServingKept, StepRefines, Stutter
  <1> QED
    BY <1>1, <1>2, InitInv, InvKept, PTL DEF Spec
=============================================================================
