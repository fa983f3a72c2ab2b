----------------------- MODULE PendingRequestProofs -----------------------
(* That a restart or a preset switch which was asked for is never lost, for   *)
(* any number of requests, stops, failures, crashes and automatic restarts;   *)
(* and so what holds when nothing is pending and nothing works any more: the  *)
(* phase is final, what is published of the engine is true, and the engine    *)
(* that runs is in the mode selected last.                                    *)
EXTENDS LaunchRuntimeProofs, SequenceTheorems

-----------------------------------------------------------------------------
(* The preset switch.                                                         *)

\* process_pending_presets_switch either completes what is pending, or arms its
\* retry, or starts the worker.
LEMMA SwitchTaken ==
    ASSUME TypeInv, NEW r \in RuntimeStates, NEW b \in BOOLEAN,
           NEW w \in SwitchFields, NEW retry \in BOOLEAN,
           NEW d \in PRESET_LAUNCH_METHODS \cup {NoMethod},
           process_pending_presets_switch(r, b, w, retry, d),
           switch'.requested > switch'.completed
    PROVE  switchRetry' \/ working(switchThread')
  <1> DEFINE pending  == w.requested > w.completed
             done     == [w EXCEPT !.completed = w.requested, !.waits = 0]
             starting == r.phase = "starting" /\ w.waits < MaxStartingWaits
  <1>1. done.requested = w.requested /\ done.completed = w.requested
    BY DEF SwitchFields
  <1>2. w.requested \in Nat /\ w.completed \in Nat
    BY DEF SwitchFields
  <1>3. CASE ~pending
    <2>1. switch' = w
      BY <1>3 DEF process_pending_presets_switch
    <2> QED
      BY <1>3, <2>1
  <1>4. CASE pending /\ pipeline_occupied
    BY <1>4 DEF process_pending_presets_switch, schedule_switch_retry
  <1>5. CASE pending /\ ~pipeline_occupied /\ ~is_running(r) /\ starting
    BY <1>5 DEF process_pending_presets_switch, schedule_switch_retry, owner_differs
  <1>6. CASE pending /\ ~pipeline_occupied /\ ~is_running(r) /\ ~starting
    <2>1. switch' = done
      BY <1>6 DEF process_pending_presets_switch, owner_differs
    <2> QED
      BY <1>1, <1>2, <2>1
  <1>7. CASE pending /\ ~pipeline_occupied /\ is_running(r) /\ owner_differs(r, w.method)
    <2>1. switch' = done
      BY <1>7 DEF process_pending_presets_switch
    <2> QED
      BY <1>1, <1>2, <2>1
  <1>8. CASE pending /\ ~pipeline_occupied /\ is_running(r) /\ ~owner_differs(r, w.method)
    <2>1. switchThread' = [IdleSwitch EXCEPT !.stage = "check",
                              !.method = w.method, !.gen = w.requested]
      BY <1>8 DEF process_pending_presets_switch
    <2>2. switchThread'.stage = "check"
      BY <2>1 DEF IdleSwitch
    <2> QED
      BY <2>2 DEF working
  <1> QED
    BY <1>3, <1>4, <1>5, <1>6, <1>7, <1>8

\* A step that leaves the request, its retry, its queued calls and the switch
\* worker at work.
LEMMA SwitchKept ==
    ASSUME SwitchNeverStranded, UNCHANGED <<switch, switchRetry>>,
           switchKicks > 0 => switchKicks' > 0,
           working(switchThread) => working(switchThread')
    PROVE  SwitchNeverStranded'
  BY DEF SwitchNeverStranded, working

\* Every step keeps the property: the consumer of the retry or of a queued call
\* is process_pending_presets_switch, the worker's end queues a call.
LEMMA SwitchNext == TypeInv /\ SwitchNeverStranded /\ [Next]_vars => SwitchNeverStranded'
  <1> SUFFICES ASSUME TypeInv, SwitchNeverStranded, [Next]_vars
               PROVE  SwitchNeverStranded'
    OBVIOUS
  <1>1. /\ rt \in RuntimeStates /\ busy \in BOOLEAN /\ switch \in SwitchFields
        /\ switchRetry \in BOOLEAN /\ switchKicks \in Nat
        /\ debounce \in PRESET_LAUNCH_METHODS \cup {NoMethod}
    BY DEF TypeInv, TypeOK
  <1>2. CASE UserStep
    BY <1>2, SwitchKept
    DEF UserStep, UserStart, UserStop, UserRestart, ApplyPreset, ChangeMethod,
        timers, threads
  <1>3. CASE RunCommand \/ RestartRetryFires \/ RestartKickFires
    BY <1>3, SwitchKept DEF RunCommand, RestartRetryFires, RestartKickFires
  <1>4. CASE SwitchRetryFires
    <2>1. process_pending_presets_switch(rt, busy, switch, FALSE, debounce)
      BY <1>4 DEF SwitchRetryFires
    <2> QED
      BY <1>1, <2>1, SwitchTaken DEF SwitchNeverStranded
  <1>5. CASE SwitchKickFires
    <2>1. process_pending_presets_switch(rt, busy, switch, switchRetry, debounce)
      BY <1>5 DEF SwitchKickFires
    <2> QED
      BY <1>1, <2>1, SwitchTaken DEF SwitchNeverStranded
  <1>6. CASE DebounceFires
    <2>1. debounce \in PRESET_LAUNCH_METHODS /\ switch_presets_async(debounce)
      BY <1>1, <1>6 DEF DebounceFires
    <2>2. CASE owner_differs(rt, debounce)
      BY <1>6, <2>1, <2>2, SwitchKept DEF DebounceFires, switch_presets_async
    <2>3. CASE ~owner_differs(rt, debounce)
      <3> DEFINE w == [switch EXCEPT !.method = debounce, !.requested = @ + 1]
      <3>1. process_pending_presets_switch(rt, TRUE, w, switchRetry, NoMethod)
        BY <2>1, <2>3 DEF switch_presets_async
      <3>2. w \in SwitchFields
        <4>1. switch.requested + 1 \in Nat
          BY <1>1 DEF SwitchFields
        <4> QED
          BY <1>1, <2>1, <4>1 DEF SwitchFields
      <3> HIDE DEF w
      <3> QED
        BY <1>1, <3>1, <3>2, SwitchTaken DEF SwitchNeverStranded
    <2> QED
      BY <2>2, <2>3
  <1>7. CASE \E force, expired \in BOOLEAN : StopPollFires(force, expired)
    BY <1>7, SwitchKept DEF StopPollFires
  <1>8. CASE StartFinished \/ StopFinished
    <2>1. UNCHANGED <<switch, switchRetry, switchThread>> /\ kick_pending_switch
      BY <1>8 DEF StartFinished, StopFinished, finishedFrame
    <2>2. switchKicks > 0 => switchKicks' > 0
      BY <1>1, <2>1 DEF kick_pending_switch
    <2> QED
      BY <2>1, <2>2, SwitchKept
  <1>9. CASE SwitchFinished
    <2>1. kick_pending_switch
      BY <1>9 DEF SwitchFinished
    <2>2. switch'.requested > switch'.completed => switchKicks' > 0
      BY <1>1, <2>1 DEF kick_pending_switch
    <2> QED
      BY <2>2 DEF SwitchNeverStranded
  <1>10. CASE ThreadExits
    <2>1. working(switchThread) => working(switchThread')
      BY <1>10 DEF ThreadExits, working
    <2> QED
      BY <1>10, <2>1, SwitchKept DEF ThreadExits, finishedFrame
  <1>11. CASE \/ ObserveReport \/ ApplyRuntimeState
              \/ \E transient \in BOOLEAN : HandleUnexpectedExit(transient)
    BY <1>11, SwitchKept
    DEF ObserveReport, ApplyRuntimeState, HandleUnexpectedExit, signalFrame, timers
  <1>12. CASE WorkerStep
    <2>1. UNCHANGED <<switch, switchRetry, switchKicks>>
      BY <1>12 DEF WorkerStep, StartPrepare, StartSpawn, StopKill, StopProbe,
                   SwitchCheck, SwitchApply, SwitchRespawn, SwitchReport,
                   workerFrame, timers
    <2>2. working(switchThread) => working(switchThread')
      <3>1. CASE StartPrepare \/ StartSpawn \/ StopKill \/ StopProbe
        BY <3>1 DEF StartPrepare, StartSpawn, StopKill, StopProbe
      <3>2. CASE SwitchCheck \/ SwitchApply \/ SwitchRespawn \/ SwitchReport
        <4>1. switchThread'.stage \in {"apply", "respawn", "report", "done"}
          BY <3>2 DEF SwitchCheck, SwitchApply, SwitchRespawn, SwitchReport,
                      switch_keeps, switch_spawns, switch_step, SwitchThreads,
                      TypeInv, TypeOK
        <4> QED
          BY <4>1 DEF working
      <3> QED
        BY <1>12, <3>1, <3>2 DEF WorkerStep
    <2> QED
      BY <2>1, <2>2, SwitchKept
  <1>13. CASE EnvironmentStep
    BY <1>13, SwitchKept
    DEF EnvironmentStep, Crash, MonitorScan, BeginScan, ScanStep, scanFrame,
        timers, threads
  <1>14. CASE UNCHANGED vars
    BY <1>14, SwitchKept DEF vars, timers, threads
  <1> QED
    BY <1>2, <1>3, <1>4, <1>5, <1>6, <1>7, <1>8, <1>9, <1>10, <1>11, <1>12,
       <1>13, <1>14 DEF Next, TimerStep, SignalStep

\* A preset switch that was asked for and not completed always has a retry, a
\* queued call or its worker to take it up again, whatever the user, the other
\* workers, crashes and strategy scans do in between.
THEOREM SwitchNotLost == Spec => []SwitchNeverStranded
  <1>1. Init => SwitchNeverStranded
    BY DEF Init, SwitchNeverStranded
  <1> QED
    BY <1>1, SwitchNext, TypesHold, PTL DEF Spec

-----------------------------------------------------------------------------
(* The restart, while no strategy scan refuses its start.                     *)

\* Without a scan the property is kept by every step together with two facts:
\* a stop that will go on with the start works for the newest request, and a
\* start thread that is quitting, which blocks every new start, leaves the
\* request to the retry or to a queued call.
RestartTakenUp ==
    restart.requested > restart.completed =>
        /\ \/ restartRetry \/ restartKicks > 0 \/ working(startThread)
           \/ working(stopThread) /\ restart.pendingStop = restart.requested
        /\ startThread.stage = "quitting" => restartRetry \/ restartKicks > 0

RestartInv == TypeInv /\ scan.stage = "off" /\ RestartTakenUp

\* Without a scan a start is refused by a start thread only.
LEMMA StartEffect ==
    ASSUME scan.stage = "off", NEW r, NEW b, NEW m, start_dpi_async(r, b, m)
    PROVE  IF isRunning(startThread) THEN startThread' = startThread
                                     ELSE startThread'.stage = "prepare"
  BY DEF start_dpi_async, ScanActive, IdleStart

\* A stop under way goes on; a stop that need not wait for a start begins.
LEMMA StopEffect ==
    ASSUME NEW r, NEW b, NEW force, NEW polls, NEW expired,
           stop_dpi_async(r, b, force, polls, expired)
    PROVE  /\ stopThread' = stopThread \/ stopThread'.stage = "kill"
           /\ ~isRunning(startThread) => isRunning(stopThread) \/ stopThread'.stage = "kill"
  BY DEF stop_dpi_async, stop_must_wait, IdleStop

\* process_pending_restart_request always takes up what is pending.
LEMMA RestartTaken ==
    ASSUME scan.stage = "off", NEW r, NEW b, NEW s \in RestartFields, NEW retry,
           process_pending_restart_request(r, b, s, retry)
    PROVE  RestartTakenUp'
  <1> DEFINE pending == s.requested > s.completed
             force   == s.forceStop = s.requested
  <1>1. CASE ~pending
    <2>1. restart' = s
      BY <1>1 DEF process_pending_restart_request
    <2> QED
      BY <1>1, <2>1 DEF RestartTakenUp
  <1>2. CASE pending /\ pipeline_occupied
    <2>1. restartRetry'
      BY <1>2 DEF process_pending_restart_request, schedule_restart_retry
    <2> QED
      BY <2>1 DEF RestartTakenUp
  <1>3. CASE pending /\ ~pipeline_occupied /\ (is_running(r) \/ force)
    <2>1. /\ restart' = [s EXCEPT !.pendingStop = s.requested]
          /\ stop_dpi_async(r, b, force, stopPolls, FALSE)
          /\ UNCHANGED startThread
      BY <1>3 DEF process_pending_restart_request
    <2>2. restart'.pendingStop = restart'.requested
      BY <2>1 DEF RestartFields
    <2>3. ~isRunning(startThread) /\ ~isRunning(stopThread)
      BY <1>3 DEF pipeline_occupied
    <2>4. stopThread'.stage = "kill"
      BY <2>1, <2>3, StopEffect
    <2>5. startThread'.stage = "idle"
      BY <2>1, <2>3 DEF isRunning
    <2> QED
      BY <2>2, <2>4, <2>5 DEF RestartTakenUp, working
  <1>4. CASE pending /\ ~pipeline_occupied /\ ~(is_running(r) \/ force)
    <2>1. start_dpi_async(r, b, s.target) /\ ~isRunning(startThread)
      BY <1>4 DEF process_pending_restart_request, pipeline_occupied
    <2>2. startThread'.stage = "prepare"
      BY <2>1, StartEffect
    <2> QED
      BY <2>2 DEF RestartTakenUp, working
  <1> QED
    BY <1>1, <1>2, <1>3, <1>4

\* The same of a new request.
LEMMA RestartRequestTaken ==
    ASSUME TypeInv, scan.stage = "off", NEW r, NEW b, NEW force \in BOOLEAN,
           NEW m \in MethodOrNone, restart_dpi_async(r, b, force, m)
    PROVE  RestartTakenUp'
  <1> DEFINE g == restart.requested + 1
             s == [restart EXCEPT !.requested = g, !.target = m,
                                  !.forceStop = IF force THEN g ELSE @]
  <1>1. s \in RestartFields
    <2>1. restart \in RestartFields /\ g \in Nat
      BY DEF TypeInv, TypeOK, RestartFields
    <2> HIDE DEF g
    <2> QED
      BY <2>1 DEF RestartFields, MethodOrNone
  <1>2. process_pending_restart_request(r, b, s, restartRetry)
    BY DEF restart_dpi_async
  <1> HIDE DEF s
  <1> QED
    BY <1>1, <1>2, RestartTaken

\* A step that leaves the request and whatever is to take it up.
LEMMA RestartKept ==
    ASSUME RestartTakenUp, UNCHANGED <<restart, restartRetry, restartKicks>>,
           \/ startThread' = startThread
           \/ startThread'.stage = "prepare" /\ ~isRunning(startThread)
           \/ working(startThread) /\ working(startThread')
           \/ startThread.stage = "quitting" /\ startThread'.stage = "idle",
           working(stopThread) => working(stopThread')
    PROVE  RestartTakenUp'
  <1>1. startThread'.stage = "quitting" => startThread.stage = "quitting"
    BY DEF working
  <1>2. working(startThread) => working(startThread')
    BY DEF working, isRunning
  <1>3. CASE startThread.stage = "quitting" /\ startThread'.stage = "idle"
    BY <1>3 DEF RestartTakenUp
  <1> QED
    BY <1>1, <1>2, <1>3 DEF RestartTakenUp

\* A preset switch of another mode turns into a restart; any other leaves the
\* restart alone.
LEMMA PresetSwitchRestart ==
    ASSUME RestartInv, NEW r, NEW b, NEW w \in SwitchFields, NEW retry, NEW d,
           process_pending_presets_switch(r, b, w, retry, d), UNCHANGED restartKicks
    PROVE  RestartTakenUp'
  <1>1. w.method \in MethodOrNone
    BY DEF SwitchFields, MethodOrNone, PRESET_LAUNCH_METHODS, ALL_LAUNCH_METHODS
  <1>2. CASE restart_dpi_async(r, FALSE, TRUE, w.method)
    BY <1>1, <1>2, RestartRequestTaken DEF RestartInv
  <1>3. CASE UNCHANGED <<restart, restartRetry, startThread, stopThread, stopPolls>>
    BY <1>3, RestartKept DEF RestartInv
  <1> QED
    BY <1>2, <1>3 DEF process_pending_presets_switch, redirect_preset_switch

\* The end of a stop: it goes on with the start, or completes the request that
\* could not be stopped, and never drops a newer one.
LEMMA StopFinishedRestart ==
    ASSUME RestartInv, StopFinished
    PROVE  RestartTakenUp'
  <1> DEFINE s == clear_served_force(restart)
             g == restart.pendingStop
  <1>1. restart \in RestartFields /\ s \in RestartFields
    BY FinishTypes DEF RestartInv, TypeInv, TypeOK
  <1>2. s.requested = restart.requested /\ s.completed = restart.completed
    BY <1>1 DEF clear_served_force, RestartFields
  <1>3. restart.requested \in Nat /\ restart.completed \in Nat /\ g \in Nat
    BY <1>1 DEF RestartFields
  <1>4. UNCHANGED <<restartRetry, restartKicks>>
    BY DEF StopFinished, finishedFrame
  <1>5. CASE stopThread.ok /\ g > s.completed
    <2>1. ~(g <= s.completed)
      BY <1>2, <1>3, <1>5
    <2>2. /\ restart' = [s EXCEPT !.pendingStop = 0,
                                  !.activeStart = max(g, s.requested)]
          /\ start_dpi_async(mark_stopped(rt), FALSE, s.target)
      BY <1>5, <2>1 DEF StopFinished
    <2>3. restart'.requested = restart.requested /\ restart'.completed = restart.completed
      BY <1>1, <1>2, <2>2 DEF RestartFields
    <2>4. CASE isRunning(startThread)
      <3>1. startThread' = startThread
        BY <2>2, <2>4, StartEffect DEF RestartInv
      <3> QED
        BY <1>4, <2>3, <2>4, <3>1 DEF RestartInv, RestartTakenUp, working, isRunning
    <2>5. CASE ~isRunning(startThread)
      <3>1. startThread'.stage = "prepare"
        BY <2>2, <2>5, StartEffect DEF RestartInv
      <3> QED
        BY <3>1 DEF RestartTakenUp, working
    <2> QED
      BY <2>4, <2>5
  <1>6. CASE stopThread.ok /\ g <= s.completed
    <2>1. ~(g > s.completed)
      BY <1>2, <1>3, <1>6
    <2>2. restart' = s /\ UNCHANGED startThread
      BY <1>6, <2>1 DEF StopFinished
    <2>3. restart.requested > restart.completed => g # restart.requested
      BY <1>2, <1>3, <1>6
    <2> QED
      BY <1>2, <1>4, <2>2, <2>3 DEF RestartInv, RestartTakenUp
  <1>7. CASE ~stopThread.ok
    <2> DEFINE u == [s EXCEPT !.pendingStop = 0]
    <2>1. restart' = finish_restart_request(u, g) /\ UNCHANGED startThread
      BY <1>7 DEF StopFinished
    <2>2. /\ u \in RestartFields
          /\ u.requested = restart.requested /\ u.completed = restart.completed
      BY <1>1, <1>2 DEF RestartFields
    <2>3. restart'.requested = restart.requested
      BY <2>1, <2>2 DEF finish_restart_request, RestartFields
    <2>4. restart'.completed = IF g = 0 THEN restart.completed
                                        ELSE max(restart.completed, g)
      BY <2>1, <2>2 DEF finish_restart_request, RestartFields
    <2>5. restart'.requested > restart'.completed =>
              g # restart.requested /\ restart.requested > restart.completed
      BY <1>3, <2>3, <2>4 DEF max
    <2> QED
      BY <1>4, <2>1, <2>3, <2>5 DEF RestartInv, RestartTakenUp
  <1> QED
    BY <1>2, <1>3, <1>5, <1>6, <1>7

\* Every step keeps the strengthened invariant.
LEMMA RestartNext ==
    ASSUME RestartInv, [Next]_vars, spent'["scan"] = 0
    PROVE  RestartInv'
  <1>1. TypeInv'
    BY NextTypes DEF RestartInv
  <1>2. /\ restart \in RestartFields /\ switch \in SwitchFields
        /\ restartKicks \in Nat /\ commands \in Seq(Commands)
        /\ debounce \in PRESET_LAUNCH_METHODS \cup {NoMethod}
        /\ NoMethod \in MethodOrNone /\ PRESET_LAUNCH_METHODS \subseteq MethodOrNone
    BY DEF RestartInv, TypeInv, TypeOK, MethodOrNone, PRESET_LAUNCH_METHODS,
           ALL_LAUNCH_METHODS
  <1>3. scan'.stage = "off"
    <2>1. ~BeginScan
      <3>1. "scan" \in Kinds /\ spent \in [Kinds -> Nat]
        BY DEF Kinds, RestartInv, TypeInv, TypeOK
      <3>2. spent["scan"] \in Nat
        BY <3>1
      <3> QED
        BY <3>1, <3>2 DEF BeginScan, Spend
    <2>2. ~ScanStep
      BY DEF ScanStep, scan_step, RestartInv
    <2>3. UNCHANGED scan
      BY <2>1, <2>2
      DEF Next, UserStep, TimerStep, SignalStep, WorkerStep, EnvironmentStep, vars,
          UserStart, UserStop, UserRestart, ApplyPreset, ChangeMethod, RunCommand,
          RestartRetryFires, RestartKickFires, SwitchRetryFires, SwitchKickFires,
          DebounceFires, StopPollFires, StartFinished, StopFinished, SwitchFinished,
          ThreadExits, ObserveReport, ApplyRuntimeState, HandleUnexpectedExit,
          StartPrepare, StartSpawn, StopKill, StopProbe, SwitchCheck, SwitchApply,
          SwitchRespawn, SwitchReport, Crash, MonitorScan, timerFrame,
          finishedFrame, signalFrame
    <2> QED
      BY <2>3 DEF RestartInv
  <1>4. RestartTakenUp'
    <2>1. CASE UserStart
      <3>1. /\ start_dpi_async(rt, busy, NoMethod)
            /\ UNCHANGED <<restart, restartRetry, restartKicks, stopThread>>
        BY <2>1 DEF UserStart, timers
      <3> QED
        BY <3>1, StartEffect, RestartKept DEF RestartInv
    <2>2. CASE UserStop \/ \E force, expired \in BOOLEAN : StopPollFires(force, expired)
      <3>1. PICK force, polls, expired : stop_dpi_async(rt, busy, force, polls, expired)
        BY <2>2 DEF UserStop, StopPollFires
      <3>2. UNCHANGED <<restart, restartRetry, restartKicks, startThread>>
        BY <2>2 DEF UserStop, StopPollFires
      <3>3. working(stopThread) => working(stopThread')
        BY <3>1, StopEffect DEF working
      <3> QED
        BY <3>2, <3>3, RestartKept DEF RestartInv
    <2>3. CASE UserRestart
      BY <1>2, <2>3, RestartRequestTaken DEF UserRestart, RestartInv
    <2>4. CASE ApplyPreset \/ \E m \in SelectableMethods : ChangeMethod(m)
      BY <2>4, RestartKept DEF ApplyPreset, ChangeMethod, threads, RestartInv
    <2>5. CASE RunCommand
      <3>1. /\ Head(commands).force \in BOOLEAN
            /\ Head(commands).method \in MethodOrNone
        <4>1. Head(commands) \in Commands
          BY <1>2, <2>5 DEF RunCommand
        <4> QED
          BY <4>1 DEF Commands, MethodOrNone
      <3>2. CASE restart_dpi_async(rt, busy, Head(commands).force, Head(commands).method)
        BY <3>1, <3>2, RestartRequestTaken DEF RestartInv
      <3>3. CASE /\ stop_dpi_async(rt, busy, Head(commands).force, stopPolls, FALSE)
                 /\ UNCHANGED <<restart, restartRetry, startThread>>
        <4>1. working(stopThread) => working(stopThread')
          BY <3>3, StopEffect DEF working
        <4>2. UNCHANGED restartKicks
          BY <2>5 DEF RunCommand
        <4> QED
          BY <3>3, <4>1, <4>2, RestartKept DEF RestartInv
      <3> QED
        BY <2>5, <3>2, <3>3 DEF RunCommand
    <2>6. CASE RestartRetryFires \/ RestartKickFires
      BY <1>2, <2>6, RestartTaken DEF RestartRetryFires, RestartKickFires, RestartInv
    <2>7. CASE SwitchRetryFires \/ SwitchKickFires
      BY <1>2, <2>7, PresetSwitchRestart DEF SwitchRetryFires, SwitchKickFires
    <2>8. CASE DebounceFires
      <3>1. /\ debounce \in PRESET_LAUNCH_METHODS /\ switch_presets_async(debounce)
            /\ UNCHANGED restartKicks
        BY <1>2, <2>8 DEF DebounceFires
      <3>2. CASE owner_differs(rt, debounce)
        BY <1>2, <3>1, <3>2, RestartRequestTaken
        DEF switch_presets_async, redirect_preset_switch, RestartInv
      <3>3. CASE ~owner_differs(rt, debounce)
        <4> DEFINE w == [switch EXCEPT !.method = debounce, !.requested = @ + 1]
        <4>1. process_pending_presets_switch(rt, TRUE, w, switchRetry, NoMethod)
          BY <3>1, <3>3 DEF switch_presets_async
        <4>2. w \in SwitchFields
          <5>1. switch.requested + 1 \in Nat
            BY <1>2 DEF SwitchFields
          <5> QED
            BY <1>2, <3>1, <5>1 DEF SwitchFields
        <4> HIDE DEF w
        <4> QED
          BY <3>1, <4>1, <4>2, PresetSwitchRestart
      <3> QED
        BY <3>2, <3>3
    <2>9. CASE StartFinished
      <3>1. kick_pending_restart
        BY <2>9 DEF StartFinished
      <3>2. restart'.requested > restart'.completed => restartKicks' > 0
        BY <1>2, <3>1 DEF kick_pending_restart
      <3> QED
        BY <3>2 DEF RestartTakenUp
    <2>10. CASE StopFinished
      BY <2>10, StopFinishedRestart
    <2>11. CASE SwitchFinished
      BY <2>11, RestartKept DEF SwitchFinished, finishedFrame, RestartInv
    <2>12. CASE ThreadExits
      <3>1. UNCHANGED <<restart, restartRetry, restartKicks>>
        BY <2>12 DEF ThreadExits, finishedFrame
      <3>2. \/ startThread' = startThread
            \/ startThread.stage = "quitting" /\ startThread'.stage = "idle"
        BY <2>12 DEF ThreadExits, IdleStart
      <3>3. working(stopThread) => working(stopThread')
        BY <2>12 DEF ThreadExits, working
      <3> QED
        BY <3>1, <3>2, <3>3, RestartKept DEF RestartInv
    <2>13. CASE ObserveReport \/ ApplyRuntimeState
      BY <2>13, RestartKept
      DEF ObserveReport, ApplyRuntimeState, signalFrame, timers, RestartInv
    <2>14. CASE \E transient \in BOOLEAN : HandleUnexpectedExit(transient)
      <3>1. UNCHANGED <<restart, restartRetry, restartKicks, stopThread>>
        BY <2>14 DEF HandleUnexpectedExit, signalFrame, timers
      <3>2. \/ UNCHANGED startThread
            \/ start_dpi_async(mark_start_failed(rt), busy, NoMethod)
        BY <2>14 DEF HandleUnexpectedExit
      <3> QED
        BY <3>1, <3>2, StartEffect, RestartKept DEF RestartInv
    <2>15. CASE WorkerStep
      <3>1. UNCHANGED <<restart, restartRetry, restartKicks>>
        BY <2>15 DEF WorkerStep, StartPrepare, StartSpawn, StopKill, StopProbe,
                     SwitchCheck, SwitchApply, SwitchRespawn, SwitchReport,
                     workerFrame, timers
      <3>2. CASE StartPrepare \/ StartSpawn
        <4>1. startThread'.stage \in {"spawn", "done"} /\ UNCHANGED stopThread
          BY <3>2 DEF StartPrepare, StartSpawn, StartThreads, RestartInv, TypeInv, TypeOK
        <4>2. working(startThread) /\ working(startThread')
          BY <3>2, <4>1 DEF StartPrepare, StartSpawn, working
        <4> QED
          BY <3>1, <4>1, <4>2, RestartKept DEF RestartInv
      <3>3. CASE StopKill \/ StopProbe
        <4>1. stopThread'.stage \in {"probe", "done"} /\ UNCHANGED startThread
          BY <3>3 DEF StopKill, StopProbe, StopThreads, RestartInv, TypeInv, TypeOK
        <4> QED
          BY <3>1, <4>1, RestartKept DEF RestartInv, working
      <3>4. CASE SwitchCheck \/ SwitchApply \/ SwitchRespawn \/ SwitchReport
        BY <3>1, <3>4, RestartKept
        DEF SwitchCheck, SwitchApply, SwitchRespawn, SwitchReport, RestartInv
      <3> QED
        BY <2>15, <3>2, <3>3, <3>4 DEF WorkerStep
    <2>16. CASE Crash \/ MonitorScan \/ BeginScan
      BY <2>16, RestartKept
      DEF Crash, MonitorScan, BeginScan, scanFrame, timers, threads, RestartInv
    <2>17. CASE ScanStep
      BY <2>17 DEF ScanStep, scan_step, RestartInv
    <2>18. CASE UNCHANGED vars
      BY <2>18, RestartKept DEF vars, timers, threads, RestartInv
    <2> QED
      BY <2>1, <2>2, <2>3, <2>4, <2>5, <2>6, <2>7, <2>8, <2>9, <2>10, <2>11, <2>12,
         <2>13, <2>14, <2>15, <2>16, <2>17, <2>18
      DEF Next, UserStep, TimerStep, SignalStep, EnvironmentStep
  <1> QED
    BY <1>1, <1>3, <1>4 DEF RestartInv

\* Every step counts one event or none.
LEMMA Counts ==
    ASSUME [Next]_vars
    PROVE  UNCHANGED spent \/ \E k \in Kinds : Spend(k)
  <1>1. CASE UserStep
    <2>1. \E c \in {"start", "stop", "restart", "apply", "method"} : Spend(c)
      BY <1>1 DEF UserStep, UserStart, UserStop, UserRestart, ApplyPreset, ChangeMethod,
                  Command
    <2> QED
      BY <2>1 DEF Kinds
  <1>2. CASE TimerStep
    <2>1. UNCHANGED spent \/ Spend("slow")
      BY <1>2 DEF TimerStep, RunCommand, RestartRetryFires, RestartKickFires,
                  SwitchRetryFires, SwitchKickFires, DebounceFires, StopPollFires,
                  timerFrame
    <2> QED
      BY <2>1 DEF Kinds
  <1>3. CASE SignalStep
    BY <1>3 DEF SignalStep, StartFinished, StopFinished, SwitchFinished, ThreadExits,
                ObserveReport, ApplyRuntimeState, HandleUnexpectedExit, finishedFrame,
                signalFrame
  <1>4. CASE WorkerStep
    <2>1. UNCHANGED spent \/ Spend("fail") \/ Spend("killfail")
      BY <1>4 DEF WorkerStep, StartPrepare, StartSpawn, StopKill, StopProbe, SwitchCheck,
                  SwitchApply, SwitchRespawn, SwitchReport, shutdown_runtime_sync
    <2> QED
      BY <2>1 DEF Kinds
  <1>5. CASE EnvironmentStep
    <2>1. \/ UNCHANGED spent
          \/ Spend("crash") \/ Spend("observe") \/ Spend("scan") \/ Spend("killfail")
      BY <1>5 DEF EnvironmentStep, Crash, MonitorScan, BeginScan, ScanStep, scan_shutdown,
                  shutdown_runtime_sync
    <2> QED
      BY <2>1 DEF Kinds
  <1> QED
    BY <1>1, <1>2, <1>3, <1>4, <1>5 DEF Next, vars

\* What is counted is never forgotten.
LEMMA Counted ==
    ASSUME TypeInv, [Next]_vars, NEW e \in Kinds, spent'[e] = 0
    PROVE  spent[e] = 0
  <1>1. spent \in [Kinds -> Nat]
    BY DEF TypeInv, TypeOK
  <1>2. ASSUME NEW k \in Kinds, Spend(k)
        PROVE  spent[e] = 0
    BY <1>1, <1>2 DEF Spend
  <1> QED
    BY <1>2, Counts

\* A restart that was asked for and not completed always has a retry, a queued
\* call, the start made for it or the stop that goes on with the start, until a
\* strategy scan begins (with one it does not hold).
THEOREM RestartNotLost == Spec => []RestartNeverStranded
  <1> DEFINE UntilScan == TypeInv /\ (spent["scan"] = 0 => RestartInv)
  <1>1. Init => UntilScan
    BY InitTypes DEF Init, RestartInv, RestartTakenUp
  <1>2. UntilScan => RestartNeverStranded
    <2>1. RestartInv /\ restart.requested > restart.completed
              /\ restart.pendingStop = restart.requested
             => restart.pendingStop > restart.completed
      OBVIOUS
    <2> QED
      BY <2>1 DEF RestartInv, RestartTakenUp, RestartNeverStranded
  <1>3. UntilScan /\ [Next]_vars => UntilScan'
    <2>1. "scan" \in Kinds
      BY DEF Kinds
    <2> QED
      BY <2>1, NextTypes, RestartNext, Counted
  <1> QED
    BY <1>1, <1>2, <1>3, PTL DEF Spec

\* No pending preset switch and no pending restart is ever left without what
\* takes it up, whatever the user, the failures and the automatic restart do.
THEOREM NothingLost == Spec => []NothingStranded
  BY SwitchNotLost, RestartNotLost, PTL DEF NothingStranded

-----------------------------------------------------------------------------
(* At rest, while the launch method is not changed.                           *)

pendingSwitch == switch.requested > switch.completed

\* A phase in which something is under way has the worker that will end it.
PhaseInv ==
    /\ rt.phase # "autostart_pending"
    /\ rt.phase = "starting" => working(startThread)
    /\ rt.phase = "stopping" => working(stopThread)

\* The busy indicator is on only while a worker or a preset switch will put it
\* off again.
BusyInv == busy => working(startThread) \/ working(stopThread) \/ pendingSwitch

\* A working preset switch is for a request that is not completed, and a result
\* marked stale has a newer one behind it, which answers for the indicator.
GenInv ==
    /\ switch.completed <= switch.requested
    /\ working(switchThread) =>
          /\ switch.completed < switchThread.gen /\ switchThread.gen <= switch.requested
          /\ switchThread.stale => switchThread.gen < switch.requested

RestInv == PhaseInv /\ BusyInv /\ GenInv

\* What the launch calls do to the phase, to busy and to the threads, given the
\* runtime state r and the indicator b before them.
Begun(r, b) ==
    \/ rt' = r /\ busy' = b /\ UNCHANGED <<startThread, stopThread>>
    \/ /\ ~isRunning(startThread) /\ rt'.phase = "starting" /\ busy'
       /\ startThread'.stage = "prepare" /\ UNCHANGED stopThread
    \/ /\ ~isRunning(stopThread) /\ rt'.phase = "stopping" /\ busy'
       /\ stopThread'.stage = "kill" /\ UNCHANGED startThread

LEMMA StartBegun ==
    ASSUME NEW r, NEW b, NEW m, start_dpi_async(r, b, m), UNCHANGED stopThread
    PROVE  Begun(r, b)
  <1>1. CASE isRunning(startThread) \/ ScanActive
    BY <1>1 DEF start_dpi_async, Begun
  <1>2. CASE ~(isRunning(startThread) \/ ScanActive)
    <2>1. PICK method : /\ rt' = begin_start(r, method) /\ busy' = TRUE
                        /\ startThread' = [IdleStart EXCEPT !.stage = "prepare",
                                                            !.method = method]
      BY <1>2 DEF start_dpi_async
    <2>2. rt'.phase = "starting" /\ startThread'.stage = "prepare"
      BY <2>1 DEF begin_start, IdleStart
    <2> QED
      BY <1>2, <2>1, <2>2 DEF Begun
  <1> QED
    BY <1>1, <1>2

LEMMA StopBegun ==
    ASSUME NEW r \in RuntimeStates, NEW b, NEW force, NEW polls, NEW expired,
           stop_dpi_async(r, b, force, polls, expired), UNCHANGED startThread
    PROVE  Begun(r, b)
  BY DEF stop_dpi_async, Begun, begin_stop, IdleStop, RuntimeStates

LEMMA RestartBegun ==
    ASSUME NEW r \in RuntimeStates, NEW b, NEW s, NEW retry,
           process_pending_restart_request(r, b, s, retry)
    PROVE  Begun(r, b)
  <1>1. CASE rt' = r /\ busy' = b /\ UNCHANGED <<startThread, stopThread>>
    BY <1>1 DEF Begun
  <1>2. CASE /\ stop_dpi_async(r, b, s.forceStop = s.requested, stopPolls, FALSE)
             /\ UNCHANGED startThread
    BY <1>2, StopBegun
  <1>3. CASE start_dpi_async(r, b, s.target) /\ UNCHANGED stopThread
    BY <1>3, StartBegun
  <1> QED
    BY <1>1, <1>2, <1>3 DEF process_pending_restart_request

\* A launch call keeps the invariant: the phase r it begins with has its
\* worker, and a busy indicator that it is given is answered for.
LEMMA BegunRest ==
    ASSUME RestInv, NEW r, NEW b, Begun(r, b), GenInv',
           r.phase # "autostart_pending",
           r.phase = "starting" => working(startThread),
           r.phase = "stopping" => working(stopThread),
           b => working(startThread) \/ working(stopThread) \/ pendingSwitch'
    PROVE  RestInv'
  <1>1. working(startThread) => working(startThread')
    BY DEF Begun, working, isRunning
  <1>2. working(stopThread) => working(stopThread')
    BY DEF Begun, working, isRunning
  <1>3. PhaseInv'
    BY <1>1, <1>2 DEF Begun, PhaseInv, working
  <1>4. BusyInv'
    BY <1>1, <1>2 DEF Begun, BusyInv, working
  <1> QED
    BY <1>3, <1>4 DEF RestInv

\* So does one that leaves the preset switch alone.
LEMMA BegunKept ==
    ASSUME RestInv, Begun(rt, busy), UNCHANGED <<switch, switchThread>>
    PROVE  RestInv'
  <1>1. GenInv' /\ pendingSwitch' = pendingSwitch
    BY DEF RestInv, GenInv, pendingSwitch, working
  <1> QED
    BY <1>1, BegunRest DEF RestInv, PhaseInv, BusyInv

\* A step of another kind: no phase but a final one, busy only put off.
LEMMA OtherRest ==
    ASSUME RestInv, UNCHANGED <<switch, switchThread>>,
           rt'.phase \in {rt.phase, "stopped", "failed", "running"},
           busy' => busy,
           working(startThread) => working(startThread'),
           working(stopThread) => working(stopThread')
    PROVE  RestInv'
  <1>1. GenInv' /\ pendingSwitch' = pendingSwitch
    BY DEF RestInv, GenInv, pendingSwitch, working
  <1> QED
    BY <1>1 DEF RestInv, PhaseInv, BusyInv

\* process_pending_presets_switch, with a request w that may be new.
LEMMA SwitchRest ==
    ASSUME TypeInv, RestInv, NEW b \in BOOLEAN, NEW w \in SwitchFields, NEW retry, NEW d,
           process_pending_presets_switch(rt, b, w, retry, d),
           w.completed = switch.completed, w.requested >= switch.requested,
           b => busy \/ w.requested > w.completed
    PROVE  RestInv'
  <1> DEFINE pending  == w.requested > w.completed
             done     == [w EXCEPT !.completed = w.requested, !.waits = 0]
             starting == rt.phase = "starting" /\ w.waits < MaxStartingWaits
             Kept     == UNCHANGED <<startThread, stopThread>>
  <1>1. /\ rt \in RuntimeStates /\ w.requested \in Nat /\ w.completed \in Nat
        /\ switch.requested \in Nat /\ switch.completed \in Nat
        /\ working(switchThread) => switchThread.gen \in Nat
    BY DEF TypeInv, TypeOK, SwitchFields, SwitchThreads
  <1>2. PhaseInv /\ BusyInv /\ GenInv
    BY DEF RestInv
  <1>3. ASSUME switch'.requested = w.requested, switch'.completed = w.completed,
               UNCHANGED switchThread
        PROVE  GenInv'
    BY <1>1, <1>2, <1>3 DEF GenInv, working
  <1>4. ASSUME switch'.requested = w.requested, switch'.completed = w.completed
        PROVE  b => working(startThread) \/ working(stopThread) \/ pendingSwitch'
    BY <1>1, <1>2, <1>4 DEF BusyInv, pendingSwitch
  <1>5. ASSUME rt' = rt, busy' = b, Kept,
               switch'.requested = w.requested, switch'.completed = w.completed, GenInv'
        PROVE  RestInv'
    <2>1. Begun(rt, b)
      BY <1>5 DEF Begun
    <2> QED
      BY <1>2, <1>4, <1>5, <2>1, BegunRest DEF PhaseInv
  <1>6. CASE ~pending
    BY <1>3, <1>5, <1>6 DEF process_pending_presets_switch
  <1>7. CASE pending /\ pipeline_occupied
    BY <1>3, <1>5, <1>7 DEF process_pending_presets_switch
  <1>8. CASE pending /\ ~pipeline_occupied /\ ~is_running(rt) /\ starting
    <2>1. /\ rt' = rt /\ busy' = b /\ Kept /\ UNCHANGED switchThread
          /\ switch' = [w EXCEPT !.waits = @ + 1]
      BY <1>8 DEF process_pending_presets_switch, owner_differs
    <2>2. switch'.requested = w.requested /\ switch'.completed = w.completed
      BY <2>1 DEF SwitchFields
    <2> QED
      BY <1>3, <1>5, <2>1, <2>2
  <1>9. CASE pending /\ ~pipeline_occupied /\ ~is_running(rt) /\ ~starting
    <2>1. /\ rt' = rt /\ busy' = FALSE /\ Kept /\ UNCHANGED switchThread
      BY <1>9 DEF process_pending_presets_switch, owner_differs
    <2>2. ~working(switchThread')
      BY <1>9, <2>1 DEF pipeline_occupied, isRunning, working
    <2>3. Begun(rt, FALSE)
      BY <2>1 DEF Begun
    <2>4. switch' = done
      BY <1>9 DEF process_pending_presets_switch, owner_differs
    <2>5. switch'.completed <= switch'.requested
      BY <1>1, <2>4 DEF SwitchFields
    <2> QED
      BY <1>2, <2>2, <2>3, <2>5, BegunRest DEF PhaseInv, GenInv
  <1>10. CASE pending /\ ~pipeline_occupied /\ is_running(rt) /\ owner_differs(rt, w.method)
    <2>1. redirect_preset_switch(rt, w.method) /\ UNCHANGED switchThread
      BY <1>10 DEF process_pending_presets_switch
    <2>2. Begun(rt, FALSE)
      BY <1>1, <2>1, RestartBegun DEF redirect_preset_switch, restart_dpi_async
    <2>3. ~working(switchThread')
      BY <1>10, <2>1 DEF pipeline_occupied, isRunning, working
    <2>4. switch' = done
      BY <1>10 DEF process_pending_presets_switch
    <2>5. switch'.completed <= switch'.requested
      BY <1>1, <2>4 DEF SwitchFields
    <2> QED
      BY <1>2, <2>2, <2>3, <2>5, BegunRest DEF PhaseInv, GenInv
  <1>11. CASE pending /\ ~pipeline_occupied /\ is_running(rt) /\ ~owner_differs(rt, w.method)
    <2>1. /\ rt' = rt /\ busy' = b /\ Kept
          /\ switch' = [w EXCEPT !.waits = 0]
          /\ switchThread' = [IdleSwitch EXCEPT !.stage = "check",
                                 !.method = w.method, !.gen = w.requested]
      BY <1>11 DEF process_pending_presets_switch
    <2>2. switch'.requested = w.requested /\ switch'.completed = w.completed
      BY <2>1 DEF SwitchFields
    <2>3. switchThread'.gen = w.requested /\ switchThread'.stale = FALSE
      BY <2>1 DEF IdleSwitch
    <2>4. GenInv'
      BY <1>1, <1>11, <2>2, <2>3 DEF GenInv
    <2> QED
      BY <1>5, <2>1, <2>2, <2>4
  <1> QED
    BY <1>6, <1>7, <1>8, <1>9, <1>10, <1>11

\* Every step but a change of the launch method keeps the invariant.
LEMMA RestNext ==
    ASSUME TypeInv, RestInv, [Next]_vars, spent'["method"] = 0
    PROVE  RestInv'
  <1>1. /\ rt \in RuntimeStates /\ busy \in BOOLEAN /\ switch \in SwitchFields
        /\ debounce \in PRESET_LAUNCH_METHODS \cup {NoMethod}
        /\ startThread \in StartThreads /\ stopThread \in StopThreads
        /\ switchThread \in SwitchThreads
    BY DEF TypeInv, TypeOK
  <1>2. /\ switch.requested \in Nat /\ switch.completed \in Nat
        /\ switchThread.gen \in Nat
    BY <1>1 DEF SwitchFields, SwitchThreads
  <1>3. PhaseInv /\ BusyInv /\ GenInv
    BY DEF RestInv
  <1>4. CASE UserStart
    <2>1. /\ start_dpi_async(rt, busy, NoMethod)
          /\ UNCHANGED <<stopThread, switch, switchThread>>
      BY <1>4 DEF UserStart
    <2> QED
      BY <2>1, StartBegun, BegunKept
  <1>5. CASE UserStop \/ \E force, expired \in BOOLEAN : StopPollFires(force, expired)
    <2>1. PICK force, polls, expired : stop_dpi_async(rt, busy, force, polls, expired)
      BY <1>5 DEF UserStop, StopPollFires
    <2>2. UNCHANGED <<startThread, switch, switchThread>>
      BY <1>5 DEF UserStop, StopPollFires
    <2> QED
      BY <1>1, <2>1, <2>2, StopBegun, BegunKept
  <1>6. CASE UserRestart \/ RestartRetryFires \/ RestartKickFires
    <2>1. \E s, retry : process_pending_restart_request(rt, busy, s, retry)
      BY <1>6 DEF UserRestart, RestartRetryFires, RestartKickFires, restart_dpi_async
    <2>2. UNCHANGED <<switch, switchThread>>
      BY <1>6 DEF UserRestart, RestartRetryFires, RestartKickFires
    <2> QED
      BY <1>1, <2>1, <2>2, RestartBegun, BegunKept
  <1>7. CASE ApplyPreset
    BY <1>7, OtherRest DEF ApplyPreset, published, threads
  <1>8. CASE \E m \in SelectableMethods : ChangeMethod(m)
    <2>1. Spend("method")
      BY <1>8 DEF ChangeMethod, Command
    <2>2. "method" \in Kinds /\ spent \in [Kinds -> Nat]
      BY DEF Kinds, TypeInv, TypeOK
    <2>3. spent["method"] \in Nat
      BY <2>2
    <2> QED
      BY <2>1, <2>2, <2>3 DEF Spend
  <1>9. CASE RunCommand
    <2>1. UNCHANGED <<switch, switchThread>>
      BY <1>9 DEF RunCommand
    <2>2. CASE restart_dpi_async(rt, busy, Head(commands).force, Head(commands).method)
      BY <1>1, <2>1, <2>2, RestartBegun, BegunKept DEF restart_dpi_async
    <2>3. CASE /\ stop_dpi_async(rt, busy, Head(commands).force, stopPolls, FALSE)
               /\ UNCHANGED startThread
      BY <1>1, <2>1, <2>3, StopBegun, BegunKept
    <2> QED
      BY <1>9, <2>2, <2>3 DEF RunCommand
  <1>10. CASE SwitchRetryFires \/ SwitchKickFires
    <2>1. \E retry, d : process_pending_presets_switch(rt, busy, switch, retry, d)
      BY <1>10 DEF SwitchRetryFires, SwitchKickFires
    <2>2. switch.requested >= switch.requested
      BY <1>2
    <2> QED
      BY <1>1, <2>1, <2>2, SwitchRest
  <1>11. CASE DebounceFires
    <2>1. debounce \in PRESET_LAUNCH_METHODS /\ switch_presets_async(debounce)
      BY <1>1, <1>11 DEF DebounceFires
    <2>2. CASE owner_differs(rt, debounce)
      <3>1. /\ redirect_preset_switch(rt, debounce)
            /\ UNCHANGED <<switch, switchThread>>
        BY <2>1, <2>2 DEF switch_presets_async
      <3>2. Begun(rt, FALSE)
        BY <1>1, <3>1, RestartBegun DEF redirect_preset_switch, restart_dpi_async
      <3>3. GenInv'
        BY <1>3, <3>1 DEF GenInv, working
      <3> QED
        BY <1>3, <3>2, <3>3, BegunRest DEF PhaseInv
    <2>3. CASE ~owner_differs(rt, debounce)
      <3> DEFINE w == [switch EXCEPT !.method = debounce, !.requested = @ + 1]
      <3>1. process_pending_presets_switch(rt, TRUE, w, switchRetry, NoMethod)
        BY <2>1, <2>3 DEF switch_presets_async
      <3>2. w.requested = switch.requested + 1 /\ w.completed = switch.completed
        BY <1>1 DEF SwitchFields
      <3>3. w \in SwitchFields
        <4>1. switch.requested + 1 \in Nat
          BY <1>2
        <4> QED
          BY <1>1, <2>1, <4>1 DEF SwitchFields
      <3> HIDE DEF w
      <3>4. w.requested >= switch.requested /\ w.requested > w.completed
        BY <1>2, <1>3, <3>2 DEF GenInv
      <3> QED
        BY <3>1, <3>2, <3>3, <3>4, SwitchRest
    <2> QED
      BY <2>2, <2>3
  <1>12. CASE StartFinished
    <2>1. /\ busy' = FALSE /\ UNCHANGED <<switch, stopThread, switchThread>>
          /\ rt' = IF startThread.ok THEN mark_running(rt, startThread.pid)
                                     ELSE mark_start_failed(rt)
      BY <1>12 DEF StartFinished
    <2>2. rt'.phase \in {"running", "failed"}
      BY <1>1, <2>1 DEF mark_running, mark_start_failed, RuntimeStates
    <2>3. GenInv'
      BY <1>3, <2>1 DEF GenInv, working
    <2> QED
      BY <2>1, <2>2, <2>3 DEF RestInv, PhaseInv, BusyInv
  <1>13. CASE StopFinished
    <2>1. UNCHANGED <<switch, switchThread>>
      BY <1>13 DEF StopFinished
    <2>2. \/ /\ rt'.phase \in {"stopped", "running"} /\ busy' = FALSE
          \/ /\ rt'.phase = "starting" /\ startThread'.stage = "prepare"
      <3> DEFINE s == clear_served_force(restart)
                 g == restart.pendingStop
                 starts == stopThread.ok /\ g > s.completed
                 stops  == stopThread.ok /\ g <= s.completed
      <3>1. mark_stopped(rt).phase = "stopped" /\ mark_running(rt, NoPid).phase = "running"
        BY <1>1 DEF mark_stopped, mark_running, RuntimeStates
      <3>2. restart.pendingStop \in Nat /\ s.completed \in Nat
        BY FinishTypes DEF TypeInv, TypeOK, RestartFields
      <3>3. CASE starts
        <4>0. ~(g <= s.completed)
          BY <3>3, <3>2
        <4>1. start_dpi_async(mark_stopped(rt), FALSE, s.target)
          BY <1>13, <3>3, <4>0 DEF StopFinished
        <4>2. CASE isRunning(startThread) \/ ScanActive
          BY <3>1, <4>1, <4>2 DEF start_dpi_async
        <4>3. CASE ~(isRunning(startThread) \/ ScanActive)
          <5>1. PICK method : /\ rt' = begin_start(mark_stopped(rt), method)
                              /\ startThread' = [IdleStart EXCEPT !.stage = "prepare",
                                                                  !.method = method]
            BY <4>1, <4>3 DEF start_dpi_async
          <5> QED
            BY <5>1 DEF begin_start, IdleStart
        <4> QED
          BY <4>2, <4>3
      <3>4. CASE ~starts
        <4>0. stops \/ ~stopThread.ok
          BY <3>4, <3>2
        <4>1. \/ rt' = mark_stopped(rt) /\ busy' = FALSE
              \/ rt' = mark_running(rt, NoPid) /\ busy' = FALSE
          BY <1>13, <3>4, <4>0 DEF StopFinished
        <4> QED
          BY <3>1, <4>1
      <3> QED
        BY <3>3, <3>4
    <2>3. GenInv'
      BY <1>3, <2>1 DEF GenInv, working
    <2> QED
      BY <2>2, <2>3 DEF RestInv, PhaseInv, BusyInv, working
  <1>14. CASE SwitchFinished
    <2> DEFINE t     == switchThread
               stale == t.stale \/ t.gen < switch.requested
    <2>1. /\ t.stage = "done" /\ switchThread' = [t EXCEPT !.stage = "quitting"]
          /\ switch' = [switch EXCEPT !.completed = max(@, t.gen)]
          /\ busy' = (stale /\ busy)
          /\ rt' = IF t.ok /\ (stale => t.pid # NoPid) THEN mark_running(rt, t.pid) ELSE rt
          /\ UNCHANGED <<startThread, stopThread>>
      BY <1>14 DEF SwitchFinished
    <2>2. switch.completed < t.gen /\ t.gen <= switch.requested
          /\ (t.stale => t.gen < switch.requested)
      BY <1>3, <2>1 DEF GenInv, working
    <2>3. switch'.requested = switch.requested /\ switch'.completed = t.gen
      BY <1>1, <1>2, <2>1, <2>2 DEF SwitchFields, max
    <2>4. ~working(switchThread')
      BY <1>1, <2>1 DEF working, SwitchThreads
    <2>5. BusyInv'
      BY <1>2, <1>3, <2>1, <2>2, <2>3 DEF BusyInv, pendingSwitch
    <2>6. PhaseInv'
      BY <1>1, <1>3, <2>1 DEF PhaseInv, mark_running, RuntimeStates
    <2>7. switch'.completed <= switch'.requested
      BY <2>2, <2>3
    <2> QED
      BY <2>4, <2>5, <2>6, <2>7 DEF RestInv, GenInv
  <1>15. CASE ThreadExits
    <2>1. UNCHANGED <<rt, busy, switch>>
      BY <1>15 DEF ThreadExits, published
    <2>2. /\ working(startThread) => working(startThread')
          /\ working(stopThread) => working(stopThread')
          /\ working(switchThread') => UNCHANGED switchThread
      BY <1>15 DEF ThreadExits, working, IdleSwitch
    <2>3. GenInv'
      BY <1>3, <2>1, <2>2 DEF GenInv, working
    <2> QED
      BY <1>3, <2>1, <2>2, <2>3 DEF RestInv, PhaseInv, BusyInv, pendingSwitch
  <1>16. CASE ObserveReport \/ ApplyRuntimeState
    <2>1. /\ UNCHANGED <<switch, switchThread, startThread, stopThread, busy>>
      BY <1>16 DEF ObserveReport, ApplyRuntimeState, signalFrame
    <2>2. rt'.phase \in {rt.phase, "stopped", "failed", "running"}
      <3>1. CASE ObserveReport
        BY <1>1, <3>1 DEF ObserveReport, observe_process_details, mark_observed,
             probe_missed, mark_start_failed, mark_stopped, RuntimeStates
      <3>2. CASE ApplyRuntimeState
        BY <1>1, <3>2 DEF ApplyRuntimeState, bootstrap_probe_running, mark_stopped,
             RuntimeStates
      <3> QED
        BY <1>16, <3>1, <3>2
    <2> QED
      BY <2>1, <2>2, OtherRest
  <1>17. CASE \E transient \in BOOLEAN : HandleUnexpectedExit(transient)
    <2>1. UNCHANGED <<stopThread, switch, switchThread>>
      BY <1>17 DEF HandleUnexpectedExit, signalFrame
    <2>2. mark_start_failed(rt).phase = "failed"
      BY <1>1 DEF mark_start_failed, RuntimeStates
    <2>3. CASE start_dpi_async(mark_start_failed(rt), busy, NoMethod)
      <3>1. Begun(mark_start_failed(rt), busy)
        BY <2>1, <2>3, StartBegun
      <3>2. GenInv' /\ pendingSwitch' = pendingSwitch
        BY <1>3, <2>1 DEF GenInv, pendingSwitch, working
      <3> QED
        BY <1>3, <2>2, <3>1, <3>2, BegunRest DEF BusyInv
    <2>4. CASE rt' \in {rt, mark_start_failed(rt)} /\ UNCHANGED <<busy, startThread>>
      BY <2>1, <2>2, <2>4, OtherRest
    <2> QED
      BY <1>17, <2>3, <2>4 DEF HandleUnexpectedExit, published
  <1>18. CASE StartPrepare \/ StartSpawn \/ StopKill \/ StopProbe
    <2>1. UNCHANGED <<rt, busy, switch, switchThread>>
      BY <1>18 DEF StartPrepare, StartSpawn, StopKill, StopProbe, workerFrame, published
    <2>2. working(startThread) => working(startThread')
      BY <1>1, <1>18 DEF StartPrepare, StartSpawn, StopKill, StopProbe, working, StartThreads
    <2>3. working(stopThread) => working(stopThread')
      BY <1>1, <1>18 DEF StartPrepare, StartSpawn, StopKill, StopProbe, working, StopThreads
    <2> QED
      BY <2>1, <2>2, <2>3, OtherRest
  <1>19. CASE SwitchCheck \/ SwitchApply \/ SwitchRespawn \/ SwitchReport
    <2>1. UNCHANGED <<rt, busy, switch, startThread, stopThread>>
      BY <1>19 DEF SwitchCheck, SwitchApply, SwitchRespawn, SwitchReport, workerFrame,
                   published
    <2>2. /\ working(switchThread) /\ switchThread'.gen = switchThread.gen
          /\ switchThread'.stale =>
                switchThread.stale \/ switchThread.gen # switch.requested
      BY <1>1, <1>19 DEF SwitchCheck, SwitchApply, SwitchRespawn, SwitchReport,
           switch_keeps, switch_spawns, switch_step, generation_is_current, working,
           SwitchThreads
    <2>3. GenInv'
      BY <1>2, <1>3, <2>1, <2>2 DEF GenInv
    <2> QED
      BY <1>3, <2>1, <2>3 DEF RestInv, PhaseInv, BusyInv, pendingSwitch, working
  <1>20. CASE Crash \/ MonitorScan \/ BeginScan
    BY <1>20, OtherRest DEF Crash, MonitorScan, BeginScan, scanFrame, threads, published
  <1>21. CASE ScanStep
    <2>1. UNCHANGED <<stopThread, switch, switchThread>>
      BY <1>21 DEF ScanStep, scanFrame
    <2>2. \/ start_dpi_async(rt, busy, NoMethod)
          \/ UNCHANGED <<rt, busy, startThread>>
      BY <1>21 DEF ScanStep, published
    <2> QED
      BY <2>1, <2>2, StartBegun, BegunKept, OtherRest
  <1>22. CASE UNCHANGED vars
    BY <1>22, OtherRest DEF vars, published, threads
  <1> QED
    BY <1>4, <1>5, <1>6, <1>7, <1>8, <1>9, <1>10, <1>11, <1>12, <1>13, <1>14, <1>15,
       <1>16, <1>17, <1>18, <1>19, <1>20, <1>21, <1>22
    DEF Next, UserStep, TimerStep, SignalStep, WorkerStep, EnvironmentStep

\* When nothing is under way any more, the busy indicator is off and the phase
\* is final, until the first change of the launch method (with one it is not so).
THEOREM RestAlwaysFinal == Spec => [](spent["method"] = 0 => RestIsFinal)
  <1> DEFINE UntilChange == TypeInv /\ (spent["method"] = 0 => RestInv)
  <1>1. Init => UntilChange
    BY InitTypes DEF Init, RestInv, PhaseInv, BusyInv, GenInv, working,
         build_initial_ui_state, IdleSwitch
  <1>2. UntilChange /\ [Next]_vars => UntilChange'
    <2>1. "method" \in Kinds
      BY DEF Kinds
    <2> QED
      BY <2>1, NextTypes, RestNext, Counted
  <1>3. UntilChange /\ SwitchNeverStranded => (spent["method"] = 0 => RestIsFinal)
    <2> SUFFICES ASSUME TypeInv, RestInv, SwitchNeverStranded, Quiescent
                 PROVE  ~busy /\ rt.phase \in {"stopped", "failed", "running"}
      BY DEF RestIsFinal
    <2>1. ~working(startThread) /\ ~working(stopThread) /\ ~working(switchThread)
      BY DEF Quiescent, isRunning, working
    <2>2. ~pendingSwitch
      BY <2>1 DEF Quiescent, SwitchNeverStranded, pendingSwitch
    <2>3. rt.phase \in Phases
      BY DEF TypeInv, TypeOK, RuntimeStates
    <2> QED
      BY <2>1, <2>2, <2>3 DEF RestInv, PhaseInv, BusyInv, Phases
  <1> QED
    BY <1>1, <1>2, <1>3, SwitchNotLost, PTL DEF Spec

-----------------------------------------------------------------------------
(* The engine and what is published about it, in one launch method.           *)

\* Stops and failures on the one side and preset switches on the other are not
\* mixed: a stop does not wait for a working switch (the finding of StopWins),
\* and a switch of winws that fails leaves no engine behind.
Unmixed == spent["apply"] = 0 \/ (spent["stop"] = 0 /\ spent["fail"] = 0)

\* The launch method stays, engines do not die by themselves and nothing but the
\* pipeline reports or stops them, and no stop loses patience with a start.
Calm == /\ \A k \in {"method", "scan", "crash", "observe", "slow"} : spent[k] = 0
        /\ Unmixed

mode == settings.method

\* Nothing of the environment is queued.
Silent == /\ commands = <<>> /\ reports = <<>> /\ exits = 0 /\ syncs = <<>>
          /\ scan.stage = "off"

\* Every request is for the one mode.
Wanted ==
    /\ debounce \in {mode, NoMethod}
    /\ restart.target \in {mode, NoMethod}
    /\ switch.requested > 0 => switch.method = mode

NoApply == spent["apply"] = 0 =>
              debounce = NoMethod /\ switch.requested = 0 /\ ~working(switchThread)
NoStop == spent["stop"] = 0 => \A force \in BOOLEAN : stopPolls[force] = 0

\* Everything that works, works in the one mode.
OneMode ==
    /\ rt.method = mode
    /\ working(startThread) => startThread.method = mode
    /\ working(switchThread) => switchThread.method = mode
    /\ \A e \in engines : e.method = mode

\* One worker at a time, and the phase says which.
Alone ==
    /\ working(startThread) => rt.phase = "starting" /\ ~working(stopThread)
    /\ working(stopThread) => rt.phase = "stopping" /\ ~working(switchThread)
    /\ working(switchThread) => rt.phase = "running" /\ ~working(startThread)

Single == \A e, f \in engines : e = f

\* The published pid is that of the engine, or none, up to the switch worker
\* that has replaced the engine; its result and that of a start name the engine.
PidInv ==
    /\ rt.phase \in {"starting", "stopped", "failed"} => rt.pid = NoPid
    /\ switchThread.stage \notin {"report", "done"} =>
          \A e \in engines : rt.pid \in {e.pid, NoPid}
    /\ startThread.stage = "done" /\ startThread.ok =>
          engines # {} /\ \A e \in engines : startThread.pid \in {e.pid, NoPid}
    /\ switchThread.stage = "check" => switchThread.pid = NoPid
    /\ switchThread.stage \in {"report", "done"} =>
          /\ switchThread.ok
          /\ \A e \in engines : IF switchThread.pid = NoPid THEN rt.pid \in {e.pid, NoPid}
                                                            ELSE switchThread.pid = e.pid

\* "stopped" leaves no engine, and "running" has one unless a preset switch is
\* pending: only that of the newest request must end with an engine.
GoneInv ==
    /\ rt.phase = "running" /\ ~pendingSwitch => engines # {}
    /\ rt.phase = "stopped" => engines = {}
    /\ stopThread.stage = "done" => (stopThread.ok <=> engines = {})
    /\ switchThread.stage = "respawn" => engines = {}
    /\ switchThread.stage \in {"report", "done"} /\ switchThread.gen = switch.requested
          => engines # {}

Core == OneMode /\ Alone /\ Single /\ PidInv /\ GoneInv

CalmInv == Silent /\ Wanted /\ NoApply /\ NoStop /\ Core

\* What is counted stays counted.
LEMMA CalmBefore ==
    ASSUME TypeInv, [Next]_vars, Calm'
    PROVE  Calm
  <1>1. {"method", "scan", "crash", "observe", "slow", "apply", "stop", "fail"}
            \subseteq Kinds
    BY DEF Kinds
  <1>2. \A k \in Kinds : spent'[k] = 0 => spent[k] = 0
    BY Counted
  <1> QED
    BY <1>1, <1>2 DEF Calm, Unmixed

\* An event that is counted is not among those that did not happen.
LEMMA NotSpent ==
    ASSUME TypeInv, NEW k \in Kinds, Spend(k)
    PROVE  spent'[k] # 0
  <1>1. spent \in [Kinds -> Nat]
    BY DEF TypeInv, TypeOK
  <1>2. spent'[k] = spent[k] + 1 /\ spent[k] \in Nat
    BY <1>1 DEF Spend
  <1> QED
    BY <1>2

\* The steps that are left.
CalmStep ==
    \/ UserStart \/ UserStop \/ UserRestart \/ ApplyPreset
    \/ RestartRetryFires \/ RestartKickFires
    \/ SwitchRetryFires \/ SwitchKickFires \/ DebounceFires
    \/ \E force \in BOOLEAN : StopPollFires(force, FALSE)
    \/ StartFinished \/ StopFinished \/ SwitchFinished \/ ThreadExits
    \/ WorkerStep

LEMMA CalmSteps ==
    ASSUME TypeInv, Silent, Next, Calm'
    PROVE  CalmStep /\ UNCHANGED settings /\ Silent'
  <1>1. /\ \A k \in {"method", "scan", "crash", "observe", "slow"} : ~Spend(k)
    BY NotSpent DEF Calm, Kinds
  <1>2. ~\E m \in SelectableMethods : ChangeMethod(m)
    BY <1>1 DEF ChangeMethod, Command
  <1>3. ~RunCommand /\ ~ObserveReport /\ ~ApplyRuntimeState
    BY DEF RunCommand, ObserveReport, ApplyRuntimeState, Silent
  <1>4. ~\E transient \in BOOLEAN : HandleUnexpectedExit(transient)
    BY DEF HandleUnexpectedExit, Silent
  <1>5. ~EnvironmentStep
    BY <1>1 DEF EnvironmentStep, Crash, MonitorScan, BeginScan, ScanStep, scan_step, Silent
  <1>6. ASSUME NEW force \in BOOLEAN, NEW expired \in BOOLEAN, StopPollFires(force, expired)
        PROVE  StopPollFires(force, FALSE)
    BY <1>1, <1>6 DEF StopPollFires
  <1>7. CalmStep
    BY <1>2, <1>3, <1>4, <1>5, <1>6 DEF Next, UserStep, TimerStep, SignalStep, CalmStep
  <1>8. UNCHANGED <<settings, commands, reports, exits, syncs, scan>>
    BY <1>7
    DEF CalmStep, WorkerStep, UserStart, UserStop, UserRestart, ApplyPreset,
        RestartRetryFires, RestartKickFires, SwitchRetryFires, SwitchKickFires,
        DebounceFires, StopPollFires, StartFinished, StopFinished, SwitchFinished,
        ThreadExits, StartPrepare, StartSpawn, StopKill, StopProbe, SwitchCheck,
        SwitchApply, SwitchRespawn, SwitchReport, workerFrame, timerFrame,
        finishedFrame, signals, timers
  <1> QED
    BY <1>7, <1>8 DEF Silent

-----------------------------------------------------------------------------
(* The launch calls.                                                          *)

\* A start that begins in the one mode.
LEMMA StartCore ==
    ASSUME TypeInv, Core, UNCHANGED <<settings, engines, switchThread>>,
           ~working(stopThread'), ~working(switchThread),
           NEW r, rt' = begin_start(r, mode),
           startThread' = [IdleStart EXCEPT !.stage = "prepare", !.method = mode]
    PROVE  Core'
  <1>1. /\ rt'.phase = "starting" /\ rt'.method = mode /\ rt'.pid = NoPid
        /\ startThread'.stage = "prepare" /\ startThread'.method = mode
    BY DEF begin_start, IdleStart
  <1>2. /\ stopThread'.stage # "done"
        /\ switchThread.stage \notin {"respawn", "report", "done"}
    BY DEF working
  <1> QED
    BY <1>1, <1>2 DEF Core, OneMode, Alone, Single, PidInv, GoneInv, working, mode

\* A stop that begins.
LEMMA StopCore ==
    ASSUME TypeInv, Core, UNCHANGED <<settings, engines, startThread, switchThread>>,
           ~working(startThread), ~working(switchThread), NEW force,
           rt' = begin_stop(rt),
           stopThread' = [IdleStop EXCEPT !.stage = "kill", !.force = force]
    PROVE  Core'
  <1>1. rt \in RuntimeStates
    BY DEF TypeInv, TypeOK
  <1>2. /\ rt'.phase = "stopping" /\ rt'.method = rt.method /\ rt'.pid = rt.pid
        /\ stopThread'.stage = "kill"
    BY <1>1 DEF begin_stop, IdleStop, RuntimeStates
  <1>3. /\ startThread.stage # "done"
        /\ switchThread.stage \notin {"respawn", "report", "done"}
    BY DEF working
  <1> QED
    BY <1>2, <1>3 DEF Core, OneMode, Alone, Single, PidInv, GoneInv, working, mode

\* Nothing that Core speaks of changes.
LEMMA SameCore ==
    ASSUME Core,
           UNCHANGED <<settings, rt, engines, switch, startThread, stopThread, switchThread>>
    PROVE  Core'
  BY DEF Core, OneMode, Alone, Single, PidInv, GoneInv, working, mode, pendingSwitch

\* start_dpi_async in the one mode: refused, or a start that begins.
LEMMA StartOne ==
    ASSUME NEW r, NEW b, NEW m \in {mode, NoMethod}, r.method = mode,
           start_dpi_async(r, b, m), scan.stage = "off"
    PROVE  \/ isRunning(startThread) /\ rt' = r /\ UNCHANGED startThread
           \/ /\ ~isRunning(startThread) /\ rt' = begin_start(r, mode)
              /\ startThread' = [IdleStart EXCEPT !.stage = "prepare", !.method = mode]
  <1>1. requested_launch_method(r, m) = mode
    BY DEF requested_launch_method
  <1>2. ~ScanActive
    BY DEF ScanActive
  <1> QED
    BY <1>1, <1>2 DEF start_dpi_async

\* process_pending_restart_request, with a request s that may be new.
LEMMA RestartCore ==
    ASSUME TypeInv, Core, scan.stage = "off", NEW b, NEW s \in RestartFields, NEW retry,
           s.target \in {mode, NoMethod},
           process_pending_restart_request(rt, b, s, retry),
           UNCHANGED <<settings, engines, switch, switchThread>>
    PROVE  Core' /\ UNCHANGED stopPolls /\ restart'.target \in {mode, NoMethod}
  <1> DEFINE pending == s.requested > s.completed
             force   == s.forceStop = s.requested
  <1>1. restart'.target = s.target
    <2>1. \/ restart' = s
          \/ restart' = [s EXCEPT !.pendingStop = s.requested]
          \/ restart' = [s EXCEPT !.activeStart = s.requested]
      BY DEF process_pending_restart_request
    <2> QED
      BY <2>1 DEF RestartFields
  <1>2. CASE ~pending \/ pipeline_occupied
    <2>1. rt' = rt /\ UNCHANGED <<startThread, stopThread, stopPolls>>
      BY <1>2 DEF process_pending_restart_request
    <2> QED
      BY <1>1, <2>1, SameCore
  <1>3. CASE pending /\ ~pipeline_occupied
    <2>1. ~isRunning(startThread) /\ ~isRunning(stopThread) /\ ~isRunning(switchThread)
      BY <1>3 DEF pipeline_occupied
    <2>2. ~working(startThread) /\ ~working(stopThread) /\ ~working(switchThread)
      BY <2>1 DEF isRunning, working
    <2>3. CASE is_running(rt) \/ force
      <3>1. stop_dpi_async(rt, b, force, stopPolls, FALSE) /\ UNCHANGED startThread
        BY <1>3, <2>3 DEF process_pending_restart_request
      <3>2. /\ rt' = begin_stop(rt) /\ UNCHANGED stopPolls
            /\ stopThread' = [IdleStop EXCEPT !.stage = "kill", !.force = force]
        BY <2>1, <3>1 DEF stop_dpi_async, stop_must_wait
      <3> HIDE DEF force
      <3> QED
        BY <1>1, <2>2, <3>1, <3>2, StopCore
    <2>4. CASE ~(is_running(rt) \/ force)
      <3>1. start_dpi_async(rt, b, s.target) /\ UNCHANGED <<stopThread, stopPolls>>
        BY <1>3, <2>4 DEF process_pending_restart_request
      <3>2. /\ rt' = begin_start(rt, mode)
            /\ startThread' = [IdleStart EXCEPT !.stage = "prepare", !.method = mode]
        BY <2>1, <3>1, StartOne DEF Core, OneMode
      <3>3. ~working(stopThread')
        BY <2>2, <3>1
      <3> QED
        BY <1>1, <2>2, <3>1, <3>2, <3>3, StartCore
    <2> QED
      BY <2>3, <2>4
  <1> QED
    BY <1>2, <1>3

\* process_pending_presets_switch, with a request w that may be new: in the one
\* mode it is never redirected to a restart.
LEMMA PresetCore ==
    ASSUME TypeInv, RestInv, Core, UNCHANGED <<settings, engines>>,
           NEW b, NEW w \in SwitchFields, NEW retry, NEW d,
           process_pending_presets_switch(rt, b, w, retry, d),
           w.completed = switch.completed, w.requested >= switch.requested,
           w.requested > 0 => w.method = mode
    PROVE  /\ Core' /\ UNCHANGED <<restart, stopPolls>>
           /\ debounce' = d
           /\ w.requested = 0 => UNCHANGED switchThread
           /\ switch'.requested = w.requested /\ switch'.method = w.method
  <1> DEFINE pending  == w.requested > w.completed
             done     == [w EXCEPT !.completed = w.requested, !.waits = 0]
             starting == rt.phase = "starting" /\ w.waits < MaxStartingWaits
             Kept     == UNCHANGED <<restart, startThread, stopThread, stopPolls>>
  <1>1. /\ w.requested \in Nat /\ w.completed \in Nat
        /\ switch.requested \in Nat /\ switch.completed \in Nat
        /\ working(switchThread) => switchThread.gen \in Nat
    BY DEF TypeInv, TypeOK, SwitchFields, SwitchThreads
  <1>2. pending => ~owner_differs(rt, w.method)
    BY <1>1 DEF owner_differs, Core, OneMode
  <1>3. ASSUME switch'.requested = w.requested, switch'.completed = w.completed
        PROVE  /\ ~pendingSwitch' => ~pendingSwitch
               /\ working(switchThread) /\ switchThread.gen = switch'.requested
                    => switchThread.gen = switch.requested
    BY <1>1, <1>3 DEF pendingSwitch, RestInv, GenInv
  <1>4. ASSUME rt' = rt, Kept, UNCHANGED switchThread,
               switch'.requested = w.requested, switch'.completed = w.completed
        PROVE  Core'
    <2>1. OneMode' /\ Alone' /\ Single' /\ PidInv'
      BY <1>4 DEF Core, OneMode, Alone, Single, PidInv, working, mode
    <2>2. GoneInv'
      BY <1>3, <1>4 DEF Core, GoneInv, working
    <2> QED
      BY <2>1, <2>2 DEF Core
  <1>5. CASE ~pending \/ pipeline_occupied
    <2>1. /\ rt' = rt /\ debounce' = d /\ switch' = w
          /\ UNCHANGED switchThread /\ Kept
      BY <1>5 DEF process_pending_presets_switch
    <2> QED
      BY <1>4, <2>1
  <1>6. CASE pending /\ ~pipeline_occupied /\ ~is_running(rt) /\ starting
    <2>1. /\ rt' = rt /\ debounce' = d /\ UNCHANGED switchThread /\ Kept
          /\ switch' = [w EXCEPT !.waits = @ + 1]
      BY <1>2, <1>6 DEF process_pending_presets_switch
    <2>2. /\ switch'.requested = w.requested /\ switch'.completed = w.completed
          /\ switch'.method = w.method
      BY <2>1 DEF SwitchFields
    <2> QED
      BY <1>4, <2>1, <2>2
  <1>7. CASE pending /\ ~pipeline_occupied /\ ~is_running(rt) /\ ~starting
    <2>1. /\ rt' = rt /\ debounce' = d /\ UNCHANGED switchThread /\ Kept
          /\ switch' = done
      BY <1>2, <1>7 DEF process_pending_presets_switch
    <2>2. switch'.requested = w.requested /\ switch'.method = w.method
      BY <2>1 DEF SwitchFields
    <2>3. switchThread.stage \notin {"report", "done"}
      BY <1>7 DEF pipeline_occupied, isRunning
    <2>4. OneMode' /\ Alone' /\ Single' /\ PidInv'
      BY <2>1 DEF Core, OneMode, Alone, Single, PidInv, working, mode
    <2>5. GoneInv'
      BY <1>7, <2>1, <2>3 DEF Core, GoneInv, is_running
    <2> QED
      BY <2>1, <2>2, <2>4, <2>5 DEF Core
  <1>8. CASE pending /\ ~pipeline_occupied /\ is_running(rt)
    <2>1. /\ rt' = rt /\ debounce' = d /\ Kept
          /\ switch' = [w EXCEPT !.waits = 0]
          /\ switchThread' = [IdleSwitch EXCEPT !.stage = "check",
                                 !.method = w.method, !.gen = w.requested]
      BY <1>2, <1>8 DEF process_pending_presets_switch
    <2>2. /\ switch'.requested = w.requested /\ switch'.completed = w.completed
          /\ switch'.method = w.method
      BY <2>1 DEF SwitchFields
    <2>3. /\ switchThread'.stage = "check" /\ switchThread'.method = w.method
          /\ switchThread'.pid = NoPid
      BY <2>1 DEF IdleSwitch
    <2>4. /\ ~working(startThread) /\ ~working(stopThread)
          /\ switchThread.stage \notin {"respawn", "report", "done"}
      BY <1>8 DEF pipeline_occupied, isRunning, working
    <2>5. w.method = mode
      BY <1>1, <1>8
    <2>6. OneMode' /\ Alone' /\ Single' /\ PidInv'
      BY <1>8, <2>1, <2>3, <2>4, <2>5
      DEF Core, OneMode, Alone, Single, PidInv, working, mode, is_running
    <2>7. GoneInv'
      BY <1>3, <2>1, <2>2, <2>3 DEF Core, GoneInv
    <2> QED
      BY <1>1, <1>8, <2>1, <2>2, <2>6, <2>7 DEF Core
  <1> QED
    BY <1>5, <1>6, <1>7, <1>8

-----------------------------------------------------------------------------
(* The ends of the workers.                                                   *)

LEMMA StartFinishedCore ==
    ASSUME TypeInv, Core, UNCHANGED settings, StartFinished
    PROVE  Core'
  <1>1. rt \in RuntimeStates /\ startThread \in StartThreads
    BY DEF TypeInv, TypeOK
  <1>2. /\ startThread.stage = "done" /\ startThread'.stage = "quitting"
        /\ rt' = IF startThread.ok THEN mark_running(rt, startThread.pid)
                                   ELSE mark_start_failed(rt)
        /\ UNCHANGED <<engines, switch, stopThread, switchThread>>
    BY <1>1 DEF StartFinished, finishedFrame, StartThreads
  <1>3. /\ rt.phase = "starting" /\ rt.pid = NoPid /\ rt.method = mode
        /\ ~working(stopThread) /\ ~working(switchThread)
    BY <1>2 DEF Core, Alone, OneMode, PidInv, working
  <1>4. /\ stopThread.stage # "done"
        /\ switchThread.stage \notin {"respawn", "report", "done"}
    BY <1>3 DEF working
  <1>5. CASE startThread.ok
    <2>1. rt'.phase = "running" /\ rt'.method = mode /\ rt'.pid = startThread.pid
      BY <1>1, <1>2, <1>3, <1>5 DEF mark_running, RuntimeStates
    <2>2. engines # {} /\ \A e \in engines : startThread.pid \in {e.pid, NoPid}
      BY <1>2, <1>5 DEF Core, PidInv
    <2> QED
      BY <1>2, <1>3, <1>4, <2>1, <2>2
      DEF Core, OneMode, Alone, Single, PidInv, GoneInv, working, mode
  <1>6. CASE ~startThread.ok
    <2>1. rt'.phase = "failed" /\ rt'.method = mode /\ rt'.pid = NoPid
      BY <1>1, <1>2, <1>3, <1>6 DEF mark_start_failed, RuntimeStates
    <2> QED
      BY <1>2, <1>3, <1>4, <2>1
      DEF Core, OneMode, Alone, Single, PidInv, GoneInv, working, mode
  <1> QED
    BY <1>5, <1>6

\* A stop that has ended leaves no engine, or the engine that survived it.
LEMMA StopFinishedCore ==
    ASSUME TypeInv, Core, Wanted, scan.stage = "off", UNCHANGED settings, StopFinished
    PROVE  /\ Core'
           /\ restart'.target \in {mode, NoMethod}
  <1> DEFINE s == clear_served_force(restart)
             g == restart.pendingStop
  <1>1. /\ rt \in RuntimeStates /\ stopThread \in StopThreads
        /\ restart \in RestartFields /\ s \in RestartFields
        /\ g \in Nat /\ s.completed \in Nat
    BY FinishTypes DEF TypeInv, TypeOK, RestartFields
  <1>2. s.target \in {mode, NoMethod}
    BY <1>1 DEF clear_served_force, Wanted, RestartFields
  <1>3. /\ stopThread.stage = "done" /\ stopThread'.stage = "quitting"
        /\ UNCHANGED <<engines, switch, switchThread>>
    BY <1>1 DEF StopFinished, finishedFrame, StopThreads
  <1>4. /\ rt.phase = "stopping" /\ rt.method = mode
        /\ ~working(startThread) /\ ~working(switchThread) /\ ~working(stopThread')
    BY <1>3 DEF Core, Alone, OneMode, working
  <1>5. /\ startThread.stage # "done"
        /\ switchThread.stage \notin {"respawn", "report", "done"}
    BY <1>4 DEF working
  <1>6. stopThread.ok <=> engines = {}
    BY <1>3 DEF Core, GoneInv
  <1>7. /\ mark_stopped(rt).phase = "stopped" /\ mark_stopped(rt).method = mode
        /\ mark_stopped(rt).pid = NoPid
        /\ mark_running(rt, NoPid).phase = "running"
        /\ mark_running(rt, NoPid).method = mode
        /\ mark_running(rt, NoPid).pid = rt.pid
    BY <1>1, <1>4 DEF mark_stopped, mark_running, RuntimeStates
  <1>8. ASSUME rt' = mark_stopped(rt), stopThread.ok, UNCHANGED startThread
        PROVE  Core'
    BY <1>3, <1>4, <1>5, <1>6, <1>7, <1>8
    DEF Core, OneMode, Alone, Single, PidInv, GoneInv, working, mode
  <1>9. CASE stopThread.ok /\ g > s.completed
    <2>1. ~(g <= s.completed)
      BY <1>1, <1>9
    <2>2. /\ restart' = [s EXCEPT !.pendingStop = 0, !.activeStart = max(g, s.requested)]
          /\ start_dpi_async(mark_stopped(rt), FALSE, s.target)
      BY <1>9, <2>1 DEF StopFinished
    <2>3. restart'.target = s.target
      BY <1>1, <2>2 DEF RestartFields
    <2>4. CASE isRunning(startThread)
      <3>1. rt' = mark_stopped(rt) /\ UNCHANGED startThread
        BY <1>2, <1>7, <2>2, <2>4, StartOne
      <3> QED
        BY <1>2, <1>8, <1>9, <2>3, <3>1
    <2>5. CASE ~isRunning(startThread)
      <3>1. /\ rt' = begin_start(mark_stopped(rt), mode)
            /\ startThread' = [IdleStart EXCEPT !.stage = "prepare", !.method = mode]
        BY <1>2, <1>7, <2>2, <2>5, StartOne
      <3> QED
        BY <1>2, <1>3, <1>4, <2>3, <3>1, StartCore
    <2> QED
      BY <2>4, <2>5
  <1>10. CASE stopThread.ok /\ ~(g > s.completed)
    <2>1. g <= s.completed
      BY <1>1, <1>10
    <2>2. rt' = mark_stopped(rt) /\ restart' = s /\ UNCHANGED startThread
      BY <1>10, <2>1 DEF StopFinished
    <2> QED
      BY <1>2, <1>8, <1>10, <2>2
  <1>11. CASE ~stopThread.ok
    <2>1. /\ rt' = mark_running(rt, NoPid) /\ UNCHANGED startThread
          /\ restart' = finish_restart_request([s EXCEPT !.pendingStop = 0], g)
      BY <1>11 DEF StopFinished
    <2>2. restart'.target \in {s.target, NoMethod}
      BY <1>1, <2>1 DEF finish_restart_request, RestartFields
    <2>3. Core'
      BY <1>3, <1>4, <1>5, <1>6, <1>7, <1>11, <2>1
      DEF Core, OneMode, Alone, Single, PidInv, GoneInv, working, mode
    <2> QED
      BY <1>2, <2>2, <2>3
  <1> QED
    BY <1>9, <1>10, <1>11

\* The switch worker of the newest request leaves an engine, whose pid it
\* publishes; after an older one a newer request is still pending.
LEMMA SwitchFinishedCore ==
    ASSUME TypeInv, RestInv, Core, UNCHANGED settings, SwitchFinished
    PROVE  Core'
  <1> DEFINE t     == switchThread
             stale == t.stale \/ t.gen < switch.requested
  <1>1. /\ rt \in RuntimeStates /\ switch \in SwitchFields /\ t \in SwitchThreads
        /\ switch.requested \in Nat /\ switch.completed \in Nat /\ t.gen \in Nat
    BY DEF TypeInv, TypeOK, SwitchFields, SwitchThreads
  <1>2. /\ t.stage = "done" /\ switchThread' = [t EXCEPT !.stage = "quitting"]
        /\ switch' = [switch EXCEPT !.completed = max(@, t.gen)]
        /\ rt' = IF t.ok /\ (stale => t.pid # NoPid) THEN mark_running(rt, t.pid) ELSE rt
        /\ UNCHANGED <<engines, startThread, stopThread>>
    BY DEF SwitchFinished, finishedFrame
  <1>3. switch.completed < t.gen /\ t.gen <= switch.requested
    BY <1>2 DEF RestInv, GenInv, working
  <1>4. switch'.requested = switch.requested /\ switch'.completed = t.gen
    BY <1>1, <1>2, <1>3 DEF SwitchFields, max
  <1>5. ~pendingSwitch' => t.gen = switch.requested
    BY <1>1, <1>3, <1>4 DEF pendingSwitch
  <1>6. switchThread'.stage = "quitting"
    BY <1>1, <1>2 DEF SwitchThreads
  <1>7. /\ rt.phase = "running" /\ rt.method = mode
        /\ ~working(startThread) /\ ~working(stopThread)
        /\ startThread.stage # "done" /\ stopThread.stage # "done"
    BY <1>2 DEF Core, Alone, OneMode, working
  <1>8. /\ rt'.phase = "running" /\ rt'.method = mode
        /\ rt'.pid \in {rt.pid, t.pid} /\ (t.pid # NoPid => rt'.pid = t.pid)
        /\ t.pid = NoPid => rt'.pid = rt.pid
    <2>1. t.ok
      BY <1>2 DEF Core, PidInv
    <2> QED
      BY <1>1, <1>2, <1>7, <2>1 DEF mark_running, RuntimeStates
  <1>9. /\ \A e \in engines : rt'.pid \in {e.pid, NoPid}
        /\ ~pendingSwitch' => engines # {}
    BY <1>2, <1>5, <1>8 DEF Core, PidInv, GoneInv
  <1> QED
    BY <1>2, <1>6, <1>7, <1>8, <1>9
    DEF Core, OneMode, Alone, Single, PidInv, GoneInv, working, mode

LEMMA ThreadExitsCore ==
    ASSUME Core, UNCHANGED settings, ThreadExits
    PROVE  Core'
  <1>1. UNCHANGED <<rt, engines, switch>>
    BY DEF ThreadExits, finishedFrame, published
  <1>2. /\ startThread' = startThread \/ startThread'.stage = "idle"
        /\ stopThread' = stopThread \/ stopThread'.stage = "idle"
        /\ \/ switchThread' = switchThread
           \/ switchThread.stage = "quitting" /\ switchThread'.stage = "idle"
    BY DEF ThreadExits, IdleStart, IdleStop, IdleSwitch
  <1> QED
    BY <1>1, <1>2 DEF Core, OneMode, Alone, Single, PidInv, GoneInv, working, mode,
                      pendingSwitch

-----------------------------------------------------------------------------
(* The steps of the workers.                                                  *)

\* In the one mode a new engine takes the place of whatever there was.
LEMMA SpawnCore ==
    ASSUME Core, NEW p
    PROVE  /\ (engines \ own(mode)) \cup {[method |-> mode, pid |-> p]}
                = {[method |-> mode, pid |-> p]}
           /\ engines \ own(mode) = {}
           /\ own(mode) = engines
  BY DEF own, Core, OneMode

LEMMA StartWorkerCore ==
    ASSUME TypeInv, Core, UNCHANGED settings, StartPrepare \/ StartSpawn
    PROVE  Core'
  <1>1. startThread \in StartThreads
    BY DEF TypeInv, TypeOK
  <1>2. /\ startThread.stage \in {"prepare", "spawn"}
        /\ UNCHANGED <<rt, switch, stopThread, switchThread>>
    BY DEF StartPrepare, StartSpawn, workerFrame, published
  <1>3. /\ rt.phase = "starting" /\ rt.pid = NoPid /\ startThread.method = mode
        /\ ~working(stopThread) /\ ~working(switchThread)
        /\ stopThread.stage # "done"
        /\ switchThread.stage \notin {"respawn", "report", "done"}
    BY <1>2 DEF Core, Alone, OneMode, PidInv, working
  <1>4. /\ startThread'.stage \in {"spawn", "done"} /\ startThread'.method = mode
        /\ \A e, f \in engines' : e = f
        /\ \A e \in engines' : e.method = mode
        /\ startThread'.stage = "done" /\ startThread'.ok =>
              engines' # {} /\ \A e \in engines' : startThread'.pid \in {e.pid, NoPid}
    <2>1. /\ \A e, f \in engines : e = f
          /\ \A e \in engines : e.method = mode
      BY DEF Core, Single, OneMode
    <2>2. CASE startThread' = [startThread EXCEPT !.stage = "done", !.ok = FALSE]
                 /\ engines' \subseteq engines
      BY <1>1, <1>3, <2>1, <2>2 DEF StartThreads
    <2>3. CASE startThread' = [startThread EXCEPT !.stage = "spawn"]
                 /\ engines' \subseteq engines
      BY <1>1, <1>3, <2>1, <2>3 DEF StartThreads
    <2>4. ASSUME NEW p, NEW q \in {p, NoPid},
                 engines' = {[method |-> mode, pid |-> p]},
                 startThread' = [startThread EXCEPT !.stage = "done", !.ok = TRUE,
                                                    !.pid = q]
          PROVE  <1>4!:
      BY <1>1, <1>3, <2>4 DEF StartThreads
    <2>5. CASE StartPrepare
      <3>1. CASE /\ startThread.method = ZAPRET2_MODE
                 /\ \E p \in fresh_pids :
                      /\ engines' = {e \in engines : exe_of(e) # EXE_NAME_WINWS2}
                                       \cup {[method |-> ZAPRET2_MODE, pid |-> p]}
                      /\ startThread' = [startThread EXCEPT !.stage = "done", !.ok = TRUE,
                                                            !.pid = p]
        <4>1. PICK p \in fresh_pids :
                      /\ engines' = {e \in engines : exe_of(e) # EXE_NAME_WINWS2}
                                       \cup {[method |-> ZAPRET2_MODE, pid |-> p]}
                      /\ startThread' = [startThread EXCEPT !.stage = "done", !.ok = TRUE,
                                                            !.pid = p]
          BY <3>1
        <4>2. mode = ZAPRET2_MODE
          BY <1>3, <3>1
        <4>3. \A e \in engines : exe_of(e) = EXE_NAME_WINWS2
          BY <2>1, <4>2 DEF exe_of, exe_name_for_launch_method, EXE_NAME_WINWS2,
             ZAPRET2_MODE, ZAPRET1_MODE, ORCHESTRA_MODE
        <4>4. engines' = {[method |-> mode, pid |-> p]}
          BY <4>1, <4>2, <4>3
        <4> QED
          BY <2>4, <4>1, <4>4
      <3>2. CASE shutdown_runtime_sync /\ startThread' = [startThread EXCEPT !.stage = "spawn"]
        BY <2>3, <3>2 DEF shutdown_runtime_sync
      <3>3. CASE /\ startThread' = [startThread EXCEPT !.stage = "done", !.ok = FALSE]
                 /\ UNCHANGED engines
        BY <2>2, <3>3
      <3> QED
        BY <2>5, <3>1, <3>2, <3>3 DEF StartPrepare
    <2>6. CASE StartSpawn
      <3>1. CASE \E p \in fresh_pids :
                 /\ engines' = (engines \ own(mode)) \cup {[method |-> mode, pid |-> p]}
                 /\ startThread' = [startThread EXCEPT !.stage = "done", !.ok = TRUE,
                         !.pid = IF mode = ORCHESTRA_MODE THEN NoPid ELSE p]
        BY <2>4, <3>1, SpawnCore
      <3>2. CASE /\ engines' = engines \ own(mode)
                 /\ startThread' = [startThread EXCEPT !.stage = "done", !.ok = FALSE]
        BY <2>2, <3>2
      <3> QED
        BY <1>3, <2>6, <3>1, <3>2 DEF StartSpawn
    <2> QED
      BY <2>5, <2>6
  <1> QED
    BY <1>2, <1>3, <1>4 DEF Core, OneMode, Alone, Single, PidInv, GoneInv, working, mode

LEMMA StopWorkerCore ==
    ASSUME TypeInv, Core, UNCHANGED settings, StopKill \/ StopProbe
    PROVE  Core'
  <1>1. stopThread \in StopThreads
    BY DEF TypeInv, TypeOK
  <1>2. /\ stopThread.stage \in {"kill", "probe"}
        /\ UNCHANGED <<rt, switch, startThread, switchThread>>
    BY DEF StopKill, StopProbe, workerFrame, published
  <1>3. /\ rt.phase = "stopping" /\ ~working(startThread) /\ ~working(switchThread)
        /\ startThread.stage # "done"
        /\ switchThread.stage \notin {"respawn", "report", "done"}
    BY <1>2 DEF Core, Alone, working
  <1>4. /\ stopThread'.stage \in {"probe", "done"} /\ engines' \subseteq engines
        /\ stopThread'.stage = "done" => (stopThread'.ok <=> engines' = {})
    BY <1>1 DEF StopKill, StopProbe, shutdown_runtime_sync, StopThreads
  <1> QED
    BY <1>2, <1>3, <1>4 DEF Core, OneMode, Alone, Single, PidInv, GoneInv, working, mode

\* A switch that does not fail ends with the engine it names, or, when it was
\* overtaken, as it found it.
LEMMA SwitchWorkerCore ==
    ASSUME TypeInv, RestInv, Core, UNCHANGED settings, ~Spend("fail"),
           SwitchCheck \/ SwitchApply \/ SwitchRespawn \/ SwitchReport
    PROVE  Core'
  <1> DEFINE t == switchThread
  <1>1. t \in SwitchThreads
    BY DEF TypeInv, TypeOK
  <1>2. /\ t.stage \in {"check", "apply", "respawn", "report"}
        /\ UNCHANGED <<rt, switch, startThread, stopThread>>
    BY DEF SwitchCheck, SwitchApply, SwitchRespawn, SwitchReport, workerFrame, published
  <1>3. /\ rt.phase = "running" /\ t.method = mode
        /\ ~working(startThread) /\ ~working(stopThread)
        /\ startThread.stage # "done" /\ stopThread.stage # "done"
        /\ \A e, f \in engines : e = f
        /\ \A e \in engines : e.method = mode
        /\ pendingSwitch
    <2>1. /\ switch.requested \in Nat /\ switch.completed \in Nat /\ t.gen \in Nat
      BY DEF TypeInv, TypeOK, SwitchFields, SwitchThreads
    <2>2. pendingSwitch
      BY <1>2, <2>1 DEF RestInv, GenInv, working, pendingSwitch
    <2> QED
      BY <1>2, <2>2 DEF Core, Alone, OneMode, Single, working
  <1>4. /\ switchThread'.stage \in {"apply", "respawn", "report", "done"}
        /\ switchThread'.method = mode /\ switchThread'.gen = t.gen
    BY <1>1, <1>3 DEF SwitchCheck, SwitchApply, SwitchRespawn, SwitchReport, switch_keeps,
         switch_spawns, switch_step, SwitchThreads
  <1> DEFINE current == t.gen = switch.requested
             first   == t.stage \in {"check", "apply", "respawn"}
             Keeps   == /\ first /\ switchThread'.stage \in {"report", "done"}
                        /\ switchThread'.ok /\ UNCHANGED engines
                        /\ switchThread'.pid = NoPid
                             \/ \E e \in engines : switchThread'.pid = e.pid
                        /\ current => engines # {}
             Spawns  == /\ switchThread'.stage = "report" /\ switchThread'.ok
                        /\ \E p \in Pids : /\ engines' = {[method |-> mode, pid |-> p]}
                                           /\ switchThread'.pid = p
  <1>5. own(mode) = engines /\ engines \ own(mode) = {}
    BY SpawnCore
  <1>6. ASSUME switch_keeps(TRUE), first, current => engines # {}
        PROVE  Keeps
    <2>1. CASE engines # {}
      <3>1. PICK e \in engines : switch_step("report", TRUE, e.pid)
        BY <1>3, <1>5, <1>6, <2>1 DEF switch_keeps
      <3> QED
        BY <1>1, <1>6, <2>1, <3>1 DEF switch_step, switch_keeps, SwitchThreads
    <2>2. CASE engines = {}
      <3>1. switch_step("report", TRUE, NoPid)
        BY <1>3, <1>5, <1>6, <2>2 DEF switch_keeps
      <3> QED
        BY <1>1, <1>6, <3>1 DEF switch_step, switch_keeps, SwitchThreads
    <2> QED
      BY <2>1, <2>2
  <1>7. ASSUME switch_spawns
        PROVE  Spawns
    <2>1. PICK p \in fresh_pids :
             /\ engines' = (engines \ own(mode)) \cup {[method |-> mode, pid |-> p]}
             /\ switch_step("report", TRUE, p)
      BY <1>3, <1>7 DEF switch_spawns
    <2>2. engines' = {[method |-> mode, pid |-> p]} /\ p \in Pids
      BY <1>5, <2>1 DEF fresh_pids
    <2> QED
      BY <1>1, <2>1, <2>2 DEF switch_step, SwitchThreads
  <1>8. CASE UNCHANGED engines /\ t.stage = "check" /\ switchThread'.stage = "apply"
    BY <1>2, <1>3, <1>4, <1>8
    DEF Core, OneMode, Alone, Single, PidInv, GoneInv, working, mode, pendingSwitch
  <1>9. CASE engines' = {} /\ switchThread'.stage = "respawn"
    BY <1>2, <1>3, <1>4, <1>9
    DEF Core, OneMode, Alone, Single, PidInv, GoneInv, working, mode, pendingSwitch
  <1>10. CASE Keeps
    <2>1. \A e \in engines : rt.pid \in {e.pid, NoPid}
      BY <1>10 DEF Core, PidInv
    <2> QED
      BY <1>2, <1>3, <1>4, <1>10, <2>1
      DEF Core, OneMode, Alone, Single, PidInv, GoneInv, working, mode, pendingSwitch
  <1>11. CASE Spawns
    BY <1>2, <1>3, <1>4, <1>11, NoPidAssumption
    DEF Core, OneMode, Alone, Single, PidInv, GoneInv, working, mode, pendingSwitch
  <1>12. CASE SwitchCheck
    <2>1. CASE ~current
      <3>1. CASE switchThread' = [switchThread EXCEPT !.stage = "done", !.ok = TRUE,
                                                      !.stale = TRUE]
        <4>1. t.stage = "check" /\ UNCHANGED engines
          BY <1>12 DEF SwitchCheck
        <4>2. /\ switchThread'.stage = "done" /\ switchThread'.ok
              /\ switchThread'.pid = NoPid
          BY <1>1, <3>1, <4>1 DEF SwitchThreads, Core, PidInv
        <4> QED
          BY <1>10, <2>1, <4>1, <4>2
      <3> QED
        BY <1>12, <2>1, <3>1 DEF SwitchCheck, generation_is_current
    <2>2. CASE current
      BY <1>1, <1>8, <1>12, <2>2
      DEF SwitchCheck, generation_is_current, switch_step, SwitchThreads
    <2> QED
      BY <2>1, <2>2
  <1>13. CASE SwitchApply
    <2>1. t.stage = "apply" /\ UNCHANGED switch
      BY <1>2, <1>13 DEF SwitchApply
    <2>2. CASE ~current /\ switch_keeps(TRUE)
      BY <1>6, <1>10, <2>1, <2>2
    <2>3. CASE switch_spawns
      BY <1>7, <1>11, <2>3
    <2>4. CASE own(ZAPRET2_MODE) # {} /\ t.method = ZAPRET2_MODE /\ switch_keeps(TRUE)
      BY <1>3, <1>5, <1>6, <1>10, <2>1, <2>4
    <2>5. CASE /\ t.method = ZAPRET1_MODE /\ engines' = engines \ own(ZAPRET1_MODE)
               /\ switch_step("respawn", FALSE, NoPid)
      <3>1. engines' = {} /\ switchThread'.stage = "respawn"
        BY <1>1, <1>3, <1>5, <2>5 DEF switch_step, SwitchThreads
      <3> QED
        BY <1>9, <3>1
    <2> QED
      BY <1>13, <2>2, <2>3, <2>4, <2>5 DEF SwitchApply, generation_is_current
  <1>14. CASE SwitchRespawn
    BY <1>6, <1>7, <1>10, <1>11, <1>14 DEF SwitchRespawn, generation_is_current
  <1>15. CASE SwitchReport
    <2>1. /\ t.stage = "report" /\ UNCHANGED engines
          /\ switchThread'.stage = "done" /\ switchThread'.pid = t.pid
          /\ switchThread'.ok = t.ok
      BY <1>1, <1>15 DEF SwitchReport, SwitchThreads
    <2> QED
      BY <1>2, <1>3, <1>4, <2>1
      DEF Core, OneMode, Alone, Single, PidInv, GoneInv, working, mode, pendingSwitch
  <1> QED
    BY <1>12, <1>13, <1>14, <1>15

-----------------------------------------------------------------------------
(* The invariant, and what it says at rest.                                   *)

\* Requests: every one is for the one mode, and there is none of a kind that
\* the user did not ask for.
LEMMA CalmNext ==
    ASSUME TypeInv, RestInv, Calm, CalmInv, [Next]_vars, Calm'
    PROVE  CalmInv'
  <1>1. /\ rt \in RuntimeStates /\ busy \in BOOLEAN /\ switch \in SwitchFields
        /\ restart \in RestartFields /\ stopPolls \in [BOOLEAN -> Nat]
        /\ debounce \in PRESET_LAUNCH_METHODS \cup {NoMethod}
        /\ switch.requested \in Nat /\ switch.completed \in Nat
        /\ spent \in [Kinds -> Nat]
    BY DEF TypeInv, TypeOK, SwitchFields
  <1>2. Silent /\ Wanted /\ NoApply /\ NoStop /\ Core /\ scan.stage = "off"
    BY DEF CalmInv, Silent
  <1>3. \A k \in {"stop", "apply", "fail"} :
            k \in Kinds /\ (Spend(k) => spent'[k] # 0) /\ (spent[k] # 0 => spent'[k] # 0)
    BY Counted, NotSpent DEF Kinds
  <1>4. Unmixed'
    BY DEF Calm
  <1>5. CASE CalmStep /\ UNCHANGED settings /\ Silent'
    <2>1. CASE UserStart
      <3>1. /\ rt.phase \in {"stopped", "failed"} /\ start_dpi_async(rt, busy, NoMethod)
            /\ UNCHANGED <<debounce, restart, switch, switchThread, stopThread, stopPolls,
                           engines>>
            /\ Spend("start")
        BY <2>1 DEF UserStart, timers, Command
      <3>2. ~working(stopThread) /\ ~working(switchThread)
        BY <1>2, <3>1 DEF Core, Alone
      <3>3. Core'
        <4>1. CASE isRunning(startThread)
          <5>1. rt' = rt /\ UNCHANGED startThread
            BY <1>2, <3>1, <4>1, StartOne DEF Core, OneMode
          <5> QED
            BY <1>2, <1>5, <3>1, <5>1, SameCore
        <4>2. CASE ~isRunning(startThread)
          <5>1. /\ rt' = begin_start(rt, mode)
                /\ startThread' = [IdleStart EXCEPT !.stage = "prepare", !.method = mode]
            BY <1>2, <3>1, <4>2, StartOne DEF Core, OneMode
          <5>2. ~working(stopThread')
            BY <3>1, <3>2
          <5> QED
            BY <1>2, <1>5, <3>1, <3>2, <5>1, <5>2, StartCore
        <4> QED
          BY <4>1, <4>2
      <3> QED
        BY <1>2, <1>3, <1>5, <3>1, <3>3 DEF CalmInv, Wanted, NoApply, NoStop, mode, working
    <2>2. CASE UserStop \/ \E force \in BOOLEAN : StopPollFires(force, FALSE)
      <3>1. spent'["stop"] # 0
        <4>1. CASE UserStop
          BY <1>3, <4>1 DEF UserStop, Command
        <4>2. CASE \E force \in BOOLEAN : StopPollFires(force, FALSE)
          <5>1. PICK force \in BOOLEAN : stopPolls[force] > 0
            BY <4>2 DEF StopPollFires
          <5>2. stopPolls[force] # 0
            BY <1>1, <5>1
          <5> QED
            BY <1>2, <1>3, <5>2 DEF NoStop
        <4> QED
          BY <2>2, <4>1, <4>2
      <3>2. spent["apply"] = 0
        BY <1>3, <1>4, <3>1 DEF Unmixed
      <3>3. debounce = NoMethod /\ switch.requested = 0 /\ ~working(switchThread)
        BY <1>2, <3>2 DEF NoApply
      <3>4. UNCHANGED <<debounce, restart, switch, switchThread, startThread, engines>>
        BY <2>2 DEF UserStop, StopPollFires
      <3>5. PICK force, polls : stop_dpi_async(rt, busy, force, polls, FALSE)
        BY <2>2 DEF UserStop, StopPollFires
      <3>6. Core'
        <4>1. CASE rt' = rt /\ UNCHANGED stopThread
          BY <1>2, <1>5, <3>4, <4>1, SameCore
        <4>2. CASE /\ ~isRunning(startThread) /\ rt' = begin_stop(rt)
                   /\ stopThread' = [IdleStop EXCEPT !.stage = "kill", !.force = force]
          <5>1. ~working(startThread)
            BY <4>2 DEF isRunning, working
          <5> QED
            BY <1>2, <1>5, <3>3, <3>4, <4>2, <5>1, StopCore
        <4> QED
          BY <3>5, <4>1, <4>2 DEF stop_dpi_async, stop_must_wait
      <3> QED
        BY <1>2, <1>5, <3>1, <3>3, <3>4, <3>6
        DEF CalmInv, Wanted, NoApply, NoStop, mode, working
    <2>3. CASE UserRestart \/ RestartRetryFires \/ RestartKickFires
      <3>1. UNCHANGED <<debounce, switch, switchThread, engines>>
        BY <2>3 DEF UserRestart, RestartRetryFires, RestartKickFires, timerFrame
      <3>2. PICK s \in RestartFields : \E retry :
                /\ s.target \in {mode, NoMethod}
                /\ process_pending_restart_request(rt, busy, s, retry)
        <4>1. CASE UserRestart
          <5> DEFINE g == restart.requested + 1
                     s == [restart EXCEPT !.requested = g, !.target = NoMethod,
                                          !.forceStop = IF FALSE THEN g ELSE @]
          <5>1. process_pending_restart_request(rt, busy, s, restartRetry)
            BY <4>1 DEF UserRestart, restart_dpi_async
          <5>2. g \in Nat
            BY <1>1 DEF RestartFields
          <5> HIDE DEF g
          <5>3. s \in RestartFields /\ s.target = NoMethod
            BY <1>1, <5>2 DEF RestartFields
          <5> HIDE DEF s
          <5> QED
            BY <5>1, <5>3
        <4>2. CASE RestartRetryFires \/ RestartKickFires
          <5>1. PICK retry : process_pending_restart_request(rt, busy, restart, retry)
            BY <4>2 DEF RestartRetryFires, RestartKickFires
          <5>2. restart.target \in {mode, NoMethod}
            BY <1>2 DEF Wanted
          <5> QED
            BY <1>1, <5>1, <5>2
        <4> QED
          BY <2>3, <4>1, <4>2
      <3>3. Core' /\ UNCHANGED stopPolls /\ restart'.target \in {mode, NoMethod}
        BY <1>2, <1>5, <3>1, <3>2, RestartCore
      <3> QED
        BY <1>2, <1>3, <1>5, <3>1, <3>3 DEF CalmInv, Wanted, NoApply, NoStop, mode, working
    <2>4. CASE ApplyPreset
      <3>1. /\ debounce' = settings.method /\ spent'["apply"] # 0
            /\ UNCHANGED <<rt, restart, switch, stopPolls, threads, engines>>
        BY <1>3, <2>4 DEF ApplyPreset, Command, published
      <3>2. Core'
        BY <1>2, <1>5, <3>1, SameCore DEF threads
      <3> QED
        BY <1>2, <1>3, <1>5, <3>1, <3>2 DEF CalmInv, Wanted, NoApply, NoStop, mode
    <2>5. CASE SwitchRetryFires \/ SwitchKickFires
      <3>1. PICK retry : process_pending_presets_switch(rt, busy, switch, retry, debounce)
        BY <2>5 DEF SwitchRetryFires, SwitchKickFires
      <3>2. UNCHANGED engines
        BY <2>5 DEF SwitchRetryFires, SwitchKickFires, timerFrame
      <3>3. switch.requested >= switch.requested /\ (switch.requested > 0 => switch.method = mode)
        BY <1>1, <1>2 DEF Wanted
      <3>4. /\ Core' /\ UNCHANGED <<restart, stopPolls, debounce>>
            /\ switch.requested = 0 => UNCHANGED switchThread
            /\ switch'.requested = switch.requested /\ switch'.method = switch.method
        BY <1>1, <1>2, <1>5, <3>1, <3>2, <3>3, PresetCore
      <3> QED
        BY <1>2, <1>3, <1>5, <3>4 DEF CalmInv, Wanted, NoApply, NoStop, mode, working
    <2>6. CASE DebounceFires
      <3> DEFINE w == [switch EXCEPT !.method = debounce, !.requested = @ + 1]
      <3>1. /\ debounce # NoMethod /\ switch_presets_async(debounce) /\ UNCHANGED engines
        BY <2>6 DEF DebounceFires, timerFrame
      <3>2. debounce = mode /\ ~owner_differs(rt, debounce)
        BY <1>2, <3>1 DEF Wanted, owner_differs, Core, OneMode
      <3>3. process_pending_presets_switch(rt, TRUE, w, switchRetry, NoMethod)
        BY <3>1, <3>2 DEF switch_presets_async
      <3>4. /\ w.requested = switch.requested + 1 /\ w.completed = switch.completed
            /\ w.method = mode
        BY <1>1, <3>2 DEF SwitchFields
      <3>5. w \in SwitchFields
        <4>1. switch.requested + 1 \in Nat /\ debounce \in PRESET_LAUNCH_METHODS
          BY <1>1, <3>1
        <4> QED
          BY <1>1, <4>1 DEF SwitchFields
      <3> HIDE DEF w
      <3>6. w.requested >= switch.requested
        BY <1>1, <3>4
      <3>7. /\ Core' /\ UNCHANGED <<restart, stopPolls>> /\ debounce' = NoMethod
            /\ switch'.method = mode
        BY <1>2, <1>5, <3>1, <3>3, <3>4, <3>5, <3>6, PresetCore
      <3>8. spent'["apply"] # 0
        BY <1>2, <1>3, <3>1 DEF NoApply
      <3> QED
        BY <1>2, <1>3, <1>5, <3>7, <3>8 DEF CalmInv, Wanted, NoApply, NoStop, mode
    <2>7. CASE StartFinished
      <3>1. /\ UNCHANGED <<debounce, switch, switchThread, stopPolls>>
            /\ restart' = finish_restart_request(restart, restart.activeStart)
        BY <2>7 DEF StartFinished, finishedFrame
      <3>2. restart'.target \in {restart.target, NoMethod}
        BY <1>1, <3>1 DEF finish_restart_request, RestartFields
      <3>3. Core'
        BY <1>2, <1>5, <2>7, StartFinishedCore
      <3> QED
        BY <1>2, <1>3, <1>5, <3>1, <3>2, <3>3
        DEF CalmInv, Wanted, NoApply, NoStop, mode, working
    <2>8. CASE StopFinished
      <3>1. UNCHANGED <<debounce, switch, switchThread, stopPolls>>
        BY <2>8 DEF StopFinished, finishedFrame
      <3>2. Core' /\ restart'.target \in {mode, NoMethod}
        BY <1>2, <1>5, <2>8, StopFinishedCore
      <3> QED
        BY <1>2, <1>3, <1>5, <3>1, <3>2 DEF CalmInv, Wanted, NoApply, NoStop, mode, working
    <2>9. CASE SwitchFinished
      <3>1. /\ UNCHANGED <<debounce, restart, stopPolls>>
            /\ switch' = [switch EXCEPT !.completed = max(@, switchThread.gen)]
            /\ switchThread.stage = "done"
        BY <2>9 DEF SwitchFinished, finishedFrame
      <3>2. switch'.requested = switch.requested /\ switch'.method = switch.method
        BY <1>1, <3>1 DEF SwitchFields
      <3>3. spent'["apply"] # 0
        BY <1>2, <1>3, <3>1 DEF NoApply, working
      <3>4. Core'
        BY <1>2, <1>5, <2>9, SwitchFinishedCore
      <3> QED
        BY <1>2, <1>3, <1>5, <3>1, <3>2, <3>3, <3>4
        DEF CalmInv, Wanted, NoApply, NoStop, mode
    <2>10. CASE ThreadExits
      <3>1. UNCHANGED <<debounce, restart, switch, stopPolls>>
        BY <2>10 DEF ThreadExits, finishedFrame
      <3>2. working(switchThread') => working(switchThread)
        BY <2>10 DEF ThreadExits, working, IdleSwitch
      <3>3. Core'
        BY <1>2, <1>5, <2>10, ThreadExitsCore
      <3> QED
        BY <1>2, <1>3, <1>5, <3>1, <3>2, <3>3 DEF CalmInv, Wanted, NoApply, NoStop, mode
    <2>11. CASE WorkerStep
      <3>1. UNCHANGED <<debounce, restart, switch, stopPolls>>
        BY <2>11 DEF WorkerStep, StartPrepare, StartSpawn, StopKill, StopProbe,
                     SwitchCheck, SwitchApply, SwitchRespawn, SwitchReport,
                     workerFrame, timers
      <3>2. CASE StartPrepare \/ StartSpawn \/ StopKill \/ StopProbe
        <4>1. UNCHANGED switchThread
          BY <3>2 DEF StartPrepare, StartSpawn, StopKill, StopProbe
        <4>2. Core'
          BY <1>2, <1>5, <3>2, StartWorkerCore, StopWorkerCore
        <4> QED
          BY <1>2, <1>3, <1>5, <3>1, <4>1, <4>2
          DEF CalmInv, Wanted, NoApply, NoStop, mode, working
      <3>3. CASE SwitchCheck \/ SwitchApply \/ SwitchRespawn \/ SwitchReport
        <4>1. working(switchThread)
          BY <3>3 DEF SwitchCheck, SwitchApply, SwitchRespawn, SwitchReport, working
        <4>2. spent'["apply"] # 0
          BY <1>2, <1>3, <4>1 DEF NoApply
        <4>3. ~Spend("fail")
          BY <1>3, <1>4, <4>2 DEF Unmixed
        <4>4. Core'
          BY <1>2, <1>5, <3>3, <4>3, SwitchWorkerCore
        <4> QED
          BY <1>2, <1>3, <1>5, <3>1, <4>2, <4>4
          DEF CalmInv, Wanted, NoApply, NoStop, mode
      <3> QED
        BY <2>11, <3>2, <3>3 DEF WorkerStep
    <2> QED
      BY <1>5, <2>1, <2>2, <2>3, <2>4, <2>5, <2>6, <2>7, <2>8, <2>9, <2>10, <2>11
      DEF CalmStep
  <1>6. CASE UNCHANGED vars
    <2>1. Core' /\ Silent'
      BY <1>2, <1>6, SameCore DEF vars, published, threads, timers, signals, Silent
    <2> QED
      BY <1>2, <1>6, <2>1
      DEF CalmInv, vars, timers, threads, Wanted, NoApply, NoStop, mode
  <1> QED
    BY <1>2, <1>5, <1>6, CalmSteps

\* In one launch method, and with the engines left to the pipeline, whatever is
\* published at rest is true and the engine runs in the mode that is selected:
\* for any number of starts, restarts and preset switches that overtake each
\* other and of shutdowns that an engine survives, and of stops and failed
\* launches where no preset is switched.
THEOREM PublishedAlwaysTrue == Spec => [](Calm => EngineAsPublished /\ LastModeWins)
  <1> DEFINE UntilChange == TypeInv /\ (spent["method"] = 0 => RestInv)
             WhileCalm   == UntilChange /\ (Calm => CalmInv)
  <1>1. Init => WhileCalm
    <2>1. Init => UntilChange
      BY InitTypes DEF Init, RestInv, PhaseInv, BusyInv, GenInv, working,
           build_initial_ui_state, IdleSwitch
    <2>2. Init => Silent /\ Wanted /\ NoApply /\ NoStop
      BY DEF Init, Silent, Wanted, NoApply, NoStop, working, IdleSwitch
    <2>3. Init => Core
      BY DEF Init, Core, OneMode, Alone, Single, PidInv, GoneInv, working, mode,
           build_initial_ui_state, IdleStart, IdleStop, IdleSwitch
    <2> QED
      BY <2>1, <2>2, <2>3 DEF CalmInv
  <1>2. WhileCalm /\ [Next]_vars => WhileCalm'
    <2>1. "method" \in Kinds /\ (Calm => spent["method"] = 0)
      BY DEF Kinds, Calm
    <2> QED
      BY <2>1, NextTypes, RestNext, Counted, CalmBefore, CalmNext
  <1>3. WhileCalm /\ SwitchNeverStranded => (Calm => EngineAsPublished /\ LastModeWins)
    <2> SUFFICES ASSUME Core, SwitchNeverStranded, Quiescent
                 PROVE  /\ \A e, f \in engines : e = f
                        /\ rt.phase = "running" => \E e \in engines : rt.pid \in {e.pid, NoPid}
                        /\ rt.phase = "stopped" => engines = {}
                        /\ \A e \in engines : e.method = settings.method
      BY DEF EngineAsPublished, LastModeWins, CalmInv
    <2>1. /\ ~pendingSwitch /\ switchThread.stage = "idle"
      BY DEF Quiescent, SwitchNeverStranded, pendingSwitch, isRunning, working
    <2>2. /\ \A e \in engines : rt.pid \in {e.pid, NoPid}
          /\ rt.phase = "running" => engines # {}
      BY <2>1 DEF Core, PidInv, GoneInv
    <2> QED
      BY <2>2 DEF Core, Single, GoneInv, OneMode, mode
  <1> QED
    BY <1>1, <1>2, <1>3, SwitchNotLost, PTL DEF Spec

-----------------------------------------------------------------------------
(* The mode selected last, while the user starts, stops and changes the mode. *)

\* Nothing else happens; and where a change of mode stops the engine instead of
\* restarting it, the engine is started once.
Plain == /\ \A k \in Kinds \ {"start", "stop", "method"} : spent[k] = 0
         /\ settings.autostart \/ spent["start"] <= 1

pendingRestart == restart.requested > restart.completed

\* Nothing of the environment or of a preset switch is queued or works.
Undisturbed ==
    /\ reports = <<>> /\ exits = 0 /\ syncs = <<>> /\ scan.stage = "off"
    /\ debounce = NoMethod /\ switch.requested = 0 /\ switchThread.stage = "idle"

\* One engine: a start spawns into the place it has cleared, and what has
\* finished names what it did.
OneEngine ==
    /\ Single
    /\ startThread.stage = "spawn" => engines = {}
    /\ startThread.stage = "done" =>
          /\ startThread.ok /\ engines # {}
          /\ \A e \in engines : /\ e.method = startThread.method
                                /\ startThread.pid \in {e.pid, NoPid}
    /\ stopThread.stage = "probe" => engines = {}
    /\ stopThread.stage = "done" => stopThread.ok /\ engines = {}

\* A start works in the published mode and never beside a stop.
OneWorker ==
    /\ working(startThread) =>
          /\ rt.phase \in {"starting", "stopping"} /\ ~working(stopThread)
          /\ rt.method = startThread.method /\ rt.pid = NoPid
    /\ working(stopThread) => rt.phase = "stopping" /\ ~isRunning(startThread)

\* What the phase says of the engine.
PhaseTrue ==
    /\ rt.phase # "failed"
    /\ rt.phase = "running" => engines # {} /\ ~working(startThread)
    /\ rt.phase \in {"stopped", "autostart_pending"} => engines = {} /\ rt.pid = NoPid
    /\ \A e \in engines : rt.pid \in {e.pid, NoPid}

Held == OneEngine /\ OneWorker /\ PhaseTrue

\* With autostart every change of mode is a restart: the last one queued is in
\* the selected mode, or else the pending one, or else whatever works or runs.
Newest(s, cs) ==
    /\ s.completed <= s.requested /\ s.pendingStop <= s.requested
    /\ s.activeStart <= s.requested
    /\ s.requested > s.completed => s.target # NoMethod
    /\ s.requested > s.completed /\ cs = <<>> => s.target = mode

ActiveStart ==
    /\ restart.activeStart > 0 => working(startThread)
    /\ pendingRestart /\ restart.activeStart = restart.requested
          => startThread.method = restart.target

InMode == rt.method = mode /\ \A e \in engines : e.method = mode

RestartsFollow ==
    /\ \A i \in 1..Len(commands) : commands[i].action = "restart"
    /\ commands # <<>> => commands[Len(commands)].method = mode
    /\ Newest(restart, commands)
    /\ ActiveStart
    /\ commands = <<>> /\ ~pendingRestart => InMode

\* Without it a stop is queued, waits for the start, or works, as long as a
\* start works or an engine runs in another mode.
stopComes == commands # <<>> \/ (\E force \in BOOLEAN : stopPolls[force] > 0)
             \/ stopThread.stage = "kill"

\* No restart is asked for, and until the first start nothing works.
NoRestart == /\ restart.requested = 0 /\ restart.completed = 0
             /\ restart.activeStart = 0 /\ restart.pendingStop = 0

Untouched == /\ rt.method = mode /\ rt.phase = "stopped" /\ commands = <<>>
             /\ startThread.stage = "idle" /\ stopThread.stage = "idle"
             /\ \A force \in BOOLEAN : stopPolls[force] = 0

StopsFollow ==
    /\ NoRestart
    /\ \A i \in 1..Len(commands) : commands[i].action = "stop"
    /\ spent["start"] = 0 => Untouched
    /\ working(startThread) \/ engines # {} => rt.method = mode \/ stopComes
    /\ \A e \in engines : working(startThread) \/ e.method = rt.method
    /\ stopThread.stage = "quitting" => ~working(startThread) /\ engines = {}

ModesInv == /\ Undisturbed /\ Held
            /\ IF settings.autostart THEN RestartsFollow ELSE StopsFollow

LEMMA PlainBefore ==
    ASSUME TypeInv, [Next]_vars, Plain'
    PROVE  Plain /\ settings'.autostart = settings.autostart
  <1>1. spent \in [Kinds -> Nat] /\ spent' \in [Kinds -> Nat]
    BY NextTypes DEF TypeInv, TypeOK
  <1>2. \A k \in Kinds : spent[k] <= spent'[k]
    BY <1>1, Counts DEF Spend
  <1>3. settings'.autostart = settings.autostart
    <2>1. settings \in [method : ALL_LAUNCH_METHODS, autostart : BOOLEAN]
      BY DEF TypeInv, TypeOK
    <2>2. UNCHANGED settings \/ \E m \in SelectableMethods : ChangeMethod(m)
      BY DEF Next, vars, UserStep, UserStart, UserStop, UserRestart, ApplyPreset,
             TimerStep, RunCommand, RestartRetryFires, RestartKickFires,
             SwitchRetryFires, SwitchKickFires, DebounceFires, StopPollFires, timerFrame,
             SignalStep, StartFinished, StopFinished, SwitchFinished, ThreadExits,
             ObserveReport, ApplyRuntimeState, HandleUnexpectedExit, finishedFrame,
             signalFrame, WorkerStep, StartPrepare, StartSpawn, StopKill, StopProbe,
             SwitchCheck, SwitchApply, SwitchRespawn, SwitchReport, workerFrame,
             EnvironmentStep, Crash, MonitorScan, BeginScan, ScanStep, scanFrame
    <2> QED
      BY <2>1, <2>2 DEF ChangeMethod
  <1>4. "start" \in Kinds
    BY DEF Kinds
  <1> QED
    BY <1>1, <1>2, <1>3, <1>4 DEF Plain

\* The steps that are left.
PlainStep ==
    \/ UserStart \/ UserStop \/ \E m \in SelectableMethods : ChangeMethod(m)
    \/ RunCommand \/ RestartRetryFires \/ RestartKickFires
    \/ SwitchRetryFires \/ SwitchKickFires
    \/ \E force \in BOOLEAN : StopPollFires(force, FALSE)
    \/ StartFinished \/ StopFinished \/ ThreadExits
    \/ StartPrepare \/ StartSpawn \/ StopKill \/ StopProbe

LEMMA PlainSteps ==
    ASSUME TypeInv, Undisturbed, Next, Plain'
    PROVE  PlainStep /\ Undisturbed'
  <1>1. \A k \in Kinds \ {"start", "stop", "method"} : ~Spend(k)
    BY NotSpent DEF Plain
  <1>2. /\ ~Spend("restart") /\ ~Spend("apply") /\ ~Spend("scan") /\ ~Spend("crash")
        /\ ~Spend("observe") /\ ~Spend("slow")
    BY <1>1 DEF Kinds
  <1>3. ~UserRestart /\ ~ApplyPreset /\ ~DebounceFires /\ ~SwitchFinished
    BY <1>2 DEF UserRestart, ApplyPreset, Command, DebounceFires, SwitchFinished, Undisturbed
  <1>4. ~ObserveReport /\ ~ApplyRuntimeState
    BY DEF ObserveReport, ApplyRuntimeState, Undisturbed
  <1>5. ~\E transient \in BOOLEAN : HandleUnexpectedExit(transient)
    BY DEF HandleUnexpectedExit, Undisturbed
  <1>6. ~EnvironmentStep
    BY <1>2 DEF EnvironmentStep, Crash, MonitorScan, BeginScan, ScanStep, scan_step, Undisturbed
  <1>7. ASSUME NEW force \in BOOLEAN, NEW expired \in BOOLEAN, StopPollFires(force, expired)
        PROVE  StopPollFires(force, FALSE)
    BY <1>2, <1>7 DEF StopPollFires
  <1>8. ~SwitchCheck /\ ~SwitchApply /\ ~SwitchRespawn /\ ~SwitchReport
    BY DEF SwitchCheck, SwitchApply, SwitchRespawn, SwitchReport, Undisturbed
  <1>9. PlainStep
    BY <1>3, <1>4, <1>5, <1>6, <1>7, <1>8
    DEF Next, UserStep, TimerStep, SignalStep, WorkerStep, PlainStep
  <1>10. CASE SwitchRetryFires \/ SwitchKickFires
    <2>1. \E retry \in {FALSE, switchRetry} :
             process_pending_presets_switch(rt, busy, switch, retry, debounce)
      BY <1>10 DEF SwitchRetryFires, SwitchKickFires
    <2>2. ~(switch.requested > switch.completed)
      BY DEF Undisturbed, TypeInv, TypeOK, SwitchFields
    <2> QED
      BY <1>9, <1>10, <2>1, <2>2
      DEF process_pending_presets_switch, SwitchRetryFires, SwitchKickFires, Undisturbed,
          timerFrame, signals
  <1>11. CASE ~(SwitchRetryFires \/ SwitchKickFires)
    <2>1. UNCHANGED <<reports, exits, syncs, scan, debounce, switch, switchThread>>
      <3>1. CASE ThreadExits
        BY <3>1 DEF ThreadExits, finishedFrame, signals, Undisturbed
      <3>2. CASE UserStart \/ UserStop \/ \E m \in SelectableMethods : ChangeMethod(m)
        BY <3>2 DEF UserStart, UserStop, ChangeMethod, signals, timers, threads
      <3>4. CASE RunCommand \/ RestartRetryFires \/ RestartKickFires
        BY <3>4 DEF RunCommand, RestartRetryFires, RestartKickFires, timerFrame, signals
      <3>5. CASE \E force \in BOOLEAN : StopPollFires(force, FALSE)
        BY <3>5 DEF StopPollFires, signals
      <3>3. CASE \/ StartFinished \/ StopFinished
                 \/ StartPrepare \/ StartSpawn \/ StopKill \/ StopProbe
        BY <3>3 DEF StartFinished, StopFinished, StartPrepare, StartSpawn, StopKill,
                    StopProbe, workerFrame, finishedFrame, signals, timers
      <3> QED
        BY <1>9, <1>11, <3>1, <3>2, <3>3, <3>4, <3>5 DEF PlainStep
    <2> QED
      BY <1>9, <2>1 DEF Undisturbed
  <1> QED
    BY <1>10, <1>11

-----------------------------------------------------------------------------
(* The workers, the engine and the phase.                                     *)

LEMMA HeldSame ==
    ASSUME Held, UNCHANGED <<rt, engines, startThread, stopThread>>
    PROVE  Held'
  BY DEF Held, OneEngine, OneWorker, PhaseTrue, Single, working, isRunning

\* A start that begins.
LEMMA HeldStart ==
    ASSUME Held, ~working(stopThread'), stopThread' = stopThread \/ stopThread'.stage = "quitting",
           NEW r, NEW m, rt' = begin_start(r, m),
           startThread' = [IdleStart EXCEPT !.stage = "prepare", !.method = m],
           UNCHANGED engines
    PROVE  Held'
  <1>1. /\ rt'.phase = "starting" /\ rt'.method = m /\ rt'.pid = NoPid
        /\ startThread'.stage = "prepare" /\ startThread'.method = m
    BY DEF begin_start, IdleStart
  <1> QED
    BY <1>1 DEF Held, OneEngine, OneWorker, PhaseTrue, Single, working

\* A stop that begins.
LEMMA HeldStop ==
    ASSUME TypeInv, Held, ~isRunning(startThread), NEW force, rt' = begin_stop(rt),
           stopThread' = [IdleStop EXCEPT !.stage = "kill", !.force = force],
           UNCHANGED <<engines, startThread>>
    PROVE  Held' /\ stopThread'.stage = "kill" /\ rt'.method = rt.method
  <1>1. rt \in RuntimeStates
    BY DEF TypeInv, TypeOK
  <1>2. /\ rt'.phase = "stopping" /\ rt'.method = rt.method /\ rt'.pid = rt.pid
        /\ stopThread'.stage = "kill"
    BY <1>1 DEF begin_stop, IdleStop, RuntimeStates
  <1> QED
    BY <1>2 DEF Held, OneEngine, OneWorker, PhaseTrue, Single, working, isRunning

\* stop_dpi_async of a stop that does not lose patience: refused while another
\* one has not gone, waiting for a start, or begun.
LEMMA StopPlain ==
    ASSUME TypeInv, Held, NEW b, NEW force \in BOOLEAN, NEW polls \in [BOOLEAN -> Nat],
           stop_dpi_async(rt, b, force, polls, FALSE), UNCHANGED <<engines, startThread>>
    PROVE  /\ Held' /\ rt'.method = rt.method
           /\ \/ /\ isRunning(stopThread) /\ stopPolls' = polls
                 /\ UNCHANGED <<rt, stopThread>>
              \/ /\ isRunning(startThread) /\ stopPolls'[force] > 0
                 /\ UNCHANGED <<rt, stopThread>>
              \/ stopThread'.stage = "kill"
  <1>1. CASE isRunning(stopThread)
    <2>1. UNCHANGED <<rt, stopThread>> /\ stopPolls' = polls
      BY <1>1 DEF stop_dpi_async
    <2> QED
      BY <1>1, <2>1, HeldSame
  <1>2. CASE ~isRunning(stopThread) /\ isRunning(startThread)
    <2>1. UNCHANGED <<rt, stopThread>> /\ stopPolls' = [polls EXCEPT ![force] = @ + 1]
      BY <1>2 DEF stop_dpi_async, stop_must_wait
    <2>2. stopPolls'[force] > 0
      BY <2>1
    <2> QED
      BY <1>2, <2>1, <2>2, HeldSame
  <1>3. CASE ~isRunning(stopThread) /\ ~isRunning(startThread)
    <2>1. /\ rt' = begin_stop(rt)
          /\ stopThread' = [IdleStop EXCEPT !.stage = "kill", !.force = force]
      BY <1>3 DEF stop_dpi_async, stop_must_wait
    <2> QED
      BY <1>3, <2>1, HeldStop
  <1> QED
    BY <1>1, <1>2, <1>3

\* process_pending_restart_request, with a request s that may be new: a start of
\* it begins, or the start thread and the published mode stay.
LEMMA RestartPlain ==
    ASSUME TypeInv, Held, scan.stage = "off", NEW b, NEW s \in RestartFields, NEW retry,
           process_pending_restart_request(rt, b, s, retry), UNCHANGED engines
    PROVE  /\ Held'
           /\ \/ /\ restart' \in {s, [s EXCEPT !.pendingStop = s.requested]}
                 /\ UNCHANGED startThread /\ rt'.method = rt.method
              \/ /\ s.requested > s.completed
                 /\ restart' = [s EXCEPT !.activeStart = s.requested]
                 /\ ~isRunning(startThread) /\ startThread'.stage = "prepare"
                 /\ startThread'.method = requested_launch_method(rt, s.target)
  <1> DEFINE pending == s.requested > s.completed
             force   == s.forceStop = s.requested
  <1>1. CASE ~pending
    <2>1. UNCHANGED <<rt, startThread, stopThread>> /\ restart' = s
      BY <1>1 DEF process_pending_restart_request
    <2> QED
      BY <2>1, HeldSame
  <1>2. CASE pending /\ pipeline_occupied
    <2>1. /\ UNCHANGED <<rt, startThread, stopThread>>
          /\ restart' \in {s, [s EXCEPT !.pendingStop = s.requested]}
      BY <1>2 DEF process_pending_restart_request
    <2> QED
      BY <2>1, HeldSame
  <1>3. CASE pending /\ ~pipeline_occupied /\ (is_running(rt) \/ force)
    <2>1. /\ restart' = [s EXCEPT !.pendingStop = s.requested]
          /\ stop_dpi_async(rt, b, force, stopPolls, FALSE)
          /\ UNCHANGED startThread
      BY <1>3 DEF process_pending_restart_request
    <2>2. stopPolls \in [BOOLEAN -> Nat] /\ force \in BOOLEAN
      BY DEF TypeInv, TypeOK
    <2> HIDE DEF force
    <2> QED
      BY <2>1, <2>2, StopPlain
  <1>4. CASE pending /\ ~pipeline_occupied /\ ~(is_running(rt) \/ force)
    <2>1. /\ restart' = [s EXCEPT !.activeStart = s.requested]
          /\ start_dpi_async(rt, b, s.target)
          /\ UNCHANGED stopThread
          /\ ~isRunning(startThread) /\ ~isRunning(stopThread)
      BY <1>4 DEF process_pending_restart_request, pipeline_occupied
    <2> DEFINE method == requested_launch_method(rt, s.target)
    <2>2. /\ rt' = begin_start(rt, method)
          /\ startThread' = [IdleStart EXCEPT !.stage = "prepare", !.method = method]
      BY <2>1 DEF start_dpi_async, ScanActive
    <2>3. startThread'.stage = "prepare" /\ startThread'.method = method
      BY <2>2 DEF IdleStart
    <2>4. ~working(stopThread')
      BY <2>1 DEF working, isRunning
    <2> HIDE DEF method
    <2>5. Held'
      BY <2>1, <2>2, <2>4, HeldStart
    <2> QED
      BY <1>4, <2>1, <2>3, <2>5 DEF method
  <1> QED
    BY <1>1, <1>2, <1>3, <1>4

LEMMA ChangeHeld ==
    ASSUME TypeInv, Held, NEW m \in SelectableMethods, ChangeMethod(m)
    PROVE  /\ Held' /\ mode' = m
           /\ \/ rt'.method = rt.method
              \/ /\ rt'.method = m /\ engines = {} /\ ~isRunning(startThread)
                 /\ ~pendingRestart
           /\ \/ /\ commands' = commands /\ ~settings.autostart
                 /\ rt'.method = m /\ rt'.phase = "stopped"
                 /\ engines = {} /\ ~isRunning(startThread)
              \/ \E c \in Commands :
                    /\ commands' = Append(commands, c) /\ c.method = m
                    /\ c.action = IF settings.autostart THEN "restart" ELSE "stop"
                    /\ \/ settings.autostart \/ rt.phase # "stopped"
                       \/ transition_pipeline_in_progress
           /\ spent'["start"] = 0 => spent["start"] = 0
  <1> DEFINE active == rt.phase \in {"starting", "running", "stopping"}
                       \/ transition_pipeline_in_progress
             action == IF settings.autostart THEN "restart" ELSE IF active THEN "stop" ELSE "none"
  <1>1. /\ rt \in RuntimeStates /\ m \in ALL_LAUNCH_METHODS
        /\ settings \in [method : ALL_LAUNCH_METHODS, autostart : BOOLEAN]
        /\ spent \in [Kinds -> Nat] /\ {"start", "method"} \subseteq Kinds
    BY ConstantsAssumption DEF TypeInv, TypeOK, Kinds
  <1>2. /\ settings' = [settings EXCEPT !.method = m]
        /\ rt' = CASE active      -> begin_stop(rt)
                   [] ~active /\ settings.autostart -> mark_autostart_pending(rt, m)
                   [] OTHER       -> bootstrap_probe_absent(mark_stopped(rt), m)
        /\ commands' = IF action = "none" THEN commands
                       ELSE Append(commands, [action |-> action, force |-> active,
                                              method |-> m])
        /\ UNCHANGED <<startThread, stopThread, engines>>
        /\ spent' = [spent EXCEPT !["method"] = @ + 1]
    BY DEF ChangeMethod, threads, Command, Spend
  <1>3. mode' = m /\ (spent'["start"] = 0 => spent["start"] = 0)
    BY <1>1, <1>2 DEF mode
  <1>4. active \in BOOLEAN
    BY DEF transition_pipeline_in_progress, isRunning
  <1>5. ~active => /\ ~isRunning(startThread) /\ ~isRunning(stopThread) /\ ~pendingRestart
                   /\ rt.phase \in {"stopped", "autostart_pending"} /\ engines = {}
    BY <1>1 DEF transition_pipeline_in_progress, pendingRestart, Held, PhaseTrue,
                RuntimeStates, Phases
  <1>6. CASE active
    <2> HIDE DEF active
    <2>1. /\ rt'.phase = "stopping" /\ rt'.method = rt.method /\ rt'.pid = rt.pid
      BY <1>1, <1>2, <1>6 DEF begin_stop, RuntimeStates
    <2>2. Held'
      BY <1>2, <2>1 DEF Held, OneEngine, OneWorker, PhaseTrue, Single, working, isRunning
    <2> DEFINE c == [action |-> action, force |-> active, method |-> m]
    <2>3. /\ c \in Commands /\ commands' = Append(commands, c) /\ c.method = m
          /\ c.action = IF settings.autostart THEN "restart" ELSE "stop"
      BY <1>1, <1>2, <1>4, <1>6 DEF Commands
    <2>4. rt.phase # "stopped" \/ transition_pipeline_in_progress
      BY <1>6 DEF active
    <2> QED
      BY <1>3, <2>1, <2>2, <2>3, <2>4
  <1>7. CASE ~active
    <2> HIDE DEF active
    <2>1. /\ rt'.method = m /\ rt'.pid = NoPid
          /\ IF settings.autostart THEN rt'.phase = "autostart_pending"
                                   ELSE rt'.phase = "stopped"
      BY <1>1, <1>2, <1>7
      DEF mark_autostart_pending, bootstrap_probe_absent, mark_stopped, RuntimeStates
    <2>2. Held'
      BY <1>2, <1>5, <1>7, <2>1
      DEF Held, OneEngine, OneWorker, PhaseTrue, Single, working, isRunning
    <2>3. CASE settings.autostart
      <3> DEFINE c == [action |-> action, force |-> active, method |-> m]
      <3>1. /\ c \in Commands /\ commands' = Append(commands, c) /\ c.method = m
            /\ c.action = "restart"
        BY <1>1, <1>2, <1>4, <2>3 DEF Commands
      <3> QED
        BY <1>3, <1>5, <1>7, <2>1, <2>2, <2>3, <3>1
    <2>4. CASE ~settings.autostart
      <3>1. commands' = commands
        BY <1>2, <1>7, <2>4
      <3> QED
        BY <1>3, <1>5, <1>7, <2>1, <2>2, <2>4, <3>1
    <2> QED
      BY <2>3, <2>4
  <1> QED
    BY <1>6, <1>7

LEMMA StartFinishedHeld ==
    ASSUME TypeInv, Held, StartFinished
    PROVE  /\ Held' /\ rt'.method = rt.method /\ startThread'.stage = "quitting"
           /\ restart' = finish_restart_request(restart, restart.activeStart)
           /\ startThread.stage = "done"
           /\ UNCHANGED <<settings, commands, stopPolls, stopThread, engines, spent>>
  <1>1. rt \in RuntimeStates /\ startThread \in StartThreads
    BY DEF TypeInv, TypeOK
  <1>2. /\ startThread.stage = "done" /\ startThread'.stage = "quitting"
        /\ rt' = mark_running(rt, startThread.pid)
        /\ UNCHANGED <<stopThread, engines>>
    BY <1>1 DEF StartFinished, finishedFrame, Held, OneEngine, StartThreads
  <1>3. /\ working(startThread) /\ ~working(startThread') /\ ~working(stopThread)
        /\ rt.pid = NoPid /\ engines # {}
        /\ \A e \in engines : startThread.pid \in {e.pid, NoPid}
    BY <1>2 DEF Held, OneEngine, OneWorker, working
  <1>4. /\ rt'.phase = "running" /\ rt'.method = rt.method
        /\ rt'.pid = startThread.pid
    BY <1>1, <1>2, <1>3 DEF mark_running, RuntimeStates
  <1>5. Held'
    BY <1>2, <1>3, <1>4 DEF Held, OneEngine, OneWorker, PhaseTrue, Single, working
  <1> QED
    BY <1>2, <1>4, <1>5 DEF StartFinished, finishedFrame

\* A stop made for a restart goes on with the start; any other leaves the phase
\* "stopped".
LEMMA StopFinishedHeld ==
    ASSUME TypeInv, Held, scan.stage = "off", StopFinished
    PROVE  /\ Held' /\ engines = {} /\ working(stopThread) /\ stopThread'.stage = "quitting"
           /\ UNCHANGED <<settings, commands, stopPolls, engines, spent>>
           /\ LET s == clear_served_force(restart)
                  g == restart.pendingStop
              IN  IF g > restart.completed
                  THEN /\ restart' = [s EXCEPT !.pendingStop = 0,
                                                !.activeStart = max(g, s.requested)]
                       /\ ~isRunning(startThread) /\ startThread'.stage = "prepare"
                       /\ startThread'.method = requested_launch_method(rt, s.target)
                  ELSE restart' = s /\ UNCHANGED startThread /\ rt'.method = rt.method
  <1> DEFINE s == clear_served_force(restart)
             g == restart.pendingStop
  <1>1. /\ rt \in RuntimeStates /\ restart \in RestartFields
    BY DEF TypeInv, TypeOK
  <1>2. /\ stopThread.stage = "done" /\ stopThread.ok /\ engines = {}
        /\ stopThread'.stage = "quitting"
        /\ UNCHANGED <<settings, commands, stopPolls, engines, spent>>
    BY DEF StopFinished, finishedFrame, Held, OneEngine, TypeInv, TypeOK, StopThreads
  <1>3. /\ working(stopThread) /\ ~isRunning(startThread) /\ ~working(stopThread')
    BY <1>2 DEF Held, OneWorker, working
  <1>4. s.completed = restart.completed /\ g \in Nat /\ s.completed \in Nat
    BY <1>1 DEF clear_served_force, RestartFields
  <1>5. CASE g > restart.completed
    <2>1. /\ restart' = [s EXCEPT !.pendingStop = 0, !.activeStart = max(g, s.requested)]
          /\ start_dpi_async(mark_stopped(rt), FALSE, s.target)
      <3>1. g > s.completed /\ ~(g <= s.completed)
        BY <1>4, <1>5
      <3> HIDE DEF s, g
      <3> QED
        BY <1>2, <3>1 DEF StopFinished, s, g
    <2> DEFINE method == requested_launch_method(mark_stopped(rt), s.target)
    <2>2. /\ rt' = begin_start(mark_stopped(rt), method)
          /\ startThread' = [IdleStart EXCEPT !.stage = "prepare", !.method = method]
      BY <1>3, <2>1 DEF start_dpi_async, ScanActive
    <2>3. method = requested_launch_method(rt, s.target)
      BY <1>1 DEF requested_launch_method, mark_stopped, RuntimeStates
    <2>4. startThread'.stage = "prepare" /\ startThread'.method = method
      BY <2>2 DEF IdleStart
    <2> HIDE DEF method
    <2>5. Held'
      BY <1>2, <1>3, <2>2, HeldStart
    <2> QED
      BY <1>2, <1>3, <1>5, <2>1, <2>3, <2>4, <2>5
  <1>6. CASE ~(g > restart.completed)
    <2>1. /\ rt' = mark_stopped(rt) /\ restart' = s /\ UNCHANGED startThread
      <3>1. g <= s.completed /\ ~(g > s.completed)
        BY <1>4, <1>6
      <3> HIDE DEF s, g
      <3> QED
        BY <1>2, <3>1 DEF StopFinished, s, g
    <2>2. rt'.phase = "stopped" /\ rt'.method = rt.method /\ rt'.pid = NoPid
      BY <1>1, <2>1 DEF mark_stopped, RuntimeStates
    <2>3. ~working(startThread)
      BY <1>3 DEF working, isRunning
    <2>4. Held'
      BY <1>2, <1>3, <2>1, <2>2, <2>3
      DEF Held, OneEngine, OneWorker, PhaseTrue, Single, working
    <2> QED
      BY <1>2, <1>3, <1>6, <2>1, <2>2, <2>4
  <1> QED
    BY <1>5, <1>6

\* Nothing fails here, so the worker of a start clears the place, spawns into it
\* or takes over, all in its own mode.
LEMMA StartWorkerHeld ==
    ASSUME TypeInv, Held, StartPrepare \/ StartSpawn, ~Spend("fail"), ~Spend("killfail")
    PROVE  /\ Held' /\ UNCHANGED <<rt, stopThread>>
           /\ working(startThread) /\ working(startThread')
           /\ startThread'.method = startThread.method
           /\ \A e \in engines' : e.method = startThread.method
  <1> DEFINE t == startThread
  <1>1. t \in StartThreads
    BY DEF TypeInv, TypeOK
  <1>2. UNCHANGED <<rt, stopThread>>
    BY DEF StartPrepare, StartSpawn, workerFrame, published
  <1>3. working(t)
    BY DEF StartPrepare, StartSpawn, working
  <1>4. \/ engines' = {} /\ t' = [t EXCEPT !.stage = "spawn"]
        \/ \E p \in fresh_pids :
              /\ engines' = {[method |-> t.method, pid |-> p]}
              /\ \E q \in {p, NoPid} :
                    t' = [t EXCEPT !.stage = "done", !.ok = TRUE, !.pid = q]
    <2>1. CASE StartPrepare
      <3>1. CASE shutdown_runtime_sync /\ t' = [t EXCEPT !.stage = "spawn"]
        BY <3>1 DEF shutdown_runtime_sync
      <3>2. CASE /\ t.method = ZAPRET2_MODE
                 /\ \E e \in engines : exe_of(e) = EXE_NAME_WINWS2
                 /\ \E p \in fresh_pids :
                       /\ engines' = {e \in engines : exe_of(e) # EXE_NAME_WINWS2}
                                        \cup {[method |-> ZAPRET2_MODE, pid |-> p]}
                       /\ t' = [t EXCEPT !.stage = "done", !.ok = TRUE, !.pid = p]
        <4>1. {e \in engines : exe_of(e) # EXE_NAME_WINWS2} = {}
          BY <3>2 DEF Held, OneEngine, Single
        <4> QED
          BY <3>2, <4>1
      <3> QED
        BY <2>1, <3>1, <3>2 DEF StartPrepare
    <2>2. CASE StartSpawn
      <3>1. engines \ own(t.method) = {}
        BY <2>2 DEF StartSpawn, Held, OneEngine
      <3>2. PICK p \in fresh_pids :
                /\ engines' = (engines \ own(t.method)) \cup {[method |-> t.method, pid |-> p]}
                /\ t' = [t EXCEPT !.stage = "done", !.ok = TRUE,
                                  !.pid = IF t.method = ORCHESTRA_MODE THEN NoPid ELSE p]
        BY <2>2 DEF StartSpawn
      <3> QED
        BY <3>1, <3>2
    <2> QED
      BY <2>1, <2>2
  <1>5. CASE engines' = {} /\ t' = [t EXCEPT !.stage = "spawn"]
    <2>1. t'.stage = "spawn" /\ t'.method = t.method
      BY <1>1, <1>5 DEF StartThreads
    <2> QED
      BY <1>2, <1>3, <1>5, <2>1 DEF Held, OneEngine, OneWorker, PhaseTrue, Single, working
  <1>6. CASE \E p \in fresh_pids :
                /\ engines' = {[method |-> t.method, pid |-> p]}
                /\ \E q \in {p, NoPid} :
                      t' = [t EXCEPT !.stage = "done", !.ok = TRUE, !.pid = q]
    <2>1. PICK p \in fresh_pids, q \in Pids \cup {NoPid} :
              /\ q \in {p, NoPid}
              /\ engines' = {[method |-> t.method, pid |-> p]}
              /\ t' = [t EXCEPT !.stage = "done", !.ok = TRUE, !.pid = q]
      BY <1>6 DEF fresh_pids
    <2>2. t'.stage = "done" /\ t'.method = t.method /\ t'.ok /\ t'.pid = q
      BY <1>1, <2>1 DEF StartThreads
    <2>3. /\ engines' # {}
          /\ \A e \in engines' : e.method = t.method /\ e.pid = p
          /\ \A e, f \in engines' : e = f
          /\ \A e \in engines' : q \in {e.pid, NoPid}
      BY <2>1
    <2>4. /\ rt.phase \in {"starting", "stopping"} /\ rt.pid = NoPid
          /\ rt.method = t.method /\ ~working(stopThread)
      BY <1>3 DEF Held, OneWorker
    <2>5. OneEngine'
      BY <1>2, <2>2, <2>3, <2>4 DEF OneEngine, Single, working
    <2>6. OneWorker'
      BY <1>2, <2>2, <2>4 DEF OneWorker, working
    <2>7. PhaseTrue'
      BY <1>2, <2>3, <2>4 DEF PhaseTrue
    <2> QED
      BY <1>2, <1>3, <2>2, <2>3, <2>5, <2>6, <2>7 DEF Held, working
  <1> QED
    BY <1>4, <1>5, <1>6

\* Nor does an engine survive a stop.
LEMMA StopWorkerHeld ==
    ASSUME TypeInv, Held, StopKill \/ StopProbe, ~Spend("killfail")
    PROVE  /\ Held' /\ UNCHANGED <<rt, startThread>> /\ engines' = {}
           /\ working(stopThread) /\ stopThread'.stage \in {"probe", "done"}
  <1>1. /\ stopThread \in StopThreads /\ UNCHANGED <<rt, startThread>>
        /\ working(stopThread)
    BY DEF TypeInv, TypeOK, StopKill, StopProbe, workerFrame, published, working
  <1>2. /\ engines' = {}
        /\ \/ stopThread'.stage = "probe"
           \/ stopThread'.stage = "done" /\ stopThread'.ok
    <2>1. CASE StopKill
      BY <1>1, <2>1 DEF StopKill, shutdown_runtime_sync, StopThreads
    <2>2. CASE StopProbe
      BY <1>1, <2>2 DEF StopProbe, Held, OneEngine, StopThreads
    <2> QED
      BY <2>1, <2>2
  <1>3. rt.phase = "stopping" /\ ~isRunning(startThread) /\ ~working(startThread)
    BY <1>1 DEF Held, OneWorker, working, isRunning
  <1> QED
    BY <1>1, <1>2, <1>3 DEF Held, OneEngine, OneWorker, PhaseTrue, Single, working, isRunning

LEMMA ThreadExitsHeld ==
    ASSUME Held, ThreadExits
    PROVE  /\ Held' /\ UNCHANGED <<rt, engines>>
           /\ startThread' = startThread \/ (~working(startThread) /\ startThread' = IdleStart)
           /\ stopThread' = stopThread \/ stopThread' = IdleStop
  <1>1. /\ UNCHANGED <<rt, engines>>
        /\ \/ startThread' = startThread
           \/ startThread.stage = "quitting" /\ startThread' = IdleStart
        /\ \/ stopThread' = stopThread
           \/ stopThread.stage = "quitting" /\ stopThread' = IdleStop
    <2>1. UNCHANGED <<rt, engines>>
      BY DEF ThreadExits, finishedFrame, published
    <2>2. \/ startThread' = startThread
          \/ startThread.stage = "quitting" /\ startThread' = IdleStart
      BY DEF ThreadExits
    <2>3. \/ stopThread' = stopThread
          \/ stopThread.stage = "quitting" /\ stopThread' = IdleStop
      BY DEF ThreadExits
    <2> QED
      BY <2>1, <2>2, <2>3
  <1>2. IdleStart.stage = "idle" /\ IdleStop.stage = "idle"
    BY DEF IdleStart, IdleStop
  <1> QED
    BY <1>1, <1>2 DEF Held, OneEngine, OneWorker, PhaseTrue, Single, working, isRunning

\* The user starts the engine, in the published mode; refused while a start
\* thread has not gone.
LEMMA UserStartHeld ==
    ASSUME TypeInv, Held, scan.stage = "off", UserStart
    PROVE  /\ Held' /\ UNCHANGED <<engines, stopThread>> /\ rt.phase = "stopped"
           /\ rt'.method = rt.method /\ engines = {}
           /\ startThread' = startThread \/ ~working(startThread)
  <1>1. /\ rt.phase = "stopped" /\ engines = {} /\ ~working(stopThread)
        /\ UNCHANGED <<engines, stopThread>>
        /\ start_dpi_async(rt, busy, NoMethod)
    BY DEF UserStart, Held, OneWorker, PhaseTrue
  <1>2. CASE isRunning(startThread)
    <2>1. UNCHANGED <<rt, startThread>>
      BY <1>1, <1>2 DEF start_dpi_async
    <2> QED
      BY <1>1, <2>1, HeldSame
  <1>3. CASE ~isRunning(startThread)
    <2>1. /\ rt' = begin_start(rt, rt.method)
          /\ startThread' = [IdleStart EXCEPT !.stage = "prepare", !.method = rt.method]
      BY <1>1, <1>3 DEF start_dpi_async, ScanActive, requested_launch_method
    <2>2. Held'
      BY <1>1, <2>1, HeldStart
    <2>3. rt'.method = rt.method
      BY <2>1 DEF begin_start
    <2> QED
      BY <1>1, <1>3, <2>2, <2>3 DEF working, isRunning
  <1> QED
    BY <1>2, <1>3

-----------------------------------------------------------------------------
(* With autostart: every change of mode is a restart.                         *)

\* The same request, with what the engine and the mode keep.
LEMMA RestartsKept ==
    ASSUME TypeInv, RestartsFollow, UNCHANGED <<settings, commands, restart>>,
           rt'.method = rt.method,
           \/ startThread' = startThread
           \/ restart.activeStart = 0
           \/ working(startThread') /\ startThread'.method = startThread.method,
           \/ engines' \subseteq engines
           \/ \A e \in engines' : e.method = rt.method
    PROVE  RestartsFollow'
  <1>1. Newest(restart, commands)'
    BY DEF RestartsFollow, Newest, mode
  <1>2. ActiveStart'
    <2>1. CASE restart.activeStart = 0
      <3>1. ~(restart.activeStart > 0)
        BY <2>1
      <3>2. pendingRestart => restart.activeStart # restart.requested
        BY <2>1 DEF pendingRestart, RestartsFollow, Newest, TypeInv, TypeOK, RestartFields
      <3> QED
        BY <3>1, <3>2 DEF ActiveStart, pendingRestart
    <2>2. CASE restart.activeStart # 0
      BY <2>2 DEF RestartsFollow, ActiveStart, pendingRestart, working
    <2> QED
      BY <2>1, <2>2
  <1>3. (commands = <<>> /\ ~pendingRestart => InMode)'
    BY DEF RestartsFollow, InMode, mode, pendingRestart
  <1> QED
    BY <1>1, <1>2, <1>3 DEF RestartsFollow, mode

\* A pending request is taken up, an old one or the one a command makes.
LEMMA RestartsTaken ==
    ASSUME TypeInv, Held, scan.stage = "off", RestartsFollow,
           NEW b, NEW s \in RestartFields, NEW retry,
           process_pending_restart_request(rt, b, s, retry),
           UNCHANGED <<engines, settings>>,
           \/ s = restart /\ commands' = commands
           \/ /\ s.requested > restart.requested /\ s.requested > s.completed
              /\ s.activeStart = restart.activeStart
              /\ \A i \in 1..Len(commands') : commands'[i].action = "restart"
              /\ commands' # <<>> => commands'[Len(commands')].method = mode,
           Newest(s, commands')
    PROVE  Held' /\ RestartsFollow'
  <1>1. /\ restart \in RestartFields
        /\ s.requested \in Nat /\ s.completed \in Nat /\ s.activeStart \in Nat
        /\ restart.requested \in Nat /\ restart.activeStart \in Nat /\ s.target \in MethodOrNone
    BY DEF TypeInv, TypeOK, RestartFields, MethodOrNone
  <1>2. /\ Held'
        /\ \/ /\ restart' \in {s, [s EXCEPT !.pendingStop = s.requested]}
              /\ UNCHANGED startThread /\ rt'.method = rt.method
           \/ /\ s.requested > s.completed
              /\ restart' = [s EXCEPT !.activeStart = s.requested]
              /\ ~isRunning(startThread) /\ startThread'.stage = "prepare"
              /\ startThread'.method = requested_launch_method(rt, s.target)
    BY RestartPlain
  <1>3. /\ \A i \in 1..Len(commands') : commands'[i].action = "restart"
        /\ commands' # <<>> => commands'[Len(commands')].method = mode'
        /\ mode' = mode
    BY DEF RestartsFollow, mode
  <1>4. s.activeStart = restart.activeStart /\ s.activeStart <= restart.requested
    BY DEF RestartsFollow, Newest
  <1>5. CASE /\ restart' \in {s, [s EXCEPT !.pendingStop = s.requested]}
             /\ UNCHANGED startThread /\ rt'.method = rt.method
    <2>1. /\ restart'.requested = s.requested /\ restart'.completed = s.completed
          /\ restart'.activeStart = s.activeStart /\ restart'.target = s.target
          /\ restart'.pendingStop \in {s.pendingStop, s.requested}
      BY <1>5 DEF RestartFields
    <2>2. Newest(restart, commands)'
      BY <1>1, <1>3, <2>1 DEF Newest, mode
    <2>3. ActiveStart'
      <3>1. restart'.activeStart > 0 => working(startThread')
        BY <1>4, <1>5, <2>1 DEF RestartsFollow, ActiveStart
      <3>2. CASE s = restart
        BY <1>5, <2>1, <3>1, <3>2 DEF RestartsFollow, ActiveStart, pendingRestart
      <3>3. CASE s.requested > restart.requested
        <4>1. restart'.activeStart # restart'.requested
          BY <1>1, <1>4, <2>1, <3>3
        <4> QED
          BY <3>1, <4>1 DEF ActiveStart
      <3> QED
        BY <3>2, <3>3
    <2>4. (commands = <<>> /\ ~pendingRestart => InMode)'
      BY <1>3, <1>5, <2>1 DEF RestartsFollow, InMode, pendingRestart
    <2> QED
      BY <1>2, <1>3, <2>2, <2>3, <2>4 DEF RestartsFollow
  <1>6. CASE /\ s.requested > s.completed
             /\ restart' = [s EXCEPT !.activeStart = s.requested]
             /\ startThread'.stage = "prepare"
             /\ startThread'.method = requested_launch_method(rt, s.target)
    <2>1. /\ restart'.requested = s.requested /\ restart'.completed = s.completed
          /\ restart'.activeStart = s.requested /\ restart'.target = s.target
          /\ restart'.pendingStop = s.pendingStop
      BY <1>6 DEF RestartFields
    <2>2. Newest(restart, commands)'
      BY <1>1, <1>3, <2>1 DEF Newest, mode
    <2>3. ActiveStart'
      <3>1. startThread'.method = s.target
        BY <1>6 DEF Newest, requested_launch_method
      <3> QED
        BY <1>6, <2>1, <3>1 DEF ActiveStart, working
    <2>4. pendingRestart'
      BY <1>6, <2>1 DEF pendingRestart
    <2> QED
      BY <1>2, <1>3, <2>2, <2>3, <2>4 DEF RestartsFollow
  <1> QED
    BY <1>2, <1>5, <1>6

\* The commands left, when the first one is carried out.
LEMMA CommandTaken ==
    ASSUME TypeInv, commands # <<>>, commands' = Tail(commands)
    PROVE  /\ commands \in Seq(Commands) /\ Head(commands) \in Commands
           /\ Head(commands) = commands[1] /\ 1 \in 1..Len(commands)
           /\ \A i \in 1..Len(commands') :
                i + 1 \in 1..Len(commands) /\ commands'[i] = commands[i + 1]
           /\ commands' = <<>> => Head(commands) = commands[Len(commands)]
           /\ commands' # <<>> => commands'[Len(commands')] = commands[Len(commands)]
  <1>1. commands \in Seq(Commands)
    BY DEF TypeInv, TypeOK
  <1>2. /\ Head(commands) \in Commands /\ Tail(commands) \in Seq(Commands)
        /\ Head(commands) = commands[1]
    BY <1>1, HeadTailProperties
  <1>3. /\ Len(commands') = Len(commands) - 1 /\ Len(commands) \in Nat /\ Len(commands) > 0
        /\ \A i \in 1..Len(commands') : commands'[i] = commands[i + 1]
    BY <1>1, HeadTailProperties, EmptySeq
  <1>4. commands' = <<>> => Len(commands) = 1
    BY <1>3
  <1>5. commands' # <<>> => Len(commands') > 0
    BY <1>2, EmptySeq
  <1> QED
    BY <1>1, <1>2, <1>3, <1>4, <1>5

\* The commands, when one is queued.
LEMMA CommandQueued ==
    ASSUME TypeInv, NEW c \in Commands, commands' = Append(commands, c)
    PROVE  /\ commands' # <<>> /\ commands'[Len(commands')] = c
           /\ \A i \in 1..Len(commands') : 
                \/ commands'[i] = c
                \/ i \in 1..Len(commands) /\ commands'[i] = commands[i]
  <1>1. commands \in Seq(Commands)
    BY DEF TypeInv, TypeOK
  <1>2. /\ Len(commands') = Len(commands) + 1 /\ Len(commands) \in Nat
        /\ \A i \in 1..Len(commands) : commands'[i] = commands[i]
        /\ commands'[Len(commands) + 1] = c /\ commands' # <<>>
    BY <1>1, AppendProperties
  <1>3. \A i \in 1..Len(commands') : i \in 1..Len(commands) \/ i = Len(commands) + 1
    BY <1>2
  <1> QED
    BY <1>2, <1>3

\* A change of mode.
LEMMA RestartsChange ==
    ASSUME TypeInv, Held, RestartsFollow, settings.autostart,
           NEW m \in SelectableMethods, ChangeMethod(m)
    PROVE  Held' /\ RestartsFollow'
  <1>1. /\ Held' /\ mode' = m
        /\ \E c \in Commands :
              commands' = Append(commands, c) /\ c.method = m /\ c.action = "restart"
    BY ChangeHeld
  <1>2. UNCHANGED <<restart, startThread, engines>>
    BY DEF ChangeMethod, threads
  <1>3. /\ commands' # <<>> /\ commands'[Len(commands')].method = m
        /\ \A i \in 1..Len(commands') : commands'[i].action = "restart"
    BY <1>1, CommandQueued DEF RestartsFollow
  <1>4. Newest(restart, commands)' /\ ActiveStart'
    BY <1>2, <1>3 DEF RestartsFollow, Newest, ActiveStart, working, pendingRestart
  <1> QED
    BY <1>1, <1>3, <1>4 DEF RestartsFollow

\* The restart of the command that is carried out is the newest one.
LEMMA RestartsCommand ==
    ASSUME TypeInv, Held, scan.stage = "off", RestartsFollow, RunCommand
    PROVE  Held' /\ RestartsFollow'
  <1> DEFINE c == Head(commands)
             g == restart.requested + 1
             s == [restart EXCEPT !.requested = g, !.target = c.method,
                                  !.forceStop = IF c.force THEN g ELSE @]
  <1>1. commands # <<>> /\ commands' = Tail(commands) /\ UNCHANGED <<engines, settings>>
    BY DEF RunCommand
  <1>2. /\ c \in Commands /\ c = commands[1] /\ 1 \in 1..Len(commands)
        /\ \A i \in 1..Len(commands') : i + 1 \in 1..Len(commands) /\ commands'[i] = commands[i + 1]
        /\ commands' = <<>> => c = commands[Len(commands)]
        /\ commands' # <<>> => commands'[Len(commands')] = commands[Len(commands)]
    BY <1>1, CommandTaken
  <1>3. c.action = "restart" /\ c.method # NoMethod /\ c.method \in MethodOrNone
        /\ (commands' = <<>> => c.method = mode)
    BY <1>1, <1>2 DEF RestartsFollow, Commands, ALL_LAUNCH_METHODS, NoMethod, MethodOrNone,
                      ZAPRET1_MODE, ZAPRET2_MODE, ORCHESTRA_MODE
  <1>4. process_pending_restart_request(rt, busy, s, restartRetry)
    BY <1>3 DEF RunCommand, restart_dpi_async
  <1>5. /\ \A i \in 1..Len(commands') : commands'[i].action = "restart"
        /\ commands' # <<>> => commands'[Len(commands')].method = mode
    BY <1>1, <1>2 DEF RestartsFollow
  <1>6. /\ restart \in RestartFields /\ g \in Nat /\ g > restart.requested
        /\ restart.requested \in Nat /\ restart.completed \in Nat
        /\ restart.activeStart \in Nat /\ restart.pendingStop \in Nat
    BY DEF TypeInv, TypeOK, RestartFields
  <1>7. c.force \in BOOLEAN
    BY <1>2 DEF Commands
  <1>8. /\ s \in RestartFields /\ s.requested = g /\ s.target = c.method
        /\ s.completed = restart.completed /\ s.activeStart = restart.activeStart
        /\ s.pendingStop = restart.pendingStop
    <2> HIDE DEF g, c
    <2> QED
      BY <1>3, <1>6, <1>7 DEF RestartFields, MethodOrNone
  <1> HIDE DEF g, c, s
  <1>9. Newest(s, commands')
    BY <1>3, <1>6, <1>8 DEF RestartsFollow, Newest
  <1>10. s.requested > restart.requested /\ s.requested > s.completed
    BY <1>6, <1>8 DEF RestartsFollow, Newest
  <1> QED
    BY <1>1, <1>4, <1>5, <1>8, <1>9, <1>10, RestartsTaken

\* The start that ends was made for the newest request, or the request stays.
LEMMA RestartsStarted ==
    ASSUME TypeInv, Held, RestartsFollow, StartFinished
    PROVE  Held' /\ RestartsFollow'
  <1> DEFINE a == restart.activeStart
  <1>1. /\ Held' /\ rt'.method = rt.method /\ startThread'.stage = "quitting"
        /\ restart' = finish_restart_request(restart, a)
        /\ startThread.stage = "done"
        /\ UNCHANGED <<settings, commands, stopPolls, stopThread, engines, spent>>
    BY StartFinishedHeld
  <1>2. CASE a = 0
    <2>1. restart' = restart
      BY <1>1, <1>2 DEF finish_restart_request
    <2> QED
      BY <1>1, <1>2, <2>1, RestartsKept
  <1>3. CASE a # 0
    <2>1. /\ restart \in RestartFields /\ a \in Nat
          /\ restart.requested \in Nat /\ restart.completed \in Nat /\ restart.pendingStop \in Nat
      BY DEF TypeInv, TypeOK, RestartFields
    <2>2. /\ restart'.requested = restart.requested
          /\ restart'.completed = max(restart.completed, a)
          /\ restart'.activeStart = 0 /\ restart'.pendingStop = restart.pendingStop
          /\ restart'.target = IF a >= restart.requested THEN NoMethod ELSE restart.target
      BY <1>1, <1>3, <2>1 DEF finish_restart_request, RestartFields
    <2>3. a <= restart.requested /\ restart.completed <= restart.requested
          /\ restart.pendingStop <= restart.requested
      BY DEF RestartsFollow, Newest
    <2> HIDE DEF a
    <2>4. /\ restart'.completed <= restart'.requested
          /\ restart.completed <= restart'.completed
          /\ restart'.requested > restart'.completed =>
                ~(a >= restart.requested) /\ restart.requested > restart.completed
          /\ ~(restart'.requested > restart'.completed) =>
                a = restart.requested \/ ~(restart.requested > restart.completed)
      BY <2>1, <2>2, <2>3 DEF max
    <2>5. Newest(restart, commands)'
      BY <1>1, <2>1, <2>2, <2>3, <2>4 DEF RestartsFollow, Newest, mode
    <2>6. ActiveStart'
      BY <2>1, <2>2, <2>4 DEF ActiveStart, pendingRestart
    <2>7. ASSUME commands' = <<>>, ~pendingRestart' PROVE InMode'
      <3>1. a = restart.requested \/ ~(restart.requested > restart.completed)
        BY <2>4, <2>7 DEF pendingRestart
      <3>2. CASE ~(restart.requested > restart.completed)
        BY <1>1, <2>7, <3>2 DEF RestartsFollow, InMode, pendingRestart, mode
      <3>3. CASE restart.requested > restart.completed /\ a = restart.requested
        <4>1. startThread.method = mode
          BY <1>1, <2>7, <3>3 DEF a, RestartsFollow, ActiveStart, Newest, pendingRestart
        <4>2. rt.method = mode /\ \A e \in engines : e.method = mode
          BY <1>1, <4>1 DEF Held, OneEngine, OneWorker, working
        <4> QED
          BY <1>1, <4>2 DEF InMode, mode
      <3> QED
        BY <3>1, <3>2, <3>3
    <2> QED
      BY <1>1, <2>5, <2>6, <2>7 DEF RestartsFollow, mode
  <1> QED
    BY <1>2, <1>3

\* The stop that ends goes on with a start for the newest request.
LEMMA RestartsStopped ==
    ASSUME TypeInv, Held, scan.stage = "off", RestartsFollow, StopFinished
    PROVE  Held' /\ RestartsFollow'
  <1> DEFINE s == clear_served_force(restart)
             g == restart.pendingStop
  <1>1. /\ restart \in RestartFields /\ g \in Nat
        /\ restart.requested \in Nat /\ restart.completed \in Nat /\ restart.activeStart \in Nat
    BY DEF TypeInv, TypeOK, RestartFields
  <1>2. /\ s \in RestartFields /\ s.requested = restart.requested
        /\ s.completed = restart.completed /\ s.target = restart.target
        /\ s.activeStart = restart.activeStart /\ s.pendingStop = g
    BY <1>1 DEF clear_served_force, RestartFields
  <1>3. /\ Held' /\ working(stopThread)
        /\ UNCHANGED <<settings, commands, engines>>
        /\ IF g > restart.completed
           THEN /\ restart' = [s EXCEPT !.pendingStop = 0, !.activeStart = max(g, s.requested)]
                /\ ~isRunning(startThread) /\ startThread'.stage = "prepare"
                /\ startThread'.method = requested_launch_method(rt, s.target)
           ELSE restart' = s /\ UNCHANGED startThread /\ rt'.method = rt.method
    BY StopFinishedHeld
  <1>4. g <= restart.requested /\ restart.completed <= restart.requested
    BY DEF RestartsFollow, Newest
  <1> HIDE DEF s, g
  <1>5. CASE g > restart.completed
    <2>1. max(g, s.requested) = restart.requested /\ restart.requested > restart.completed
      BY <1>1, <1>2, <1>4, <1>5 DEF max
    <2>2. /\ restart'.requested = restart.requested /\ restart'.completed = restart.completed
          /\ restart'.target = restart.target /\ restart'.pendingStop = 0
          /\ restart'.activeStart = restart.requested
      BY <1>2, <1>3, <1>5, <2>1 DEF RestartFields
    <2>3. restart.target # NoMethod
      BY <2>1 DEF RestartsFollow, Newest
    <2>4. /\ startThread'.stage = "prepare" /\ startThread'.method = restart.target
      BY <1>2, <1>3, <1>5, <2>3 DEF requested_launch_method
    <2>5. Newest(restart, commands)'
      BY <1>1, <1>3, <2>2 DEF RestartsFollow, Newest, mode
    <2>6. ActiveStart' /\ pendingRestart'
      BY <2>1, <2>2, <2>4 DEF ActiveStart, pendingRestart, working
    <2> QED
      BY <1>3, <2>5, <2>6 DEF RestartsFollow, mode
  <1>6. CASE ~(g > restart.completed)
    <2>1. restart' = s /\ UNCHANGED startThread /\ rt'.method = rt.method
      BY <1>3, <1>6
    <2>2. Newest(restart, commands)' /\ ActiveStart' /\ pendingRestart' = pendingRestart
      BY <1>1, <1>2, <1>3, <2>1, <1>4
      DEF RestartsFollow, Newest, ActiveStart, pendingRestart, mode, working, g
    <2> QED
      BY <1>3, <2>1, <2>2 DEF RestartsFollow, InMode, mode
  <1> QED
    BY <1>5, <1>6

-----------------------------------------------------------------------------
(* Without it: every change of mode stops the engine.                         *)

\* A stop is asked for, by the user, a command or a timer that waited for a
\* start: it is refused only while another one has done its work.
LEMMA StopsAsked ==
    ASSUME TypeInv, Held, StopsFollow, spent["start"] # 0,
           spent'["start"] = spent["start"],
           NEW b, NEW force \in BOOLEAN, NEW polls \in [BOOLEAN -> Nat],
           stop_dpi_async(rt, b, force, polls, FALSE),
           UNCHANGED <<settings, restart, engines, startThread>>,
           \A i \in 1..Len(commands') : commands'[i].action = "stop"
    PROVE  Held' /\ StopsFollow'
  <1>1. /\ Held' /\ rt'.method = rt.method
        /\ \/ /\ isRunning(stopThread) /\ stopPolls' = polls
              /\ UNCHANGED <<rt, stopThread>>
           \/ /\ isRunning(startThread) /\ stopPolls'[force] > 0
              /\ UNCHANGED <<rt, stopThread>>
           \/ stopThread'.stage = "kill"
    BY StopPlain
  <1>2. stopThread \in StopThreads
    BY DEF TypeInv, TypeOK
  <1>3. stopComes' \/ (engines = {} /\ ~working(startThread))
    <2>1. CASE isRunning(stopThread) /\ UNCHANGED stopThread
      <3>1. CASE stopThread.stage = "kill"
        BY <2>1, <3>1 DEF stopComes
      <3>2. CASE stopThread.stage \in {"probe", "done"}
        BY <3>2 DEF Held, OneEngine, OneWorker, working, isRunning
      <3>3. CASE stopThread.stage = "quitting"
        BY <3>3 DEF StopsFollow, NoRestart, Untouched
      <3> QED
        BY <1>2, <2>1, <3>1, <3>2, <3>3 DEF StopThreads, isRunning
    <2> QED
      BY <1>1, <2>1 DEF stopComes
  <1>4. (working(startThread) \/ engines # {} => rt.method = mode \/ stopComes)'
    BY <1>3 DEF working
  <1>5. (\A e \in engines : working(startThread) \/ e.method = rt.method)'
    BY <1>1 DEF StopsFollow, NoRestart, Untouched, working
  <1>6. (stopThread.stage = "quitting" => ~working(startThread) /\ engines = {})'
    BY <1>1 DEF StopsFollow, NoRestart, Untouched, working
  <1> QED
    BY <1>1, <1>4, <1>5, <1>6 DEF StopsFollow, NoRestart, Untouched

\* A change of mode queues a stop, or nothing was under way.
LEMMA StopsChange ==
    ASSUME TypeInv, Undisturbed, Held, StopsFollow, ~settings.autostart,
           NEW m \in SelectableMethods, ChangeMethod(m)
    PROVE  Held' /\ StopsFollow'
  <1>1. /\ Held' /\ mode' = m
        /\ \/ rt'.method = rt.method
           \/ /\ rt'.method = m /\ engines = {} /\ ~isRunning(startThread)
              /\ ~pendingRestart
        /\ \/ /\ commands' = commands
              /\ rt'.method = m /\ rt'.phase = "stopped"
              /\ engines = {} /\ ~isRunning(startThread)
           \/ \E c \in Commands :
                 /\ commands' = Append(commands, c) /\ c.action = "stop"
                 /\ rt.phase # "stopped" \/ transition_pipeline_in_progress
        /\ spent'["start"] = 0 => spent["start"] = 0
    BY ChangeHeld
  <1>2. UNCHANGED <<restart, startThread, stopThread, stopPolls, engines>>
    BY DEF ChangeMethod, threads
  <1>3. CASE /\ commands' = commands
             /\ rt'.method = m /\ rt'.phase = "stopped"
             /\ engines = {} /\ ~isRunning(startThread)
    BY <1>1, <1>2, <1>3 DEF StopsFollow, NoRestart, Untouched, working, isRunning
  <1>4. CASE \E c \in Commands :
                /\ commands' = Append(commands, c) /\ c.action = "stop"
                /\ rt.phase # "stopped" \/ transition_pipeline_in_progress
    <2>1. /\ commands' # <<>>
          /\ \A i \in 1..Len(commands') : commands'[i].action = "stop"
      BY <1>4, CommandQueued DEF StopsFollow, NoRestart, Untouched
    <2>2. spent["start"] # 0
      <3>1. CASE rt.phase # "stopped"
        BY <3>1 DEF StopsFollow, NoRestart, Untouched
      <3>2. CASE transition_pipeline_in_progress
        <4>1. ~isRunning(switchThread) /\ ~(switch.requested > switch.completed)
          BY DEF Undisturbed, isRunning, TypeInv, TypeOK, SwitchFields
        <4>2. /\ ~(restart.requested > restart.completed)
              /\ ~(restart.activeStart > 0) /\ ~(restart.pendingStop > 0)
          BY DEF StopsFollow, NoRestart, Untouched
        <4>3. isRunning(startThread) \/ isRunning(stopThread)
          BY <3>2, <4>1, <4>2 DEF transition_pipeline_in_progress
        <4> QED
          BY <4>3 DEF StopsFollow, NoRestart, Untouched, isRunning
      <3> QED
        BY <1>4, <3>1, <3>2
    <2>3. (\A e \in engines : working(startThread) \/ e.method = rt.method)'
      BY <1>1, <1>2 DEF StopsFollow, NoRestart, Untouched, working
    <2>4. stopComes'
      BY <2>1 DEF stopComes
    <2> QED
      BY <1>1, <1>2, <2>1, <2>2, <2>3, <2>4 DEF StopsFollow, NoRestart, Untouched, working
  <1> QED
    BY <1>1, <1>3, <1>4

\* Every other step.
LEMMA StopsStep ==
    ASSUME TypeInv, Undisturbed, Held, StopsFollow, PlainStep, Plain', ~settings.autostart
    PROVE  Held' /\ StopsFollow'
  <1>1. /\ spent \in [Kinds -> Nat] /\ {"start", "stop", "fail", "killfail"} \subseteq Kinds
        /\ restart \in RestartFields /\ stopPolls \in [BOOLEAN -> Nat]
        /\ settings \in [method : ALL_LAUNCH_METHODS, autostart : BOOLEAN]
        /\ scan.stage = "off"
    BY DEF TypeInv, TypeOK, Kinds, Undisturbed
  <1>2. ~Spend("fail") /\ ~Spend("killfail")
    BY <1>1, NotSpent DEF Plain
  <1>4. NoRestart
    BY DEF StopsFollow, NoRestart, Untouched
  <1>5. spent["start"] = 0 => Untouched
    BY DEF StopsFollow, NoRestart, Untouched
  <1>6. CASE UserStart
    <2>1. /\ Spend("start") /\ UNCHANGED <<settings, restart, commands, stopPolls>>
      BY <1>6 DEF UserStart, Command, timers
    <2>2. spent["start"] = 0 /\ spent'["start"] # 0
      <3>1. spent'["start"] = spent["start"] + 1 /\ spent["start"] \in Nat
        BY <1>1, <2>1 DEF Spend
      <3>2. spent'["start"] <= 1
        BY <2>1, <1>1 DEF Plain
      <3> QED
        BY <3>1, <3>2
    <2>3. /\ Held' /\ UNCHANGED <<engines, stopThread>> /\ rt'.method = rt.method
          /\ engines = {}
      BY <1>1, <1>6, UserStartHeld
    <2>4. rt.method = mode /\ stopThread.stage = "idle" /\ mode' = mode
      BY <1>5, <2>1, <2>2 DEF Untouched, mode
    <2> QED
      BY <2>1, <2>2, <2>3, <2>4 DEF StopsFollow, NoRestart, Untouched
  <1>7. CASE UserStop
    <2>1. /\ Spend("stop") /\ stop_dpi_async(rt, busy, FALSE, stopPolls, FALSE)
          /\ rt.phase \in {"autostart_pending", "starting", "running"}
          /\ UNCHANGED <<settings, restart, engines, startThread, commands>>
      BY <1>7 DEF UserStop, Command
    <2>2. spent["start"] # 0 /\ spent'["start"] = spent["start"]
      BY <1>1, <1>5, <2>1 DEF Spend, Untouched
    <2> QED
      BY <1>1, <2>1, <2>2, StopsAsked DEF StopsFollow, NoRestart, Untouched
  <1>8. CASE \E force \in BOOLEAN : StopPollFires(force, FALSE)
    <2>1. PICK force \in BOOLEAN : StopPollFires(force, FALSE)
      BY <1>8
    <2> DEFINE polls == [stopPolls EXCEPT ![force] = @ - 1]
    <2>2. /\ stopPolls[force] > 0 /\ stop_dpi_async(rt, busy, force, polls, FALSE)
          /\ UNCHANGED <<settings, restart, engines, startThread, commands, spent>>
      BY <2>1 DEF StopPollFires
    <2>3. polls \in [BOOLEAN -> Nat]
      <3>1. stopPolls[force] - 1 \in Nat
        BY <1>1, <2>2
      <3> QED
        BY <1>1, <3>1
    <2>4. spent["start"] # 0
      BY <1>5, <2>2 DEF Untouched
    <2> HIDE DEF polls
    <2> QED
      BY <2>2, <2>3, <2>4, StopsAsked DEF StopsFollow, NoRestart, Untouched
  <1>9. CASE RunCommand
    <2>1. commands # <<>> /\ commands' = Tail(commands)
          /\ UNCHANGED <<settings, engines, spent>>
      BY <1>9 DEF RunCommand
    <2>2. /\ Head(commands) \in Commands /\ Head(commands) = commands[1]
          /\ 1 \in 1..Len(commands)
          /\ \A i \in 1..Len(commands') :
                i + 1 \in 1..Len(commands) /\ commands'[i] = commands[i + 1]
      BY <2>1, CommandTaken
    <2>3. Head(commands).action = "stop" /\ Head(commands).force \in BOOLEAN
      BY <2>2 DEF StopsFollow, NoRestart, Untouched, Commands
    <2>4. \A i \in 1..Len(commands') : commands'[i].action = "stop"
      BY <2>2 DEF StopsFollow, NoRestart, Untouched
    <2>5. /\ stop_dpi_async(rt, busy, Head(commands).force, stopPolls, FALSE)
          /\ UNCHANGED <<restart, startThread>>
      BY <1>9, <2>3 DEF RunCommand
    <2>6. spent["start"] # 0
      BY <1>5, <2>1 DEF Untouched
    <2> QED
      BY <1>1, <2>1, <2>3, <2>4, <2>5, <2>6, StopsAsked
  <1>10. CASE \E m \in SelectableMethods : ChangeMethod(m)
    BY <1>10, StopsChange
  <1>11. CASE RestartRetryFires \/ RestartKickFires \/ SwitchRetryFires \/ SwitchKickFires
    <2>1. UNCHANGED <<rt, restart, startThread, stopThread, stopPolls, settings, commands,
                      engines, spent>>
      <3>1. CASE RestartRetryFires \/ RestartKickFires
        <4>1. ~(restart.requested > restart.completed)
          BY <1>4 DEF NoRestart
        <4> QED
          BY <3>1, <4>1
          DEF RestartRetryFires, RestartKickFires, process_pending_restart_request, timerFrame
      <3>2. CASE SwitchRetryFires \/ SwitchKickFires
        <4>1. ~(switch.requested > switch.completed)
          BY DEF Undisturbed, TypeInv, TypeOK, SwitchFields
        <4> QED
          BY <3>2, <4>1
          DEF SwitchRetryFires, SwitchKickFires, process_pending_presets_switch, timerFrame
      <3> QED
        BY <1>11, <3>1, <3>2
    <2>2. Held'
      BY <2>1, HeldSame
    <2> QED
      BY <2>1, <2>2 DEF StopsFollow, NoRestart, Untouched, stopComes, mode, working
  <1>12. CASE StartFinished
    <2>1. /\ Held' /\ rt'.method = rt.method /\ startThread'.stage = "quitting"
          /\ restart' = finish_restart_request(restart, restart.activeStart)
          /\ startThread.stage = "done"
          /\ UNCHANGED <<settings, commands, stopPolls, stopThread, engines, spent>>
      BY <1>12, StartFinishedHeld
    <2>2. restart' = restart
      BY <1>4, <2>1 DEF NoRestart, finish_restart_request
    <2>3. spent["start"] # 0
      BY <1>5, <2>1 DEF Untouched
    <2>4. working(startThread) /\ ~working(startThread')
      BY <2>1 DEF working
    <2>5. \A e \in engines : e.method = rt.method
      BY <2>1, <2>4 DEF Held, OneEngine, OneWorker
    <2> QED
      BY <1>4, <2>1, <2>2, <2>3, <2>4, <2>5 DEF StopsFollow, NoRestart, Untouched, stopComes, mode
  <1>13. CASE StopFinished
    <2>1. /\ Held' /\ engines = {} /\ working(stopThread) /\ stopThread'.stage = "quitting"
          /\ UNCHANGED <<settings, commands, stopPolls, engines, spent>>
          /\ \/ restart.pendingStop > restart.completed
             \/ /\ restart' = clear_served_force(restart)
                /\ UNCHANGED startThread /\ rt'.method = rt.method
      BY <1>1, <1>13, StopFinishedHeld
    <2>2. restart' = clear_served_force(restart) /\ UNCHANGED startThread
          /\ rt'.method = rt.method
      BY <1>4, <2>1 DEF NoRestart
    <2>3. NoRestart'
      BY <1>1, <1>4, <2>2 DEF NoRestart, clear_served_force, RestartFields
    <2>4. ~working(startThread) /\ ~working(startThread')
      BY <2>1, <2>2 DEF Held, OneWorker, working, isRunning
    <2>5. spent["start"] # 0
      BY <1>5, <2>1 DEF Untouched, working
    <2> QED
      BY <2>1, <2>2, <2>3, <2>4, <2>5 DEF StopsFollow, NoRestart, Untouched, mode
  <1>14. CASE ThreadExits
    <2>1. /\ Held' /\ UNCHANGED <<rt, engines>>
          /\ startThread' = startThread \/ (~working(startThread) /\ startThread' = IdleStart)
          /\ stopThread' = stopThread \/ stopThread' = IdleStop
          /\ UNCHANGED <<settings, restart, commands, stopPolls, spent>>
      BY <1>14, ThreadExitsHeld DEF ThreadExits, finishedFrame
    <2>2. /\ working(startThread') <=> working(startThread)
          /\ stopThread'.stage \in {stopThread.stage, "idle"}
          /\ startThread'.stage \in {startThread.stage, "idle"}
          /\ stopThread.stage = "kill" => stopThread'.stage = "kill"
      BY <1>14, <2>1 DEF working, IdleStart, IdleStop, ThreadExits
    <2> QED
      BY <2>1, <2>2 DEF StopsFollow, NoRestart, Untouched, stopComes, mode
  <1>15. CASE StartPrepare \/ StartSpawn
    <2>1. /\ Held' /\ UNCHANGED <<rt, stopThread>>
          /\ working(startThread) /\ working(startThread')
      BY <1>2, <1>15, StartWorkerHeld
    <2>2. UNCHANGED <<settings, restart, commands, stopPolls>>
      BY <1>15 DEF StartPrepare, StartSpawn, workerFrame, timers
    <2>3. spent["start"] # 0 /\ UNCHANGED spent
      <3>1. spent["start"] # 0
        BY <1>5, <2>1 DEF Untouched, working
      <3>2. UNCHANGED spent
        BY <1>2, <1>15 DEF StartPrepare, StartSpawn, shutdown_runtime_sync
      <3> QED
        BY <3>1, <3>2
    <2> QED
      BY <2>1, <2>2, <2>3 DEF StopsFollow, NoRestart, Untouched, stopComes, mode
  <1>16. CASE StopKill \/ StopProbe
    <2>1. /\ Held' /\ UNCHANGED <<rt, startThread>> /\ engines' = {}
          /\ working(stopThread) /\ stopThread'.stage \in {"probe", "done"}
      BY <1>2, <1>16, StopWorkerHeld
    <2>2. UNCHANGED <<settings, restart, commands, stopPolls>>
      BY <1>16 DEF StopKill, StopProbe, workerFrame, timers
    <2>3. ~working(startThread) /\ ~working(startThread')
      BY <2>1 DEF Held, OneWorker, working, isRunning
    <2>4. spent["start"] # 0 /\ UNCHANGED spent
      <3>1. spent["start"] # 0
        BY <1>5, <2>1 DEF Untouched, working
      <3>2. UNCHANGED spent
        BY <1>2, <1>16 DEF StopKill, StopProbe, shutdown_runtime_sync
      <3> QED
        BY <3>1, <3>2
    <2> QED
      BY <2>1, <2>2, <2>3, <2>4 DEF StopsFollow, NoRestart, Untouched, mode
  <1> QED
    BY <1>6, <1>7, <1>8, <1>9, <1>10, <1>11, <1>12, <1>13, <1>14, <1>15, <1>16 DEF PlainStep

-----------------------------------------------------------------------------
(* Both, and what they say at rest.                                           *)

LEMMA RestartsStep ==
    ASSUME TypeInv, Undisturbed, Held, RestartsFollow, PlainStep, Plain', settings.autostart
    PROVE  Held' /\ RestartsFollow'
  <1>1. /\ spent \in [Kinds -> Nat] /\ {"fail", "killfail"} \subseteq Kinds
        /\ restart \in RestartFields /\ stopPolls \in [BOOLEAN -> Nat]
        /\ scan.stage = "off" /\ restart.activeStart \in Nat
    BY DEF TypeInv, TypeOK, Kinds, Undisturbed, RestartFields
  <1>2. ~Spend("fail") /\ ~Spend("killfail")
    BY <1>1, NotSpent DEF Plain
  <1>3. working(startThread) \/ restart.activeStart = 0
    BY <1>1 DEF RestartsFollow, ActiveStart
  <1>4. CASE UserStart
    <2>1. UNCHANGED <<settings, restart, commands>>
      BY <1>4 DEF UserStart, timers
    <2>2. /\ Held' /\ UNCHANGED engines /\ rt'.method = rt.method
          /\ startThread' = startThread \/ ~working(startThread)
      BY <1>1, <1>4, UserStartHeld
    <2> QED
      BY <1>3, <2>1, <2>2, RestartsKept
  <1>5. CASE UserStop \/ \E force \in BOOLEAN : StopPollFires(force, FALSE)
    <2>1. UNCHANGED <<settings, restart, commands, engines, startThread>>
      BY <1>5 DEF UserStop, StopPollFires
    <2>2. Held' /\ rt'.method = rt.method
      <3>1. CASE UserStop
        <4>1. stop_dpi_async(rt, busy, FALSE, stopPolls, FALSE)
          BY <3>1 DEF UserStop
        <4> QED
          BY <1>1, <2>1, <4>1, StopPlain
      <3>2. CASE \E force \in BOOLEAN : StopPollFires(force, FALSE)
        <4>1. PICK force \in BOOLEAN : StopPollFires(force, FALSE)
          BY <3>2
        <4> DEFINE polls == [stopPolls EXCEPT ![force] = @ - 1]
        <4>2. stopPolls[force] > 0 /\ stop_dpi_async(rt, busy, force, polls, FALSE)
          BY <4>1 DEF StopPollFires
        <4>3. polls \in [BOOLEAN -> Nat]
          <5>1. stopPolls[force] - 1 \in Nat
            BY <1>1, <4>2
          <5> QED
            BY <1>1, <5>1
        <4> HIDE DEF polls
        <4> QED
          BY <2>1, <4>2, <4>3, StopPlain
      <3> QED
        BY <1>5, <3>1, <3>2
    <2> QED
      BY <2>1, <2>2, RestartsKept
  <1>6. CASE \E m \in SelectableMethods : ChangeMethod(m)
    BY <1>6, RestartsChange
  <1>7. CASE RunCommand
    BY <1>1, <1>7, RestartsCommand
  <1>8. CASE RestartRetryFires \/ RestartKickFires
    <2>1. PICK retry : process_pending_restart_request(rt, busy, restart, retry)
      BY <1>8 DEF RestartRetryFires, RestartKickFires
    <2>2. UNCHANGED <<engines, settings, commands>>
      BY <1>8 DEF RestartRetryFires, RestartKickFires, timerFrame
    <2>3. Newest(restart, commands')
      BY <2>2 DEF RestartsFollow
    <2> QED
      BY <1>1, <2>1, <2>2, <2>3, RestartsTaken
  <1>9. CASE SwitchRetryFires \/ SwitchKickFires
    <2>1. ~(switch.requested > switch.completed)
      BY DEF Undisturbed, TypeInv, TypeOK, SwitchFields
    <2>2. UNCHANGED <<rt, restart, startThread, stopThread, settings, commands, engines>>
      BY <1>9, <2>1
      DEF SwitchRetryFires, SwitchKickFires, process_pending_presets_switch, timerFrame
    <2> QED
      BY <2>2, HeldSame, RestartsKept
  <1>10. CASE StartFinished
    BY <1>10, RestartsStarted
  <1>11. CASE StopFinished
    BY <1>1, <1>11, RestartsStopped
  <1>12. CASE ThreadExits
    <2>1. UNCHANGED <<settings, restart, commands>>
      BY <1>12 DEF ThreadExits, finishedFrame
    <2>2. /\ Held' /\ UNCHANGED <<rt, engines>>
          /\ startThread' = startThread \/ ~working(startThread)
      BY <1>12, ThreadExitsHeld
    <2> QED
      BY <1>3, <2>1, <2>2, RestartsKept
  <1>13. CASE StartPrepare \/ StartSpawn
    <2>1. UNCHANGED <<settings, restart, commands>>
      BY <1>13 DEF StartPrepare, StartSpawn, workerFrame, timers
    <2>2. /\ Held' /\ UNCHANGED <<rt, stopThread>>
          /\ working(startThread) /\ working(startThread')
          /\ startThread'.method = startThread.method
          /\ \A e \in engines' : e.method = startThread.method
      BY <1>2, <1>13, StartWorkerHeld
    <2>3. startThread.method = rt.method
      BY <2>2 DEF Held, OneWorker
    <2> QED
      BY <2>1, <2>2, <2>3, RestartsKept
  <1>14. CASE StopKill \/ StopProbe
    <2>1. UNCHANGED <<settings, restart, commands>>
      BY <1>14 DEF StopKill, StopProbe, workerFrame, timers
    <2>2. Held' /\ UNCHANGED <<rt, startThread>> /\ engines' = {}
      BY <1>2, <1>14, StopWorkerHeld
    <2> QED
      BY <2>1, <2>2, RestartsKept
  <1> QED
    BY <1>4, <1>5, <1>6, <1>7, <1>8, <1>9, <1>10, <1>11, <1>12, <1>13, <1>14 DEF PlainStep

LEMMA ModesNext ==
    ASSUME TypeInv, Plain => ModesInv, [Next]_vars, Plain'
    PROVE  ModesInv'
  <1>1. ModesInv /\ settings'.autostart = settings.autostart
    BY PlainBefore
  <1>2. CASE Next
    <2>1. PlainStep /\ Undisturbed'
      BY <1>1, <1>2, PlainSteps DEF ModesInv
    <2>2. CASE settings.autostart
      BY <1>1, <2>1, <2>2, RestartsStep DEF ModesInv
    <2>3. CASE ~settings.autostart
      BY <1>1, <2>1, <2>3, StopsStep DEF ModesInv
    <2> QED
      BY <2>2, <2>3
  <1>3. CASE UNCHANGED vars
    <2>1. UNCHANGED <<rt, restart, startThread, stopThread, stopPolls, settings, commands,
                      engines, spent>>
      BY <1>3 DEF vars, published, threads, timers
    <2>2. Undisturbed'
      BY <1>1, <1>3 DEF ModesInv, Undisturbed, vars, threads, timers, signals
    <2>3. Held'
      BY <1>1, <2>1, HeldSame DEF ModesInv
    <2>4. CASE settings.autostart
      BY <1>1, <2>1, <2>2, <2>3, <2>4, RestartsKept DEF ModesInv
    <2>5. CASE ~settings.autostart
      BY <1>1, <2>1, <2>2, <2>3, <2>5
      DEF ModesInv, StopsFollow, NoRestart, Untouched, stopComes, mode, working
    <2> QED
      BY <2>4, <2>5
  <1> QED
    BY <1>2, <1>3

\* However often the user starts and stops the engine and changes the mode while
\* the pipeline is busy with former commands, the engine that runs at rest is the
\* only one, runs in the mode selected last, and is what is published: where a
\* change restarts the engine for any number of commands of each kind, where it
\* stops it for one start.
THEOREM LastModeAlwaysWins == Spec => [](Plain => EngineAsPublished /\ LastModeWins)
  <1> DEFINE Follows == TypeInv /\ (Plain => ModesInv)
  <1>1. Init => Follows
    <2> SUFFICES ASSUME Init PROVE ModesInv
      BY InitTypes
    <2>1. /\ rt.method = mode /\ rt.phase = "stopped" /\ rt.pid = NoPid
          /\ startThread.stage = "idle" /\ stopThread.stage = "idle"
          /\ switchThread.stage = "idle"
      BY DEF Init, build_initial_ui_state, mode, IdleStart, IdleStop, IdleSwitch
    <2>2. Undisturbed
      BY <2>1 DEF Init, Undisturbed
    <2>3. Held
      BY <2>1 DEF Init, Held, OneEngine, OneWorker, PhaseTrue, Single, working
    <2>4. RestartsFollow
      BY <2>1 DEF Init, RestartsFollow, Newest, ActiveStart, InMode, pendingRestart
    <2>5. StopsFollow
      BY <2>1 DEF Init, StopsFollow, NoRestart, Untouched, working
    <2> QED
      BY <2>2, <2>3, <2>4, <2>5 DEF ModesInv
  <1>2. Follows /\ [Next]_vars => Follows'
    BY NextTypes, ModesNext
  <1>3. Follows /\ RestartNeverStranded => (Plain => EngineAsPublished /\ LastModeWins)
    <2> SUFFICES ASSUME ModesInv, Plain, RestartNeverStranded, Quiescent
                 PROVE  /\ \A e, f \in engines : e = f
                        /\ rt.phase = "running" => \E e \in engines : rt.pid \in {e.pid, NoPid}
                        /\ rt.phase = "stopped" => engines = {}
                        /\ \A e \in engines : e.method = settings.method
      BY DEF EngineAsPublished, LastModeWins
    <2>1. /\ \A e, f \in engines : e = f
          /\ rt.phase = "running" => \E e \in engines : rt.pid \in {e.pid, NoPid}
          /\ rt.phase = "stopped" => engines = {}
      BY DEF ModesInv, Held, OneEngine, PhaseTrue, Single
    <2>2. CASE settings.autostart
      <3>1. ~pendingRestart
        <4>1. spent["scan"] = 0
          BY DEF Plain, Kinds
        <4>2. ~working(startThread) /\ ~working(stopThread) /\ ~restartRetry /\ restartKicks = 0
          BY DEF Quiescent, isRunning, working
        <4> QED
          BY <4>1, <4>2 DEF RestartNeverStranded, pendingRestart
      <3> QED
        BY <2>1, <2>2, <3>1 DEF ModesInv, RestartsFollow, InMode, Quiescent, mode
    <2>3. CASE ~settings.autostart
      <3>1. ~stopComes /\ ~working(startThread)
        <4>1. \A force \in BOOLEAN : ~(stopPolls[force] > 0)
          BY DEF Quiescent
        <4> QED
          BY <4>1 DEF Quiescent, stopComes, isRunning, working
      <3> QED
        BY <2>1, <2>3, <3>1 DEF ModesInv, StopsFollow, mode
    <2> QED
      BY <2>2, <2>3
  <1> QED
    BY <1>1, <1>2, <1>3, RestartNotLost, PTL DEF Spec
=============================================================================
