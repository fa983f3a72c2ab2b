------------------------ MODULE LaunchRuntimeProofs ------------------------
(* What holds of the launch runtime for every set of modes and processes and  *)
(* for every number of commands, failures and crashes.                        *)
EXTENDS LaunchRuntime, TLAPS

\* A start thread has a launch method, and only winws is stopped before it is
\* started again: otherwise a worker could spawn an engine of no mode.
WorkersHaveMethod ==
    /\ startThread.stage # "idle" => startThread.method \in ALL_LAUNCH_METHODS
    /\ switchThread.stage = "respawn" => switchThread.method = ZAPRET1_MODE

TypeInv == TypeOK /\ WorkersHaveMethod

MethodOrNone == ALL_LAUNCH_METHODS \cup {NoMethod}


-----------------------------------------------------------------------------
(* The operators keep their types.                                            *)

\* The values the operations write.
LEMMA Values ==
    /\ "stopped" \in Phases /\ "autostart_pending" \in Phases
    /\ "starting" \in Phases /\ "running" \in Phases
    /\ "stopping" \in Phases /\ "failed" \in Phases
    /\ 0 \in 0..MissLimit
    /\ NoPid \in Pids \cup {NoPid}
    /\ NoExe \in ALL_WINWS_EXE_NAMES \cup {NoExe}
    /\ \A m : exe_name_for_launch_method(m) \in ALL_WINWS_EXE_NAMES
    /\ \A m : expected_process_name(m) \in ALL_WINWS_EXE_NAMES \cup {NoExe}
  BY DEF Phases, MissLimit, expected_process_name, exe_name_for_launch_method,
         ALL_WINWS_EXE_NAMES

\* Every operation of the runtime service leaves a runtime state.
LEMMA ServiceTypes ==
    ASSUME NEW r \in RuntimeStates
    PROVE  /\ \A m \in ALL_LAUNCH_METHODS :
                /\ begin_start(r, m) \in RuntimeStates
                /\ mark_autostart_pending(r, m) \in RuntimeStates
                /\ bootstrap_probe_running(r, m) \in RuntimeStates
                /\ bootstrap_probe_absent(r, m) \in RuntimeStates
           /\ begin_stop(r) \in RuntimeStates
           /\ \A p \in Pids \cup {NoPid} : mark_running(r, p) \in RuntimeStates
           /\ mark_start_failed(r) \in RuntimeStates
           /\ mark_stopped(r) \in RuntimeStates
  <1>1. ASSUME NEW m \in ALL_LAUNCH_METHODS
        PROVE  /\ begin_start(r, m) \in RuntimeStates
               /\ mark_autostart_pending(r, m) \in RuntimeStates
    BY Values DEF begin_start, mark_autostart_pending, RuntimeStates
  <1>2. ASSUME NEW m \in ALL_LAUNCH_METHODS
        PROVE  bootstrap_probe_running(r, m) \in RuntimeStates
    BY Values DEF bootstrap_probe_running, RuntimeStates
  <1>3. ASSUME NEW m \in ALL_LAUNCH_METHODS
        PROVE  bootstrap_probe_absent(r, m) \in RuntimeStates
    BY Values DEF bootstrap_probe_absent, RuntimeStates
  <1>4. begin_stop(r) \in RuntimeStates
    BY Values DEF begin_stop, RuntimeStates
  <1>5. ASSUME NEW p \in Pids \cup {NoPid} PROVE mark_running(r, p) \in RuntimeStates
    BY Values DEF mark_running, RuntimeStates
  <1>6. mark_start_failed(r) \in RuntimeStates
    BY Values DEF mark_start_failed, RuntimeStates
  <1>7. mark_stopped(r) \in RuntimeStates
    BY Values DEF mark_stopped, RuntimeStates
  <1> QED
    BY <1>1, <1>2, <1>3, <1>4, <1>5, <1>6, <1>7

\* So does the observation of any list of engines.
LEMMA ObserveTypes ==
    ASSUME NEW r \in RuntimeStates, NEW details \in SUBSET Engines,
           NEW live \in SUBSET Engines, NEW x \in observe_process_details(r, details, live)
    PROVE  x \in RuntimeStates
  <1>1. \A e \in Engines : e.pid \in Pids \cup {NoPid} /\ exe_of(e) \in ALL_WINWS_EXE_NAMES
    BY Values DEF Engines, exe_of
  <1>2. matched_engines(r, details) \subseteq Engines
    BY DEF matched_engines
  <1>3. ASSUME NEW e \in Engines
        PROVE  /\ mark_observed(r, e) \in RuntimeStates
               /\ [r EXCEPT !.pid = e.pid, !.expected = exe_of(e)] \in RuntimeStates
    BY <1>1, Values DEF mark_observed, RuntimeStates
  <1>4. [r EXCEPT !.miss = 0] \in RuntimeStates
    BY Values DEF RuntimeStates
  <1>5. probe_missed(r, live) \in RuntimeStates
    <2> DEFINE miss == IF r.miss < MissLimit THEN r.miss + 1 ELSE MissLimit
    <2>1. miss \in 0..MissLimit
      BY DEF RuntimeStates, MissLimit
    <2>2. [r EXCEPT !.miss = miss] \in RuntimeStates
      BY <2>1 DEF RuntimeStates
    <2> QED
      BY <2>2, <1>4, ServiceTypes DEF probe_missed
  <1> QED
    BY <1>2, <1>3, <1>4, <1>5, ServiceTypes DEF observe_process_details

\* What start_dpi_async writes is well typed, and a start has a method.
LEMMA StartCall ==
    ASSUME TypeInv, NEW r \in RuntimeStates, NEW b \in BOOLEAN,
           NEW m \in MethodOrNone, start_dpi_async(r, b, m)
    PROVE  /\ rt' \in RuntimeStates /\ busy' \in BOOLEAN
           /\ startThread' \in StartThreads
           /\ startThread'.stage # "idle" => startThread'.method \in ALL_LAUNCH_METHODS
  <1>1. requested_launch_method(r, m) \in ALL_LAUNCH_METHODS
    BY DEF requested_launch_method, MethodOrNone, RuntimeStates
  <1>2. CASE isRunning(startThread) \/ ScanActive
    BY <1>2 DEF start_dpi_async, TypeInv, TypeOK, WorkersHaveMethod
  <1>3. CASE ~(isRunning(startThread) \/ ScanActive)
    <2> DEFINE method == requested_launch_method(r, m)
               t == [IdleStart EXCEPT !.stage = "prepare", !.method = method]
    <2>1. rt' = begin_start(r, method) /\ busy' = TRUE /\ startThread' = t
      BY <1>3 DEF start_dpi_async
    <2>2. t \in StartThreads /\ t.method = method
      BY <1>1 DEF StartThreads, IdleStart
    <2> QED
      BY <2>1, <2>2, <1>1, ServiceTypes
  <1> QED
    BY <1>2, <1>3

\* What stop_dpi_async writes is well typed.
LEMMA StopCall ==
    ASSUME TypeInv, NEW r \in RuntimeStates, NEW b \in BOOLEAN,
           NEW force \in BOOLEAN, NEW polls \in [BOOLEAN -> Nat],
           NEW expired \in BOOLEAN, stop_dpi_async(r, b, force, polls, expired)
    PROVE  /\ rt' \in RuntimeStates /\ busy' \in BOOLEAN
           /\ stopThread' \in StopThreads
           /\ stopPolls' \in [BOOLEAN -> Nat]
  <1> DEFINE t == [IdleStop EXCEPT !.stage = "kill", !.force = force]
  <1>1. t \in StopThreads
    BY DEF StopThreads, IdleStop
  <1>2. [polls EXCEPT ![force] = @ + 1] \in [BOOLEAN -> Nat]
    OBVIOUS
  <1>3. stopThread \in StopThreads
    BY DEF TypeInv, TypeOK
  <1> QED
    BY <1>1, <1>2, <1>3, ServiceTypes DEF stop_dpi_async

\* Everything that process_pending_restart_request can write.
RestartPart ==
    /\ rt \in RuntimeStates /\ busy \in BOOLEAN
    /\ restart \in RestartFields /\ restartRetry \in BOOLEAN
    /\ startThread \in StartThreads
    /\ startThread.stage # "idle" => startThread.method \in ALL_LAUNCH_METHODS
    /\ stopThread \in StopThreads
    /\ stopPolls \in [BOOLEAN -> Nat]

\* So is what process_pending_restart_request writes.
LEMMA RestartCall ==
    ASSUME TypeInv, NEW r \in RuntimeStates, NEW b \in BOOLEAN,
           NEW s \in RestartFields, NEW retry \in BOOLEAN,
           process_pending_restart_request(r, b, s, retry)
    PROVE  RestartPart'
  <1> DEFINE pending == s.requested > s.completed
             force   == s.forceStop = s.requested
  <1>1. /\ startThread \in StartThreads
        /\ startThread.stage # "idle" => startThread.method \in ALL_LAUNCH_METHODS
        /\ stopThread \in StopThreads
        /\ stopPolls \in [BOOLEAN -> Nat]
    BY DEF TypeInv, TypeOK, WorkersHaveMethod
  <1>2. /\ [s EXCEPT !.pendingStop = s.requested] \in RestartFields
        /\ [s EXCEPT !.activeStart = s.requested] \in RestartFields
        /\ s.target \in MethodOrNone
    BY DEF RestartFields, MethodOrNone
  <1>3. CASE ~pending
    BY <1>1, <1>3 DEF process_pending_restart_request, RestartPart
  <1>4. CASE pending /\ pipeline_occupied
    BY <1>1, <1>2, <1>4
    DEF process_pending_restart_request, RestartPart, schedule_restart_retry
  <1>5. CASE pending /\ ~pipeline_occupied /\ (is_running(r) \/ force)
    <2>1. /\ restart' = [s EXCEPT !.pendingStop = s.requested]
          /\ restartRetry' = retry
          /\ stop_dpi_async(r, b, force, stopPolls, FALSE)
          /\ UNCHANGED startThread
      BY <1>5 DEF process_pending_restart_request
    <2> QED
      BY <2>1, <1>1, <1>2, StopCall DEF RestartPart
  <1>6. CASE pending /\ ~pipeline_occupied /\ ~(is_running(r) \/ force)
    <2>1. /\ restart' = [s EXCEPT !.activeStart = s.requested]
          /\ restartRetry' = retry
          /\ start_dpi_async(r, b, s.target)
          /\ UNCHANGED <<stopThread, stopPolls>>
      BY <1>6 DEF process_pending_restart_request
    <2> QED
      BY <2>1, <1>1, <1>2, StartCall DEF RestartPart
  <1> QED
    BY <1>3, <1>4, <1>5, <1>6

\* restart_dpi_async stores the request and processes it.
LEMMA RestartRequest ==
    ASSUME TypeInv, NEW r \in RuntimeStates, NEW b \in BOOLEAN,
           NEW force \in BOOLEAN, NEW m \in MethodOrNone,
           restart_dpi_async(r, b, force, m)
    PROVE  RestartPart'
  <1> DEFINE g == restart.requested + 1
             s == [restart EXCEPT !.requested = g, !.target = m,
                                  !.forceStop = IF force THEN g ELSE @]
  <1>1. s \in RestartFields
    <2>1. restart \in RestartFields /\ g \in Nat
      BY DEF TypeInv, TypeOK, RestartFields
    <2> HIDE DEF g
    <2> QED
      BY <2>1 DEF RestartFields, MethodOrNone
  <1>2. process_pending_restart_request(r, b, s, restartRetry)
    BY DEF restart_dpi_async
  <1>3. restartRetry \in BOOLEAN
    BY DEF TypeInv, TypeOK
  <1> HIDE DEF s
  <1> QED
    BY <1>1, <1>2, <1>3, RestartCall

\* Everything that process_pending_presets_switch can write.
SwitchPart ==
    /\ RestartPart
    /\ switch \in SwitchFields /\ switchRetry \in BOOLEAN
    /\ debounce \in PRESET_LAUNCH_METHODS \cup {NoMethod}
    /\ switchThread \in SwitchThreads
    /\ switchThread.stage = "respawn" => switchThread.method = ZAPRET1_MODE

\* What process_pending_presets_switch writes is well typed.
LEMMA SwitchCall ==
    ASSUME TypeInv, NEW r \in RuntimeStates, NEW b \in BOOLEAN,
           NEW w \in SwitchFields, NEW retry \in BOOLEAN,
           NEW d \in PRESET_LAUNCH_METHODS \cup {NoMethod},
           process_pending_presets_switch(r, b, w, retry, d)
    PROVE  SwitchPart'
  <1> DEFINE pending  == w.requested > w.completed
             done     == [w EXCEPT !.completed = w.requested, !.waits = 0]
             starting == r.phase = "starting" /\ w.waits < MaxStartingWaits
             Keep     == UNCHANGED <<restart, restartRetry, startThread,
                                     stopThread, stopPolls>>
             t        == [IdleSwitch EXCEPT !.stage = "check",
                                !.method = w.method, !.gen = w.requested]
  <1>1. ASSUME Keep, rt' \in RuntimeStates, busy' \in BOOLEAN
        PROVE  RestartPart'
    BY <1>1 DEF RestartPart, TypeInv, TypeOK, WorkersHaveMethod
  <1>2. ASSUME UNCHANGED switchThread
        PROVE  /\ switchThread' \in SwitchThreads
               /\ switchThread'.stage = "respawn" => switchThread'.method = ZAPRET1_MODE
    BY <1>2 DEF TypeInv, TypeOK, WorkersHaveMethod
  <1>3. /\ done \in SwitchFields
        /\ [w EXCEPT !.waits = 0] \in SwitchFields
        /\ starting => [w EXCEPT !.waits = @ + 1] \in SwitchFields
    <2>1. 0 \in 0..MaxStartingWaits
      BY ConstantsAssumption
    <2>2. done \in SwitchFields /\ [w EXCEPT !.waits = 0] \in SwitchFields
      BY <2>1 DEF SwitchFields
    <2>3. starting => w.waits + 1 \in 0..MaxStartingWaits
      BY ConstantsAssumption DEF SwitchFields
    <2> QED
      BY <2>2, <2>3 DEF SwitchFields
  <1>4. t \in SwitchThreads /\ t.stage = "check"
    BY DEF SwitchThreads, SwitchFields, IdleSwitch
  <1>5. w.method \in MethodOrNone
    BY DEF SwitchFields, MethodOrNone, PRESET_LAUNCH_METHODS, ALL_LAUNCH_METHODS
  <1>6. CASE ~pending
    BY <1>6, <1>1, <1>2 DEF process_pending_presets_switch, SwitchPart
  <1>7. CASE pending /\ pipeline_occupied
    BY <1>7, <1>1, <1>2
    DEF process_pending_presets_switch, SwitchPart, schedule_switch_retry
  <1>8. CASE pending /\ ~pipeline_occupied /\ ~is_running(r) /\ starting
    <2>1. /\ rt' = r /\ busy' = b /\ debounce' = d
          /\ switch' = [w EXCEPT !.waits = @ + 1] /\ switchRetry' = TRUE
          /\ UNCHANGED switchThread /\ Keep
      BY <1>8 DEF process_pending_presets_switch, schedule_switch_retry,
                  owner_differs
    <2> QED
      BY <2>1, <1>8, <1>1, <1>2, <1>3 DEF SwitchPart
  <1>9. CASE pending /\ ~pipeline_occupied /\ ~is_running(r) /\ ~starting
    <2>1. /\ rt' = r /\ busy' = FALSE /\ debounce' = d
          /\ switch' = done /\ switchRetry' = retry
          /\ UNCHANGED switchThread /\ Keep
      BY <1>9 DEF process_pending_presets_switch, owner_differs
    <2> HIDE DEF done
    <2> QED
      BY <2>1, <1>1, <1>2, <1>3 DEF SwitchPart
  <1>10. CASE pending /\ ~pipeline_occupied /\ is_running(r) /\ owner_differs(r, w.method)
    <2>1. /\ switch' = done /\ switchRetry' = retry
          /\ redirect_preset_switch(r, w.method)
          /\ UNCHANGED switchThread
      BY <1>10 DEF process_pending_presets_switch
    <2>2. debounce' = NoMethod /\ restart_dpi_async(r, FALSE, TRUE, w.method)
      BY <2>1 DEF redirect_preset_switch
    <2>3. RestartPart'
      BY <2>2, <1>5, RestartRequest
    <2> QED
      BY <2>1, <2>2, <2>3, <1>2, <1>3 DEF SwitchPart
  <1>11. CASE pending /\ ~pipeline_occupied /\ is_running(r) /\ ~owner_differs(r, w.method)
    <2>1. /\ rt' = r /\ busy' = b /\ debounce' = d
          /\ switch' = [w EXCEPT !.waits = 0] /\ switchRetry' = retry
          /\ switchThread' = t
          /\ Keep
      BY <1>11 DEF process_pending_presets_switch
    <2> HIDE DEF t
    <2> QED
      BY <2>1, <1>1, <1>3, <1>4 DEF SwitchPart
  <1> QED
    BY <1>6, <1>7, <1>8, <1>9, <1>10, <1>11

\* switch_presets_async stores the request and processes it.
LEMMA SwitchRequest ==
    ASSUME TypeInv, NEW m \in PRESET_LAUNCH_METHODS, switch_presets_async(m)
    PROVE  SwitchPart'
  <1>1. CASE owner_differs(rt, m)
    <2>1. /\ debounce' = NoMethod /\ restart_dpi_async(rt, FALSE, TRUE, m)
          /\ UNCHANGED <<switch, switchRetry, switchThread>>
      BY <1>1 DEF switch_presets_async, redirect_preset_switch
    <2>2. RestartPart'
      BY <2>1, RestartRequest
      DEF TypeInv, TypeOK, MethodOrNone, PRESET_LAUNCH_METHODS, ALL_LAUNCH_METHODS
    <2> QED
      BY <2>1, <2>2 DEF SwitchPart, TypeInv, TypeOK, WorkersHaveMethod
  <1>2. CASE ~owner_differs(rt, m)
    <2> DEFINE w == [switch EXCEPT !.method = m, !.requested = @ + 1]
    <2>1. process_pending_presets_switch(rt, TRUE, w, switchRetry, NoMethod)
      BY <1>2 DEF switch_presets_async
    <2>2. w \in SwitchFields
      <3>1. switch \in SwitchFields /\ switch.requested + 1 \in Nat
        BY DEF TypeInv, TypeOK, SwitchFields
      <3> QED
        BY <3>1 DEF SwitchFields
    <2>3. rt \in RuntimeStates /\ TRUE \in BOOLEAN /\ switchRetry \in BOOLEAN
      BY DEF TypeInv, TypeOK
    <2> HIDE DEF w
    <2> QED
      BY <2>1, <2>2, <2>3, SwitchCall
  <1> QED
    BY <1>1, <1>2

\* _finish_restart_request and the clearing of a served force flag.
LEMMA FinishTypes ==
    ASSUME NEW s \in RestartFields, NEW g \in Nat
    PROVE  /\ finish_restart_request(s, g) \in RestartFields
           /\ clear_served_force(s) \in RestartFields
  <1>1. max(s.completed, g) \in Nat
    BY DEF RestartFields, max
  <1>2. finish_restart_request(s, g) \in RestartFields
    BY <1>1 DEF finish_restart_request, RestartFields
  <1>3. clear_served_force(s) \in RestartFields
    BY DEF clear_served_force, RestartFields
  <1> QED
    BY <1>2, <1>3

\* The counters of the model's bounds stay natural numbers.
LEMMA SpendTypes ==
    ASSUME TypeInv, NEW k \in Kinds, Spend(k)
    PROVE  spent' \in [Kinds -> Nat]
  BY DEF Spend, TypeInv, TypeOK

-----------------------------------------------------------------------------
(* Every action keeps the type invariant.                                     *)

\* The commands of the user.
LEMMA UserTypes ==
    ASSUME TypeInv, UserStep
    PROVE  TypeInv'
  <1> USE DEF TypeInv, TypeOK, WorkersHaveMethod
  <1>1. ASSUME NEW c \in UserCommands, c \in Kinds, Command(c)
        PROVE  spent' \in [Kinds -> Nat] /\ lastCommand' \in UserCommands
    BY <1>1, SpendTypes DEF Command
  <1>2. CASE UserStart
    <2>1. start_dpi_async(rt, busy, NoMethod)
      BY <1>2 DEF UserStart
    <2>2. /\ rt' \in RuntimeStates /\ busy' \in BOOLEAN
          /\ startThread' \in StartThreads
          /\ startThread'.stage # "idle" => startThread'.method \in ALL_LAUNCH_METHODS
      BY <2>1, StartCall DEF MethodOrNone
    <2>3. spent' \in [Kinds -> Nat] /\ lastCommand' \in UserCommands
      BY <1>1, <1>2 DEF UserStart, UserCommands, Kinds
    <2> QED
      BY <1>2, <2>2, <2>3 DEF UserStart, timers, signals
  <1>3. CASE UserStop
    <2>1. stop_dpi_async(rt, busy, FALSE, stopPolls, FALSE)
      BY <1>3 DEF UserStop
    <2>2. /\ rt' \in RuntimeStates /\ busy' \in BOOLEAN
          /\ stopThread' \in StopThreads /\ stopPolls' \in [BOOLEAN -> Nat]
      BY <2>1, StopCall
    <2>3. spent' \in [Kinds -> Nat] /\ lastCommand' \in UserCommands
      BY <1>1, <1>3 DEF UserStop, UserCommands, Kinds
    <2> QED
      BY <1>3, <2>2, <2>3 DEF UserStop, signals
  <1>4. CASE UserRestart
    <2>1. restart_dpi_async(rt, busy, FALSE, NoMethod)
      BY <1>4 DEF UserRestart
    <2>2. RestartPart'
      BY <2>1, RestartRequest DEF MethodOrNone
    <2>3. spent' \in [Kinds -> Nat] /\ lastCommand' \in UserCommands
      BY <1>1, <1>4 DEF UserRestart, UserCommands, Kinds
    <2> QED
      BY <1>4, <2>2, <2>3 DEF UserRestart, RestartPart, signals
  <1>5. CASE ApplyPreset
    <2>1. spent' \in [Kinds -> Nat] /\ lastCommand' \in UserCommands
      BY <1>1, <1>5 DEF ApplyPreset, UserCommands, Kinds
    <2> QED
      BY <1>5, <2>1 DEF ApplyPreset, published, threads, signals
  <1>6. ASSUME NEW m \in SelectableMethods, ChangeMethod(m)
        PROVE  TypeInv'
    <2>1. m \in ALL_LAUNCH_METHODS
      BY ConstantsAssumption
    <2>2. spent' \in [Kinds -> Nat] /\ lastCommand' \in UserCommands
      BY <1>1, <1>6 DEF ChangeMethod, UserCommands, Kinds
    <2>3. settings' \in [method : ALL_LAUNCH_METHODS, autostart : BOOLEAN]
      BY <1>6, <2>1 DEF ChangeMethod
    <2>4. rt' \in RuntimeStates
      <3>1. \/ rt' = begin_stop(rt)
            \/ rt' = mark_autostart_pending(rt, m)
            \/ rt' = bootstrap_probe_absent(mark_stopped(rt), m)
        BY <1>6 DEF ChangeMethod
      <3>2. rt \in RuntimeStates /\ mark_stopped(rt) \in RuntimeStates
        BY ServiceTypes
      <3>3. /\ begin_stop(rt) \in RuntimeStates
            /\ mark_autostart_pending(rt, m) \in RuntimeStates
            /\ bootstrap_probe_absent(mark_stopped(rt), m) \in RuntimeStates
        BY <3>2, <2>1, ServiceTypes
      <3> QED
        BY <3>1, <3>3
    <2>5. busy' \in BOOLEAN
      BY <1>6 DEF ChangeMethod
    <2>6. commands' \in Seq(Commands)
      <3>1. PICK a \in {"restart", "stop"}, f \in BOOLEAN :
                commands' \in {commands,
                    Append(commands, [action |-> a, force |-> f, method |-> m])}
        BY <1>6 DEF ChangeMethod
      <3>2. [action |-> a, force |-> f, method |-> m] \in Commands
        BY <2>1 DEF Commands
      <3>3. commands \in Seq(Commands)
        OBVIOUS
      <3> HIDE DEF TypeInv, TypeOK, WorkersHaveMethod
      <3> QED
        BY <3>1, <3>2, <3>3
    <2> QED
      BY <1>6, <2>2, <2>3, <2>4, <2>5, <2>6 DEF ChangeMethod, threads, signals
  <1> QED
    BY <1>2, <1>3, <1>4, <1>5, <1>6 DEF UserStep

\* The timers of the GUI thread.
LEMMA TimerTypes ==
    ASSUME TypeInv, TimerStep
    PROVE  TypeInv'
  <1> USE DEF TypeInv, TypeOK, WorkersHaveMethod
  <1>1. CASE RunCommand
    <2>1. Head(commands) \in Commands /\ Tail(commands) \in Seq(Commands)
      BY <1>1 DEF RunCommand
    <2>2. /\ Head(commands).force \in BOOLEAN
          /\ Head(commands).method \in MethodOrNone
      BY <2>1 DEF Commands, MethodOrNone
    <2>3. CASE restart_dpi_async(rt, busy, Head(commands).force, Head(commands).method)
      <3>1. RestartPart'
        BY <2>2, <2>3, RestartRequest
      <3> QED
        BY <1>1, <2>1, <3>1 DEF RunCommand, RestartPart, signals
    <2>4. CASE /\ stop_dpi_async(rt, busy, Head(commands).force, stopPolls, FALSE)
               /\ UNCHANGED <<restart, restartRetry, startThread>>
      <3>1. rt \in RuntimeStates /\ busy \in BOOLEAN /\ stopPolls \in [BOOLEAN -> Nat]
        OBVIOUS
      <3>2. /\ rt' \in RuntimeStates /\ busy' \in BOOLEAN
            /\ stopThread' \in StopThreads /\ stopPolls' \in [BOOLEAN -> Nat]
        <4> HIDE DEF TypeInv, TypeOK, WorkersHaveMethod
        <4> QED
          BY <2>2, <2>4, <3>1, StopCall
      <3> QED
        BY <1>1, <2>1, <2>4, <3>2 DEF RunCommand, signals
    <2> QED
      BY <1>1, <2>3, <2>4 DEF RunCommand
  <1>2. CASE RestartRetryFires
    <2>1. RestartPart'
      BY <1>2, RestartCall DEF RestartRetryFires
    <2> QED
      BY <1>2, <2>1 DEF RestartRetryFires, RestartPart, timerFrame, signals
  <1>3. CASE RestartKickFires
    <2>1. RestartPart'
      BY <1>3, RestartCall DEF RestartKickFires
    <2>2. restartKicks' \in Nat
      BY <1>3 DEF RestartKickFires
    <2> QED
      BY <1>3, <2>1, <2>2 DEF RestartKickFires, RestartPart, timerFrame, signals
  <1>4. CASE SwitchRetryFires
    <2>1. SwitchPart'
      BY <1>4, SwitchCall DEF SwitchRetryFires
    <2> QED
      BY <1>4, <2>1 DEF SwitchRetryFires, SwitchPart, RestartPart, timerFrame, signals
  <1>5. CASE SwitchKickFires
    <2>1. SwitchPart'
      BY <1>5, SwitchCall DEF SwitchKickFires
    <2>2. switchKicks' \in Nat
      BY <1>5 DEF SwitchKickFires
    <2> QED
      BY <1>5, <2>1, <2>2
      DEF SwitchKickFires, SwitchPart, RestartPart, timerFrame, signals
  <1>6. CASE DebounceFires
    <2>1. SwitchPart'
      BY <1>6, SwitchRequest DEF DebounceFires
    <2> QED
      BY <1>6, <2>1 DEF DebounceFires, SwitchPart, RestartPart, timerFrame, signals
  <1>7. ASSUME NEW force \in BOOLEAN, NEW expired \in BOOLEAN,
               StopPollFires(force, expired)
        PROVE  TypeInv'
    <2> DEFINE polls == [stopPolls EXCEPT ![force] = @ - 1]
    <2>1. polls \in [BOOLEAN -> Nat]
      BY <1>7 DEF StopPollFires
    <2>2. stop_dpi_async(rt, busy, force, polls, expired)
      BY <1>7 DEF StopPollFires
    <2>3. /\ rt' \in RuntimeStates /\ busy' \in BOOLEAN
          /\ stopThread' \in StopThreads /\ stopPolls' \in [BOOLEAN -> Nat]
      <3> HIDE DEF polls
      <3> QED
        BY <2>1, <2>2, StopCall
    <2>4. spent' \in [Kinds -> Nat]
      BY <1>7, SpendTypes DEF StopPollFires, Kinds
    <2> QED
      BY <1>7, <2>3, <2>4 DEF StopPollFires, signals
  <1> QED
    BY <1>1, <1>2, <1>3, <1>4, <1>5, <1>6, <1>7 DEF TimerStep

\* The calls a finished handler queues are counted by natural numbers.
LEMMA KickTypes ==
    ASSUME TypeInv
    PROVE  /\ kick_pending_switch => switchKicks' \in Nat
           /\ kick_pending_restart => restartKicks' \in Nat
  BY DEF kick_pending_switch, kick_pending_restart, TypeInv, TypeOK

\* The signals the GUI thread handles.
LEMMA SignalTypes ==
    ASSUME TypeInv, SignalStep
    PROVE  TypeInv'
  <1> USE DEF TypeInv, TypeOK, WorkersHaveMethod
  <1>1. CASE StartFinished
    <2>1. startThread' \in StartThreads /\ startThread'.method = startThread.method
      BY <1>1 DEF StartFinished, StartThreads
    <2>2. startThread.stage # "idle"
      BY <1>1 DEF StartFinished
    <2>3. rt' \in RuntimeStates
      <3>1. startThread.pid \in Pids \cup {NoPid}
        BY DEF StartThreads
      <3>2. rt' = mark_running(rt, startThread.pid) \/ rt' = mark_start_failed(rt)
        BY <1>1 DEF StartFinished
      <3>3. /\ mark_running(rt, startThread.pid) \in RuntimeStates
            /\ mark_start_failed(rt) \in RuntimeStates
        BY <3>1, ServiceTypes
      <3> QED
        BY <3>2, <3>3
    <2>4. restart' \in RestartFields
      <3>1. restart.activeStart \in Nat
        BY DEF RestartFields
      <3> QED
        BY <3>1, <1>1, FinishTypes DEF StartFinished
    <2>5. switchKicks' \in Nat /\ restartKicks' \in Nat
      BY <1>1, KickTypes DEF StartFinished
    <2> QED
      BY <1>1, <2>1, <2>2, <2>3, <2>4, <2>5 DEF StartFinished, finishedFrame, signals
  <1>2. CASE StopFinished
    <2> DEFINE s == clear_served_force(restart)
               g == restart.pendingStop
    <2>1. stopThread' \in StopThreads
      BY <1>2 DEF StopFinished, StopThreads
    <2>2. s \in RestartFields /\ g \in Nat /\ mark_stopped(rt) \in RuntimeStates
      BY FinishTypes, ServiceTypes DEF RestartFields
    <2>3. switchKicks' \in Nat
      BY <1>2, KickTypes DEF StopFinished
    <2>4. g \in Nat /\ s.completed \in Nat /\ ~(g > s.completed /\ g <= s.completed)
      BY <2>2 DEF RestartFields
    <2>5. /\ rt' \in RuntimeStates /\ busy' \in BOOLEAN
          /\ restart' \in RestartFields
          /\ startThread' \in StartThreads
          /\ startThread'.stage # "idle" => startThread'.method \in ALL_LAUNCH_METHODS
      <3>1. CASE stopThread.ok /\ g > s.completed
        <4>1. /\ restart' = [s EXCEPT !.pendingStop = 0,
                                      !.activeStart = max(g, s.requested)]
              /\ start_dpi_async(mark_stopped(rt), FALSE, s.target)
          BY <1>2, <3>1, <2>4 DEF StopFinished
        <4>2. max(g, s.requested) \in Nat /\ s.target \in MethodOrNone
          BY <2>2 DEF max, RestartFields, MethodOrNone
        <4>3. restart' \in RestartFields
          BY <4>1, <4>2, <2>2 DEF RestartFields
        <4> HIDE DEF TypeInv, TypeOK, WorkersHaveMethod
        <4> QED
          BY <4>1, <4>2, <4>3, <2>2, StartCall
      <3>2. CASE stopThread.ok /\ g <= s.completed
        <4>1. /\ rt' = mark_stopped(rt) /\ busy' = FALSE
              /\ restart' = s /\ UNCHANGED startThread
          BY <1>2, <3>2, <2>2 DEF StopFinished, RestartFields
        <4> QED
          BY <4>1, <2>2
      <3>3. CASE ~stopThread.ok
        <4>1. /\ rt' = mark_running(rt, NoPid) /\ busy' = FALSE
              /\ restart' = finish_restart_request([s EXCEPT !.pendingStop = 0], g)
              /\ UNCHANGED startThread
          BY <1>2, <3>3 DEF StopFinished
        <4>2. [s EXCEPT !.pendingStop = 0] \in RestartFields
          BY <2>2 DEF RestartFields
        <4>3. restart' \in RestartFields
          BY <4>1, <4>2, <2>2, FinishTypes
        <4>4. rt' \in RuntimeStates
          BY <4>1, ServiceTypes
        <4> QED
          BY <4>1, <4>3, <4>4
      <3> QED
        BY <3>1, <3>2, <3>3, <2>2 DEF RestartFields
    <2> QED
      BY <1>2, <2>1, <2>3, <2>5 DEF StopFinished, finishedFrame, signals
  <1>3. CASE SwitchFinished
    <2>1. /\ switchThread' \in SwitchThreads
          /\ switchThread'.stage = "quitting"
      BY <1>3 DEF SwitchFinished, SwitchThreads
    <2>2. switch' \in SwitchFields
      <3>1. max(switch.completed, switchThread.gen) \in Nat
        BY DEF SwitchFields, SwitchThreads, max
      <3> QED
        BY <1>3, <3>1 DEF SwitchFinished, SwitchFields
    <2>3. busy' \in BOOLEAN
      BY <1>3 DEF SwitchFinished
    <2>4. rt' \in RuntimeStates
      <3>1. switchThread.pid \in Pids \cup {NoPid}
        BY DEF SwitchThreads
      <3>2. rt' = mark_running(rt, switchThread.pid) \/ rt' = rt
        BY <1>3 DEF SwitchFinished
      <3>3. mark_running(rt, switchThread.pid) \in RuntimeStates
        BY <3>1, ServiceTypes
      <3> QED
        BY <3>2, <3>3
    <2>5. switchKicks' \in Nat
      BY <1>3, KickTypes DEF SwitchFinished
    <2> QED
      BY <1>3, <2>1, <2>2, <2>3, <2>4, <2>5 DEF SwitchFinished, finishedFrame, signals
  <1>4. CASE ThreadExits
    <2>1. /\ IdleStart \in StartThreads /\ IdleStart.stage = "idle"
          /\ IdleStop \in StopThreads
          /\ IdleSwitch \in SwitchThreads /\ IdleSwitch.stage = "idle"
      BY DEF IdleStart, IdleStop, IdleSwitch, StartThreads, StopThreads, SwitchThreads
    <2>2. /\ startThread' \in StartThreads /\ stopThread' \in StopThreads
          /\ switchThread' \in SwitchThreads
          /\ startThread'.stage # "idle" => startThread'.method \in ALL_LAUNCH_METHODS
          /\ switchThread'.stage = "respawn" => switchThread'.method = ZAPRET1_MODE
      BY <1>4, <2>1 DEF ThreadExits
    <2> QED
      BY <1>4, <2>2 DEF ThreadExits, finishedFrame, published, signals
  <1>5. CASE ObserveReport
    <2>1. Head(reports) \in SUBSET Engines /\ Tail(reports) \in Seq(SUBSET Engines)
      BY <1>5 DEF ObserveReport
    <2>2. rt' \in RuntimeStates
      BY <1>5, <2>1, ObserveTypes DEF ObserveReport
    <2> QED
      BY <1>5, <2>1, <2>2 DEF ObserveReport, signalFrame, timers
  <1>6. CASE ApplyRuntimeState
    <2>1. Head(syncs) \in Syncs /\ Tail(syncs) \in Seq(Syncs)
      BY <1>6 DEF ApplyRuntimeState
    <2>2. rt' \in RuntimeStates
      <3>1. Head(syncs).method \in ALL_LAUNCH_METHODS
        BY <2>1 DEF Syncs
      <3>2. \/ rt' = bootstrap_probe_running(rt, Head(syncs).method)
            \/ rt' = mark_stopped(rt)
        BY <1>6 DEF ApplyRuntimeState
      <3>3. /\ bootstrap_probe_running(rt, Head(syncs).method) \in RuntimeStates
            /\ mark_stopped(rt) \in RuntimeStates
        BY <3>1, ServiceTypes
      <3> QED
        BY <3>2, <3>3
    <2> QED
      BY <1>6, <2>1, <2>2 DEF ApplyRuntimeState, signalFrame, timers
  <1>7. ASSUME NEW transient \in BOOLEAN, HandleUnexpectedExit(transient)
        PROVE  TypeInv'
    <2>1. exits' \in Nat /\ autoRestarts' \in Nat
      BY <1>7 DEF HandleUnexpectedExit
    <2>2. \/ UNCHANGED <<published, startThread>>
          \/ start_dpi_async(mark_start_failed(rt), busy, NoMethod)
          \/ rt' = mark_start_failed(rt) /\ UNCHANGED <<busy, startThread>>
      BY <1>7 DEF HandleUnexpectedExit
    <2>3. mark_start_failed(rt) \in RuntimeStates /\ NoMethod \in MethodOrNone
      BY ServiceTypes DEF MethodOrNone
    <2>4. /\ rt' \in RuntimeStates /\ busy' \in BOOLEAN
          /\ startThread' \in StartThreads
          /\ startThread'.stage # "idle" => startThread'.method \in ALL_LAUNCH_METHODS
      BY <2>2, <2>3, StartCall DEF published
    <2> QED
      BY <1>7, <2>1, <2>4 DEF HandleUnexpectedExit, signalFrame, timers
  <1> QED
    BY <1>1, <1>2, <1>3, <1>4, <1>5, <1>6, <1>7 DEF SignalStep

\* New engines have a mode and a process id.
LEMMA SpawnTypes ==
    ASSUME TypeInv, NEW m \in ALL_LAUNCH_METHODS, NEW p \in fresh_pids
    PROVE  /\ p \in Pids
           /\ [method |-> m, pid |-> p] \in Engines
           /\ (engines \ own(m)) \cup {[method |-> m, pid |-> p]} \in SUBSET Engines
  <1>1. p \in Pids
    BY DEF fresh_pids
  <1>2. [method |-> m, pid |-> p] \in Engines
    BY <1>1 DEF Engines
  <1>3. engines \subseteq Engines
    BY DEF TypeInv, TypeOK
  <1> QED
    BY <1>1, <1>2, <1>3

\* shutdown_runtime_sync adds no engine.
LEMMA ShutdownTypes ==
    ASSUME TypeInv, shutdown_runtime_sync
    PROVE  engines' \subseteq Engines /\ spent' \in [Kinds -> Nat]
  <1>1. "killfail" \in Kinds
    BY DEF Kinds
  <1> QED
    BY <1>1, SpendTypes DEF shutdown_runtime_sync, TypeInv, TypeOK

\* A step of the switch worker keeps its method.
LEMMA SwitchStepTypes ==
    ASSUME TypeInv, NEW stage \in {"apply", "respawn", "report", "done"},
           NEW ok \in BOOLEAN, NEW p \in Pids \cup {NoPid},
           switch_step(stage, ok, p)
    PROVE  /\ switchThread' \in SwitchThreads
           /\ switchThread'.stage = stage
           /\ switchThread'.method = switchThread.method
  <1>1. switchThread \in SwitchThreads
    BY DEF TypeInv, TypeOK
  <1> QED
    BY <1>1 DEF switch_step, SwitchThreads

\* A switch that keeps the running process.
LEMMA SwitchKeepsTypes ==
    ASSUME TypeInv, NEW ok \in BOOLEAN, switch_keeps(ok)
    PROVE  /\ engines' \subseteq Engines
           /\ switchThread' \in SwitchThreads
           /\ switchThread'.stage = "report"
  <1>1. engines \subseteq Engines /\ engines' = engines
    BY DEF TypeInv, TypeOK, switch_keeps
  <1>2. ASSUME NEW e \in own(switchThread.method) PROVE e.pid \in Pids \cup {NoPid}
    BY <1>1 DEF own, Engines
  <1>3. PICK k \in BOOLEAN, p \in Pids \cup {NoPid} : switch_step("report", k, p)
    BY <1>2 DEF switch_keeps
  <1> QED
    BY <1>1, <1>3, SwitchStepTypes

\* A switch that replaces it.
LEMMA SwitchSpawnsTypes ==
    ASSUME TypeInv, switchThread.method \in ALL_LAUNCH_METHODS, switch_spawns
    PROVE  /\ engines' \subseteq Engines
           /\ switchThread' \in SwitchThreads
           /\ switchThread'.stage = "report"
  <1> DEFINE m == switchThread.method
  <1>1. PICK p \in fresh_pids :
            /\ engines' = (engines \ own(m)) \cup {[method |-> m, pid |-> p]}
            /\ switch_step("report", TRUE, p)
    BY DEF switch_spawns
  <1>2. p \in Pids \cup {NoPid} /\ engines' \subseteq Engines
    BY <1>1, SpawnTypes
  <1> QED
    BY <1>1, <1>2, SwitchStepTypes

\* The steps of the three workers.
LEMMA WorkerTypes ==
    ASSUME TypeInv, WorkerStep
    PROVE  TypeInv'
  <1> DEFINE StartOK ==
        /\ startThread \in StartThreads
        /\ startThread.stage # "idle" => startThread.method \in ALL_LAUNCH_METHODS
      SwitchOK ==
        /\ switchThread \in SwitchThreads
        /\ switchThread.stage = "respawn" => switchThread.method = ZAPRET1_MODE
  <1>1. /\ StartOK /\ SwitchOK /\ stopThread \in StopThreads
        /\ engines \subseteq Engines /\ spent \in [Kinds -> Nat]
    BY DEF TypeInv, TypeOK, WorkersHaveMethod
  <1>2. "fail" \in Kinds
    BY DEF Kinds
  <1>3. ZAPRET1_MODE \in ALL_LAUNCH_METHODS /\ ZAPRET2_MODE \in ALL_LAUNCH_METHODS
    BY DEF ALL_LAUNCH_METHODS
  <1>4. CASE StartPrepare
    <2>1. startThread.method \in ALL_LAUNCH_METHODS
      BY <1>1, <1>4 DEF StartPrepare
    <2>2. /\ StartOK' /\ engines' \subseteq Engines /\ spent' \in [Kinds -> Nat]
      <3>1. CASE /\ Spend("fail")
                 /\ startThread' = [startThread EXCEPT !.stage = "done", !.ok = FALSE]
                 /\ UNCHANGED engines
        <4>1. spent' \in [Kinds -> Nat]
          BY <3>1, <1>2, SpendTypes
        <4>2. StartOK'
          BY <3>1, <1>1, <2>1 DEF StartThreads
        <4> QED
          BY <3>1, <4>1, <4>2, <1>1
      <3>2. ASSUME NEW p \in fresh_pids,
                   engines' = {e \in engines : exe_of(e) # EXE_NAME_WINWS2}
                                 \cup {[method |-> ZAPRET2_MODE, pid |-> p]},
                   startThread' = [startThread EXCEPT !.stage = "done", !.ok = TRUE,
                                                      !.pid = p],
                   UNCHANGED spent
            PROVE  /\ StartOK' /\ engines' \subseteq Engines /\ spent' \in [Kinds -> Nat]
        <4>1. p \in Pids /\ [method |-> ZAPRET2_MODE, pid |-> p] \in Engines
          BY <1>3, SpawnTypes
        <4>2. StartOK'
          BY <3>2, <4>1, <1>1, <2>1 DEF StartThreads
        <4> QED
          BY <3>2, <4>1, <4>2, <1>1
      <3>3. CASE /\ shutdown_runtime_sync
                 /\ startThread' = [startThread EXCEPT !.stage = "spawn"]
        <4>1. StartOK'
          BY <3>3, <1>1, <2>1 DEF StartThreads
        <4> QED
          BY <3>3, <4>1, ShutdownTypes
      <3> QED
        BY <3>1, <3>2, <3>3, <1>4 DEF StartPrepare
    <2> QED
      BY <1>1, <1>4, <2>2
      DEF StartPrepare, workerFrame, published, timers, TypeInv, TypeOK, WorkersHaveMethod
  <1>5. CASE StartSpawn
    <2> DEFINE m == startThread.method
    <2>1. m \in ALL_LAUNCH_METHODS
      BY <1>1, <1>5 DEF StartSpawn
    <2>2. /\ StartOK' /\ engines' \subseteq Engines /\ spent' \in [Kinds -> Nat]
      <3>1. ASSUME NEW p \in fresh_pids,
                   engines' = (engines \ own(m)) \cup {[method |-> m, pid |-> p]},
                   startThread' = [startThread EXCEPT !.stage = "done", !.ok = TRUE,
                         !.pid = IF m = ORCHESTRA_MODE THEN NoPid ELSE p],
                   UNCHANGED spent
            PROVE  /\ StartOK' /\ engines' \subseteq Engines /\ spent' \in [Kinds -> Nat]
        <4>1. p \in Pids /\ engines' \subseteq Engines
          BY <3>1, <2>1, SpawnTypes
        <4>2. StartOK'
          BY <3>1, <4>1, <1>1, <2>1 DEF StartThreads
        <4> QED
          BY <3>1, <4>1, <4>2, <1>1
      <3>2. CASE /\ Spend("fail")
                 /\ engines' = engines \ own(m)
                 /\ startThread' = [startThread EXCEPT !.stage = "done", !.ok = FALSE]
        <4>1. spent' \in [Kinds -> Nat]
          BY <3>2, <1>2, SpendTypes
        <4>2. StartOK'
          BY <3>2, <1>1, <2>1 DEF StartThreads
        <4> QED
          BY <3>2, <4>1, <4>2, <1>1
      <3> QED
        BY <3>1, <3>2, <1>5 DEF StartSpawn
    <2> QED
      BY <1>1, <1>5, <2>2
      DEF StartSpawn, workerFrame, published, timers, TypeInv, TypeOK, WorkersHaveMethod
  <1>6. CASE StopKill
    <2>1. stopThread' \in StopThreads
      BY <1>1, <1>6 DEF StopKill, StopThreads
    <2>2. engines' \subseteq Engines /\ spent' \in [Kinds -> Nat]
      BY <1>1, <1>6, ShutdownTypes DEF StopKill
    <2> QED
      BY <1>1, <1>6, <2>1, <2>2
      DEF StopKill, workerFrame, published, timers, TypeInv, TypeOK, WorkersHaveMethod
  <1>7. CASE StopProbe
    <2>1. stopThread' \in StopThreads
      BY <1>1, <1>7 DEF StopProbe, StopThreads
    <2> QED
      BY <1>1, <1>7, <2>1
      DEF StopProbe, workerFrame, published, timers, TypeInv, TypeOK, WorkersHaveMethod
  <1>8. CASE SwitchCheck
    <2>1. switchThread' \in SwitchThreads /\ switchThread'.stage # "respawn"
      <3>1. CASE switchThread' = [switchThread EXCEPT !.stage = "done", !.ok = TRUE,
                                                      !.stale = TRUE]
        BY <3>1, <1>1 DEF SwitchThreads
      <3>2. CASE \/ switch_step("apply", FALSE, NoPid)
                 \/ switch_step("done", FALSE, NoPid)
        BY <3>2, SwitchStepTypes
      <3> QED
        BY <1>8, <3>1, <3>2 DEF SwitchCheck
    <2>2. spent' \in [Kinds -> Nat]
      BY <1>1, <1>2, <1>8, SpendTypes DEF SwitchCheck
    <2> QED
      BY <1>1, <1>8, <2>1, <2>2
      DEF SwitchCheck, workerFrame, published, timers, TypeInv, TypeOK, WorkersHaveMethod
  <1>9. CASE SwitchApply
    <2>1. SwitchOK' /\ engines' \subseteq Engines
      <3>1. CASE switch_keeps(TRUE) \/ switch_keeps(FALSE)
        BY <3>1, SwitchKeepsTypes
      <3>2. CASE switchThread.method = ZAPRET2_MODE /\ switch_spawns
        BY <3>2, <1>3, SwitchSpawnsTypes
      <3>3. CASE /\ switchThread.method = ZAPRET1_MODE
                 /\ engines' = engines \ own(ZAPRET1_MODE)
                 /\ switch_step("respawn", FALSE, NoPid)
        BY <3>3, <1>1, SwitchStepTypes
      <3> QED
        BY <1>9, <3>1, <3>2, <3>3 DEF SwitchApply
    <2>2. spent' \in [Kinds -> Nat]
      BY <1>1, <1>2, <1>9, SpendTypes DEF SwitchApply
    <2> QED
      BY <1>1, <1>9, <2>1, <2>2
      DEF SwitchApply, workerFrame, published, timers, TypeInv, TypeOK, WorkersHaveMethod
  <1>10. CASE SwitchRespawn
    <2>1. switchThread.method \in ALL_LAUNCH_METHODS
      BY <1>1, <1>3, <1>10 DEF SwitchRespawn
    <2>2. SwitchOK' /\ engines' \subseteq Engines
      <3>1. CASE switch_keeps(TRUE) \/ switch_keeps(FALSE)
        BY <3>1, SwitchKeepsTypes
      <3>2. CASE switch_spawns
        BY <3>2, <2>1, SwitchSpawnsTypes
      <3> QED
        BY <1>10, <3>1, <3>2 DEF SwitchRespawn
    <2>3. spent' \in [Kinds -> Nat]
      BY <1>1, <1>2, <1>10, SpendTypes DEF SwitchRespawn
    <2> QED
      BY <1>1, <1>10, <2>2, <2>3
      DEF SwitchRespawn, workerFrame, published, timers, TypeInv, TypeOK, WorkersHaveMethod
  <1>11. CASE SwitchReport
    <2>1. switchThread' \in SwitchThreads /\ switchThread'.stage = "done"
      BY <1>1, <1>11 DEF SwitchReport, SwitchThreads
    <2> QED
      BY <1>1, <1>11, <2>1
      DEF SwitchReport, workerFrame, published, timers, TypeInv, TypeOK, WorkersHaveMethod
  <1> QED
    BY <1>4, <1>5, <1>6, <1>7, <1>8, <1>9, <1>10, <1>11 DEF WorkerStep

\* Crashes, the process monitor and the strategy scan.
LEMMA EnvironmentTypes ==
    ASSUME TypeInv, EnvironmentStep
    PROVE  TypeInv'
  <1> DEFINE ScanRecords ==
        [stage : {"off", "begun", "marked", "on", "cleaned", "ended"},
         wasRunning : BOOLEAN]
  <1>1. /\ engines \subseteq Engines /\ spent \in [Kinds -> Nat]
        /\ rt \in RuntimeStates /\ busy \in BOOLEAN /\ syncs \in Seq(Syncs)
        /\ scan \in ScanRecords
        /\ startThread \in StartThreads
        /\ startThread.stage # "idle" => startThread.method \in ALL_LAUNCH_METHODS
    BY DEF TypeInv, TypeOK, WorkersHaveMethod
  <1>2. {"crash", "observe", "scan"} \subseteq Kinds
    BY DEF Kinds
  <1>3. CASE Crash
    <2>1. engines' \subseteq Engines
      BY <1>1, <1>3 DEF Crash
    <2>2. exits' \in Nat
      BY <1>3 DEF Crash, TypeInv, TypeOK
    <2>3. spent' \in [Kinds -> Nat]
      BY <1>2, <1>3, SpendTypes DEF Crash
    <2> QED
      BY <1>3, <2>1, <2>2, <2>3
      DEF Crash, published, timers, threads, TypeInv, TypeOK, WorkersHaveMethod
  <1>4. CASE MonitorScan
    <2>1. reports' \in Seq(SUBSET Engines)
      <3>1. reports \in Seq(SUBSET Engines) /\ engines \in SUBSET Engines
        BY <1>1 DEF TypeInv, TypeOK
      <3>2. reports' = Append(reports, engines)
        BY <1>4 DEF MonitorScan
      <3> QED
        BY <3>1, <3>2
    <2>2. spent' \in [Kinds -> Nat]
      BY <1>2, <1>4, SpendTypes DEF MonitorScan
    <2> QED
      BY <1>1, <1>4, <2>1, <2>2
      DEF MonitorScan, published, timers, threads, TypeInv, TypeOK, WorkersHaveMethod
  <1>5. CASE BeginScan
    <2>1. scan' \in ScanRecords
      BY <1>5 DEF BeginScan, is_running
    <2>2. spent' \in [Kinds -> Nat]
      BY <1>2, <1>5, SpendTypes DEF BeginScan
    <2> QED
      BY <1>5, <2>1, <2>2
      DEF BeginScan, scanFrame, published, timers, TypeInv, TypeOK, WorkersHaveMethod
  <1>6. CASE ScanStep
    <2>1. ASSUME NEW from, NEW to \in {"off", "marked", "on", "cleaned", "ended"},
                 scan_step(from, to)
          PROVE  scan' \in ScanRecords
      BY <1>1, <2>1 DEF scan_step
    <2>2. scan' \in ScanRecords
      BY <1>6, <2>1 DEF ScanStep
    <2>3. /\ rt' \in RuntimeStates /\ busy' \in BOOLEAN
          /\ startThread' \in StartThreads
          /\ startThread'.stage # "idle" => startThread'.method \in ALL_LAUNCH_METHODS
          /\ engines' \subseteq Engines /\ syncs' \in Seq(Syncs)
          /\ spent' \in [Kinds -> Nat]
      <3>1. CASE UNCHANGED <<published, startThread, engines, syncs, spent>>
        BY <1>1, <3>1 DEF published
      <3>2. CASE scan_shutdown /\ UNCHANGED <<published, startThread>>
        <4>1. engines' \subseteq Engines /\ spent' \in [Kinds -> Nat]
          BY <3>2, ShutdownTypes DEF scan_shutdown
        <4>2. [still |-> engines' # {}, method |-> rt.method] \in Syncs
          BY <1>1 DEF Syncs, RuntimeStates
        <4>3. syncs' = Append(syncs, [still |-> engines' # {}, method |-> rt.method])
          BY <3>2 DEF scan_shutdown
        <4>4. syncs' \in Seq(Syncs)
          BY <1>1, <4>2, <4>3
        <4> QED
          BY <1>1, <3>2, <4>1, <4>4 DEF published
      <3>3. CASE /\ start_dpi_async(rt, busy, NoMethod)
                 /\ UNCHANGED <<engines, syncs, spent>>
        <4>1. NoMethod \in MethodOrNone
          BY DEF MethodOrNone
        <4> QED
          BY <1>1, <3>3, <4>1, StartCall
      <3> QED
        BY <1>6, <3>1, <3>2, <3>3 DEF ScanStep, published
    <2> QED
      BY <1>6, <2>2, <2>3 DEF ScanStep, scanFrame, timers, TypeInv, TypeOK, WorkersHaveMethod
  <1> QED
    BY <1>3, <1>4, <1>5, <1>6 DEF EnvironmentStep

\* The initial states are well typed.
LEMMA InitTypes == Init => TypeInv
  <1> SUFFICES ASSUME Init PROVE TypeInv
    OBVIOUS
  <1>1. PICK m \in SelectableMethods : rt = build_initial_ui_state(m, "stopped")
    BY DEF Init
  <1>2. m \in ALL_LAUNCH_METHODS
    BY ConstantsAssumption
  <1>3. rt \in RuntimeStates /\ rt.method = m
    BY <1>1, <1>2, Values DEF build_initial_ui_state, RuntimeStates
  <1>4. settings \in [method : ALL_LAUNCH_METHODS, autostart : BOOLEAN]
    BY <1>2, <1>3 DEF Init
  <1>5. /\ IdleStart \in StartThreads /\ IdleStart.stage = "idle"
        /\ IdleStop \in StopThreads
        /\ IdleSwitch \in SwitchThreads /\ IdleSwitch.stage = "idle"
    BY DEF IdleStart, IdleStop, IdleSwitch, StartThreads, StopThreads, SwitchThreads
  <1>6. switch \in SwitchFields
    BY ConstantsAssumption DEF Init, SwitchFields
  <1>7. restart \in RestartFields
    BY DEF Init, RestartFields
  <1>8. commands \in Seq(Commands) /\ reports \in Seq(SUBSET Engines) /\ syncs \in Seq(Syncs)
    BY DEF Init
  <1> QED
    BY <1>3, <1>4, <1>5, <1>6, <1>7, <1>8
    DEF Init, TypeInv, TypeOK, WorkersHaveMethod, UserCommands

\* Every step keeps the type invariant.
LEMMA NextTypes == TypeInv /\ [Next]_vars => TypeInv'
  <1> SUFFICES ASSUME TypeInv, [Next]_vars PROVE TypeInv'
    OBVIOUS
  <1>1. CASE Next
    BY <1>1, UserTypes, TimerTypes, SignalTypes, WorkerTypes, EnvironmentTypes DEF Next
  <1>2. CASE UNCHANGED vars
    BY <1>2
    DEF vars, published, timers, threads, signals, TypeInv, TypeOK, WorkersHaveMethod
  <1> QED
    BY <1>1, <1>2

\* The type invariant holds in every behaviour.
LEMMA TypesHold == Spec => []TypeInv
  BY InitTypes, NextTypes, PTL DEF Spec

\* The state keeps its type: no handler, timer or worker step, in whatever order
\* they come, writes a field out of its range, and no engine is ever spawned
\* without a launch method.
THEOREM TypeCorrect == Spec => []TypeOK
  <1>1. TypeInv => TypeOK
    BY DEF TypeInv
  <1> QED
    BY <1>1, TypesHold, PTL
=============================================================================
