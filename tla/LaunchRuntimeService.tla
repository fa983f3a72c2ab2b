------------------------ MODULE LaunchRuntimeService ------------------------
(* The published state of the launch runtime and the operations that are the *)
(* only writers of it (winws_runtime/state/launch_runtime_service.py).        *)
(*                                                                            *)
(* Each operation of the service is an operator from the state before it to   *)
(* the state after it, so that the handlers of the launch runtime, which call *)
(* several of them in one go, compose them.  The fields:                      *)
(*   phase     launch_phase of the UI store                                   *)
(*   method    launch_method of the UI store                                  *)
(*   expected  the executable the process monitor must see                    *)
(*   pid       the tracked engine process                                     *)
(*   miss      missing_probe_count                                            *)
(* launch_running of the store is phase = "running" after every operation;    *)
(* the error text, the start time and the status texts are left out.          *)
(*                                                                            *)
(* An operator whose name begins with Mut is a mistake someone could make in  *)
(* the operation after it; it is used to see that the properties notice.      *)
EXTENDS LaunchMethods

CONSTANTS Pids,   \* process ids Windows hands out
          NoPid   \* "no process is tracked"

ASSUME NoPidAssumption == NoPid \notin Pids

Phases == {"stopped", "autostart_pending", "starting", "running", "stopping",
           "failed"}

\* An engine process: the mode that spawned it and its process id.
Engines == [method : ALL_LAUNCH_METHODS, pid : Pids]

exe_of(e) == exe_name_for_launch_method(e.method)

\* A probe that misses the tracked process is counted up to this many times;
\* the third miss in a row declares the engine lost.
MissLimit == 3

RuntimeStates ==
    [phase    : Phases,
     method   : ALL_LAUNCH_METHODS,
     expected : ALL_WINWS_EXE_NAMES \cup {NoExe},
     pid      : Pids \cup {NoPid},
     miss     : 0..MissLimit]

build_initial_ui_state(m, phase) ==
    [phase |-> phase, method |-> m, expected |-> NoExe, pid |-> NoPid, miss |-> 0]

begin_start(r, m) ==
    [phase |-> "starting", method |-> m, expected |-> expected_process_name(m),
     pid |-> NoPid, miss |-> 0]

mark_autostart_pending(r, m) ==
    [phase |-> "autostart_pending", method |-> m,
     expected |-> exe_name_for_launch_method(m), pid |-> NoPid, miss |-> 0]

\* The tracked process is kept: the monitor compares against it while stopping.
begin_stop(r) == [r EXCEPT !.phase = "stopping"]

\* A call without a pid keeps the tracked one.
mark_running(r, p) ==
    [r EXCEPT !.phase = "running",
              !.pid   = IF p = NoPid THEN r.pid ELSE p,
              !.miss  = 0]

MutFailedKeepsPhase(r) == [r EXCEPT !.pid = NoPid, !.miss = 0]
MutFailedClearsText(r) == [r EXCEPT !.phase = "failed", !.pid = NoExe, !.miss = 0]
mark_start_failed(r) == [r EXCEPT !.phase = "failed", !.pid = NoPid, !.miss = 0]

mark_stopped(r) ==
    [r EXCEPT !.phase = "stopped", !.expected = NoExe, !.pid = NoPid, !.miss = 0]

\* bootstrap_probe(True, launch_method=m) with no expected process.
bootstrap_probe_running(r, m) ==
    [r EXCEPT !.phase = "running", !.method = m, !.expected = NoExe,
              !.pid = NoPid, !.miss = 0]

\* bootstrap_probe(False, launch_method=m): a pending autostart stays pending.
bootstrap_probe_absent(r, m) ==
    [r EXCEPT !.phase = IF r.phase = "autostart_pending"
                          THEN "autostart_pending" ELSE "stopped",
              !.method = m, !.expected = NoExe, !.pid = NoPid, !.miss = 0]

-----------------------------------------------------------------------------
\* The processes among details (the engines one scan of the monitor listed)
\* that observe_process_details may take for the tracked one: those of the
\* expected executable, or, when none is expected, those of the first
\* executable of ALL_WINWS_EXE_NAMES that has any.
matched_engines(r, details) ==
    LET Of(exe) == {e \in details : exe_of(e) = exe}
    IN  IF r.expected # NoExe THEN Of(r.expected)
        ELSE IF Of(EXE_NAME_WINWS1) # {} THEN Of(EXE_NAME_WINWS1)
        ELSE Of(EXE_NAME_WINWS2)

\* mark_running(pid=..., expected_process=...) for a process the monitor saw.
mark_observed(r, e) ==
    [r EXCEPT !.phase = "running", !.pid = e.pid, !.expected = exe_of(e), !.miss = 0]

\* A scan that did not list the tracked process while the phase is "running":
\* live is what Windows says now of the tracked pid.
probe_missed(r, live) ==
    LET miss == IF r.miss < MissLimit THEN r.miss + 1 ELSE MissLimit
    IN  IF \E e \in live : e.pid = r.pid /\ r.expected \in {NoExe, exe_of(e)}
          THEN [r EXCEPT !.miss = 0]
        ELSE IF miss >= MissLimit /\ r.expected # NoExe
          THEN mark_start_failed(r)
        ELSE [r EXCEPT !.miss = miss]

\* The states observe_process_details may leave: one per process it may match.
observe_process_details(r, details, live) ==
    LET matched == matched_engines(r, details)
    IN  CASE r.phase \in {"starting", "autostart_pending"} ->
                IF matched = {} THEN {r} ELSE {mark_observed(r, e) : e \in matched}
          [] r.phase = "running" ->
                IF matched = {} THEN {probe_missed(r, live)}
                ELSE {IF e.pid = r.pid THEN [r EXCEPT !.miss = 0]
                                       ELSE mark_observed(r, e) : e \in matched}
          [] r.phase = "stopping" ->
                IF matched = {} THEN {mark_stopped(r)}
                ELSE {IF e.pid = r.pid THEN r
                      ELSE [r EXCEPT !.pid = e.pid, !.expected = exe_of(e)]
                         : e \in matched}
          [] OTHER -> {r}
=============================================================================
