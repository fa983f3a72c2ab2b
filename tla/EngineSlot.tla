----------------------------- MODULE EngineSlot -----------------------------
(***************************************************************************)
(* What the runner of winws2 promises to those who call it: one engine at   *)
(* most serves the traffic, and a fast switch is all or nothing.  The        *)
(* traffic goes through the old preset until the new one has confirmed its   *)
(* start, and a switch that fails leaves the old one in place.  Only a       *)
(* start, a stop and a pause may leave the traffic without an engine, and a  *)
(* result that is reported is the one that was reached.                     *)
(***************************************************************************)

CONSTANTS Presets, NoPreset

VARIABLES engine,   \* the preset of the engine that serves, or NoPreset
          job,      \* the operation that is under way
          outcome   \* how the last one ended

vars == <<engine, job, outcome>>

Starting == {"switch", "start", "pause"}   \* they end with an engine of their preset
Stopping == {"start", "stop", "pause"}     \* they may take the engine away

NoJob == [kind |-> "none", want |-> NoPreset, before |-> NoPreset, died |-> FALSE]

Init ==
    /\ engine = NoPreset /\ job = NoJob
    /\ outcome = [kind |-> "none", is |-> "done"]

Begin ==
    /\ job = NoJob
    /\ \E kind \in Starting \cup Stopping, want \in Presets \cup {NoPreset} :
         job' = [kind |-> kind, want |-> want, before |-> engine, died |-> FALSE]
    /\ UNCHANGED <<engine, outcome>>

Put == job.kind \in Starting /\ engine' = job.want /\ UNCHANGED <<job, outcome>>

Drop == job.kind \in Stopping /\ engine' = NoPreset /\ UNCHANGED <<job, outcome>>

Die ==
    /\ engine # NoPreset /\ engine' = NoPreset
    /\ job' = [job EXCEPT !.died = job.kind # "none"]
    /\ UNCHANGED outcome

(* An engine left by an earlier run of the program is taken over. *)
Adopt == job = NoJob /\ engine = NoPreset /\ engine' \in Presets /\ UNCHANGED <<job, outcome>>

reached(is) ==
    CASE is = "done" /\ job.kind \in Starting -> engine = job.want \/ job.died
      [] is = "done" /\ job.kind = "stop" -> engine = NoPreset
      [] is # "done" /\ job.kind = "switch" -> engine = job.before \/ job.died
      [] OTHER -> engine \in {NoPreset, job.before}

Finish ==
    /\ job # NoJob /\ job' = NoJob
    /\ \E is \in {"done", "stale", "failed"} :
         reached(is) /\ outcome' = [kind |-> job.kind, is |-> is]
    /\ UNCHANGED engine

Next == Begin \/ Put \/ Drop \/ Die \/ Adopt \/ Finish

(* Every operation ends: no retry goes on for ever. *)
Spec == Init /\ [][Next]_vars /\ WF_vars(Finish)
=============================================================================
