-------------------------- MODULE MCLaunchRuntime --------------------------
(* The instances of LaunchRuntime that TLC checks: which modes the user may   *)
(* select, and how often each command and event happens.  A run leaves out of *)
(* its bounds what its question is not about; the README says why.            *)
EXTENDS LaunchRuntime, TLC

\* The processes differ in name only, and no property picks one by CHOOSE.
Symmetry == Permutations(Pids)

Zapret2Only == {ZAPRET2_MODE}

Never == [k \in Kinds |-> 0]

\* Restarts and preset switches that overtake each other.
SwitchesBounds == [Never EXCEPT !["start"] = 1, !["restart"] = 2, !["apply"] = 2]

\* Two changes of mode in a row, with a launch that fails.
ModesBounds == [Never EXCEPT !["start"] = 1, !["method"] = 2, !["fail"] = 1]

\* A change of mode under a preset switch and a restart.
HandoverBounds ==
    [Never EXCEPT !["start"] = 1, !["method"] = 1, !["restart"] = 1, !["apply"] = 1]

RequestBounds == {SwitchesBounds, ModesBounds, HandoverBounds}

\* Every command in one mode, with a failure, an engine that dies and a start
\* that a stop does not wait for.
CommandsBounds ==
    [Never EXCEPT !["start"] = 2, !["stop"] = 1, !["restart"] = 1, !["apply"] = 1,
                  !["crash"] = 1, !["fail"] = 1, !["slow"] = 1]

\* A strategy scan that takes the engine from a start or a switch, the process
\* monitor, and engines that die or that survive the scan's shutdown.
ScanBounds ==
    [Never EXCEPT !["start"] = 1, !["apply"] = 1, !["scan"] = 1, !["crash"] = 1,
                  !["observe"] = 1, !["fail"] = 1, !["killfail"] = 1]

RaceBounds == {CommandsBounds, ScanBounds}

\* The scenario of the finding.
StopDuringSwitchBounds == {[Never EXCEPT !["start"] = 1, !["stop"] = 1, !["apply"] = 1]}
=============================================================================
