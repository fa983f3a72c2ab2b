------------------------ MODULE MCPresetCoordinator ------------------------
(* The default preset, at first as the program ships it, and another one, at *)
(* first in the folder of the user alone; each may get its other file.       *)
EXTENDS PresetRuntimeCoordinator

NoWindows == {}
MCInit == Init /\ there = {builtin(Default)} \cup {user(p) : p \in Presets \ {Default}}
MCSpec == MCInit /\ [][Next]_vars /\ WF_vars(Program)
=============================================================================
