------------------------- MODULE MCPresetSetupPage -------------------------
(* A switch of one profile, a move, and the user profile u.                  *)
EXTENDS PresetSetupPage, TLC

Symmetry == Permutations(Presets)

MCAsks == {[kind |-> "context", action |-> "set_enabled", key |-> "k"],
           [kind |-> "move", action |-> "move", key |-> "k"],
           [kind |-> "user_profile", action |-> "update", key |-> "u"],
           [kind |-> "user_profile", action |-> "create", key |-> "new"]}
MCRowAsks == {[kind |-> "context", action |-> "set_enabled", key |-> "k"]}

NoWindows == {}
=============================================================================
