-------------------------- MODULE PresetSelection --------------------------
(***************************************************************************)
(* presets/selection_service.py, presets/ui_store.py and file_store.py:     *)
(* which preset is selected, which of its files is read, which preset is    *)
(* used while the selected one has none, and the signals that tell of it.   *)
(*                                                                          *)
(* A preset has a file the program ships, one in the folder of the user, or *)
(* both; the user's shadows the other, and the program writes only it.  The *)
(* text of a file is the number of changes made to it.  A missing selection *)
(* is replaced by Default, whose built-in file is never removed here.       *)
(* Signals are handled by the GUI thread in the order they were emitted;    *)
(* those emitted in that thread are handled at once in the program and      *)
(* later here as well.                                                      *)
(***************************************************************************)
EXTENDS Naturals, Sequences

CONSTANTS Presets, NoPreset,
          Default,      \* DEFAULT_PRESET_FILE_NAME_BY_ENGINE
          MaxChanges,   \* bound: selections, and changes by other programs
          MaxWrites     \* bound: writes of the program

Files == [name : Presets, scope : {"user", "builtin"}]
user(p) == [name |-> p, scope |-> "user"]
builtin(p) == [name |-> p, scope |-> "builtin"]

ASSUME SelectionAssumption ==
    /\ Default \in Presets /\ NoPreset \notin Presets /\ NoPreset \notin Files
    /\ MaxChanges \in Nat /\ MaxWrites \in Nat

VARIABLES
    there,       \* the files that are there
    content,     \* the text of each file
    selected,    \* the selection in the settings
    fallback,    \* the missing preset of _active_fallbacks, or NoPreset
    sent,        \* _selected_source_file_name of the UI store, or NoPreset
    signals,     \* signals of the UI store on their way
    changes, writes    \* counters of the bounds

fileVars == <<there, content>>
countVars == <<changes, writes>>
selectionVars == <<there, content, selected, fallback, sent, signals, countVars>>

(* _scan_manifests_from_files: the presets that can be used, and the file    *)
(* that is read for each.                                                    *)
exists == {p \in Presets : user(p) \in there \/ builtin(p) \in there}
file(p) == IF user(p) \in there THEN user(p) ELSE builtin(p)

Signals == [kind : {"fallback", "restored", "switched", "content"}, preset : Presets]

SelectionTypeOK ==
    /\ there \subseteq Files /\ builtin(Default) \in there
    /\ content \in [Files -> 0..(MaxWrites + MaxChanges)]
    /\ selected \in Presets
    /\ fallback \in Presets \cup {NoPreset} /\ sent \in Presets \cup {NoPreset}
    /\ signals \in Seq(Signals)
    /\ changes \in 0..MaxChanges /\ writes \in 0..MaxWrites

SelectionInit ==
    /\ there \in SUBSET Files /\ builtin(Default) \in there /\ exists = Presets
    /\ content = [f \in Files |-> 0]
    /\ selected \in Presets
    /\ fallback = NoPreset /\ sent = NoPreset /\ signals = <<>>
    /\ changes = 0 /\ writes = 0

-----------------------------------------------------------------------------

signal(kind, p) == [kind |-> kind, preset |-> p]
effective == IF selected \in exists THEN selected ELSE Default

restored == selected \in exists /\ fallback # NoPreset
replaced == selected \notin exists /\ fallback # selected

(* What ensure_selected_manifest tells the first time it uses another preset *)
(* than before: the missing one is replaced, or its file is back.            *)
news == IF restored THEN <<signal("restored", selected), signal("switched", selected)>>
        ELSE IF replaced THEN <<signal("fallback", Default)>> ELSE <<>>
missing == IF restored THEN NoPreset ELSE IF replaced THEN selected ELSE fallback
told == IF restored THEN selected ELSE sent

(* ensure_selected_manifest: every reader of the selection calls it.         *)
ensure_selected_manifest ==
    /\ fallback' = missing /\ sent' = told /\ signals' = signals \o news
    /\ UNCHANGED <<fileVars, selected, countVars>>

(* select_file_name: the selection is looked up first, then changed.  The    *)
(* choice of a preset already sent is not sent again.                        *)
select_file_name(p) ==
    /\ p \in exists /\ changes < MaxChanges
    /\ changes' = changes + 1
    /\ selected' = p /\ fallback' = NoPreset
    /\ IF (p # selected \/ missing # NoPreset) /\ told # p
       THEN sent' = p /\ signals' = signals \o news \o <<signal("switched", p)>>
       ELSE sent' = told /\ signals' = signals \o news
    /\ UNCHANGED <<fileVars, writes>>

publish_content(p) ==
    /\ fallback' = missing /\ sent' = told
    /\ signals' = signals \o news \o <<signal("content", p)>>

(* update_preset: a save of a preset, also of a built-in one, writes the     *)
(* user's file; with the signal unless the editor saves a draft.             *)
save_source_text(p, publish) ==
    /\ p \in exists /\ writes < MaxWrites
    /\ writes' = writes + 1
    /\ there' = there \cup {user(p)}
    /\ content' = [content EXCEPT ![user(p)] = @ + 1]
    /\ IF publish THEN publish_content(p) ELSE UNCHANGED <<fallback, sent, signals>>
    /\ UNCHANGED <<selected, changes>>

(* The editor is left: its draft is on the disk already and only told of.    *)
commit_draft(p) ==
    /\ user(p) \in there
    /\ publish_content(p)
    /\ UNCHANGED <<fileVars, selected, countVars>>

(* Another program changes, removes or puts back a file of a preset.         *)
foreign_change(files, texts) ==
    /\ changes < MaxChanges /\ changes' = changes + 1
    /\ there' = files /\ content' = texts
    /\ UNCHANGED <<selected, fallback, sent, signals, writes>>
=============================================================================
