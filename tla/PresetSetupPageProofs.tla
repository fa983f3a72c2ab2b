----------------------- MODULE PresetSetupPageProofs -----------------------
(* The page of profiles, for any presets, commands, failures and changes of   *)
(* the selection; each theorem names the moments of Windows it leaves out.    *)
(*                                                                            *)
(* What is asked for on the rows of a preset is written into that preset and  *)
(* no write undoes another: the service looks the selection up twice and      *)
(* writes the whole text, so the queue must keep one worker at a time, meant  *)
(* for the preset selected throughout (Inv).  No command is forgotten         *)
(* (OwedInv), none is written over a newer one (OrderInv), and the list on    *)
(* the screen catches up with the selection and the texts (ListInv).          *)
EXTENDS PresetSetupPage, SequenceTheorems, WellFoundedInduction, TLAPS

-----------------------------------------------------------------------------
(* The inductive invariant *)

Jobs == [at : {"none", "wait", "save", "ended"}, op : Operations \cup {NoOp},
         read : Texts \cup {NoText}]
Loads == [at : {"none", "reads", "builds", "emitted", "ended"}, list : Lists \cup {NoList},
          current : BOOLEAN, told : BOOLEAN, failed : BOOLEAN, behind : Nat]

TypeInv ==
    /\ \A e \in pending : e.op \in Operations
    /\ start_scheduled \in Operations \cup {NoOp}
    /\ worker \in [Runtimes -> Jobs]
    /\ selected \in Presets /\ active \in Presets /\ displayed \in Presets
    /\ told \in Seq(Presets)
    /\ text \in [Presets -> Texts]
    /\ clicks \in Nat
    /\ load \in Loads /\ apply \in Lists \cup {NoList}

\* An operation on the rows names the preset it was asked for on.
Stamped(op) == preset_bound(op.ask) => op.preset \in Presets

StampInv ==
    /\ \A e \in pending : Stamped(e.op)
    /\ start_scheduled # NoOp => Stamped(start_scheduled)

busy(r) == worker[r].at # "none"

\* There is one worker, and none beside an operation that is about to start.
OneWorker ==
    /\ \A r, s \in Runtimes : busy(r) /\ busy(s) => r = s
    /\ start_scheduled # NoOp => \A r \in Runtimes : ~ busy(r)

\* The store shows the selected preset once every notice is delivered.
ToldInv ==
    /\ told = <<>> => active = selected
    /\ told # <<>> => told[Len(told)] = selected

\* The worker of a row is meant for the selected preset and holds its text.
WorkerInv ==
    /\ is_running("context") => worker["context"].op.preset = selected
    /\ worker["context"].at = "save" => worker["context"].read = text[selected]
    /\ \A r \in Runtimes : is_running(r) => worker[r].op \in Operations
    /\ \A r \in user_runtimes : is_running(r) => ~ preset_bound(worker[r].op.ask)

Inv == TypeInv /\ StampInv /\ OneWorker /\ ToldInv /\ WorkerInv /\ RightPreset

-----------------------------------------------------------------------------
(* The operations *)

\* Each operation has its runtime, that of a row "context" or "move".
LEMMA Runtime ==
    ASSUME NEW op \in Operations
    PROVE  /\ runtime_of(op.ask) \in Runtimes
           /\ runtime_of(op.ask) \in user_runtimes <=> ~ preset_bound(op.ask)
           /\ op # NoOp
  BY QueueAssumption DEF Operations, runtime_of, preset_bound, Kinds, Runtimes, user_runtimes

\* What is put into the queue joins a part of what was there.
LEMMA Queued ==
    ASSUME NEW queue, NEW op, NEW e \in queue_operation(queue, op)
    PROVE  e \in queue \/ e.op = op
  BY DEF queue_operation

\* A worker at rest starts an operation meant for the selected preset.
LEMMA StartedWell ==
    ASSUME Inv, NEW op \in Operations, start_worker(op),
           \A r \in Runtimes : ~ busy(r),
           preset_bound(op.ask) => op.preset = selected,
           start_scheduled' = NoOp, UNCHANGED <<selected, text>>
    PROVE  worker' \in [Runtimes -> Jobs] /\ OneWorker' /\ WorkerInv'
  <1> DEFINE r0 == runtime_of(op.ask)
             new == [at |-> "wait", op |-> op, read |-> NoText]
  <1>1. r0 \in Runtimes /\ (r0 \in user_runtimes <=> ~ preset_bound(op.ask))
    BY Runtime
  <1>2. new \in Jobs
    BY DEF Jobs
  <1>3. worker' = [worker EXCEPT ![r0] = new]
    BY DEF start_worker
  <1>4. worker' \in [Runtimes -> Jobs]
    BY <1>1, <1>2, <1>3 DEF Inv, TypeInv
  <1>5. worker'[r0] = new /\ \A r \in Runtimes : r # r0 => worker'[r].at = "none"
    BY <1>1, <1>3 DEF Inv, TypeInv, busy
  <1>6. OneWorker'
    BY <1>5 DEF OneWorker, busy
  <1>7. "context" \in Runtimes /\ "context" \notin user_runtimes /\ user_runtimes \subseteq Runtimes
    BY DEF Runtimes, user_runtimes
  <1>8. WorkerInv'
    BY <1>1, <1>5, <1>7 DEF WorkerInv, is_running
  <1> QED
    BY <1>4, <1>6, <1>8

-----------------------------------------------------------------------------
(* Inductiveness *)

LEMMA InitInv == Init => Inv
  <1> SUFFICES ASSUME Init PROVE Inv
    OBVIOUS
  <1> USE DEF Init, QueueInit
  <1>1. NoLoad \in Loads
    BY DEF NoLoad, Loads
  <1>2. [r \in Runtimes |-> Idle] \in [Runtimes -> Jobs]
    BY DEF Idle, Jobs
  <1>3. TypeInv
    BY <1>1, <1>2 DEF TypeInv, Texts
  <1>4. \A r \in Runtimes : worker[r].at = "none"
    BY DEF Idle
  <1>5. "context" \in Runtimes /\ user_runtimes \subseteq Runtimes
    BY DEF Runtimes, user_runtimes
  <1>6. OneWorker /\ WorkerInv
    BY <1>4, <1>5 DEF OneWorker, WorkerInv, busy, is_running
  <1>7. StampInv /\ ToldInv /\ RightPreset
    BY DEF StampInv, ToldInv, RightPreset
  <1> QED
    BY <1>3, <1>6, <1>7 DEF Inv

\* A click: the worker starts when none is there, and the row it was given on
\* belongs to the selected preset.
LEMMA ClickKeepsInv ==
    ASSUME {"finish", "select"} \cap Windows = {}, Inv, NEW a \in Asks, Click(a)
    PROVE  Inv'
  <1> DEFINE op == [id |-> clicks + 1, ask |-> a,
                    preset |-> IF preset_bound(a) THEN displayed ELSE NoPreset]
  <1> USE DEF Inv
  <1>1. op \in Operations /\ Stamped(op) /\ op.ask = a
    BY QueueAssumption DEF Click, Request, TypeInv, Operations, Stamped
  <1>2. /\ clicks' \in Nat
        /\ UNCHANGED <<start_scheduled, selected, told, active, text, displayed, load, apply>>
    BY DEF Click, Request, presetVars, loaderVars, TypeInv
  <1>3. ToldInv' /\ RightPreset'
    BY <1>2 DEF ToldInv, RightPreset
  <1>4. CASE operation_running
    <2>1. UNCHANGED worker /\ pending' = queue_operation(pending, op)
      BY <1>4 DEF Click, Request
    <2>2. \A e \in pending' : e.op \in Operations /\ Stamped(e.op)
      BY <1>1, <2>1, Queued DEF TypeInv, StampInv
    <2>3. TypeInv' /\ StampInv'
      BY <1>2, <2>1, <2>2 DEF TypeInv, StampInv
    <2>4. OneWorker' /\ WorkerInv'
      BY <1>2, <2>1 DEF OneWorker, WorkerInv, busy, is_running
    <2> QED
      BY <1>3, <2>3, <2>4
  <1>5. CASE ~ operation_running
    <2>1. start_worker(op) /\ UNCHANGED pending
      BY <1>5 DEF Click, Request
    <2>2. \A r \in Runtimes : worker[r].at \in {"none", "wait", "save", "ended"}
      BY DEF TypeInv, Jobs
    <2>3. \A r \in Runtimes : worker[r].at # "ended"
      BY DEF Click, Request
    <2>4. start_scheduled = NoOp /\ \A r \in Runtimes : ~ is_running(r)
      BY <1>5 DEF operation_running, user_profile_operation_running, Runtimes, user_runtimes
    <2>5. \A r \in Runtimes : ~ busy(r)
      BY <2>2, <2>3, <2>4 DEF busy, is_running
    <2>6. preset_bound(a) => op.preset = selected
      BY <1>1 DEF Click, Request, list_is_stale, switch_seen, ToldInv
    <2>7. worker' \in [Runtimes -> Jobs] /\ OneWorker' /\ WorkerInv'
      BY <1>1, <1>2, <2>1, <2>4, <2>5, <2>6, StartedWell
    <2>8. TypeInv' /\ StampInv'
      BY <1>2, <2>1, <2>7 DEF TypeInv, StampInv
    <2> QED
      BY <1>3, <2>7, <2>8
  <1> QED
    BY <1>4, <1>5

\* A finished worker makes room for one scheduled operation.
LEMMA FinishedKeepsInv ==
    ASSUME Inv, NEW r \in Runtimes, Finished(r)
    PROVE  Inv'
  <1> USE DEF Inv
  <1>1. /\ worker[r].at = "ended" /\ worker' = [worker EXCEPT ![r] = Idle] /\ schedule_next
        /\ UNCHANGED <<selected, told, active, text, clicks, displayed, load, apply>>
    BY DEF Finished, WorkerFinished, presetVars, countVars, loaderVars
  <1>2. start_scheduled = NoOp /\ \A s \in Runtimes : s # r => ~ busy(s)
    BY <1>1 DEF OneWorker, busy
  <1>3. /\ pending' \subseteq pending
        /\ start_scheduled' = NoOp \/ \E e \in pending : start_scheduled' = e.op
    BY <1>1, <1>2 DEF schedule_next
  <1>4. worker' \in [Runtimes -> Jobs] /\ \A s \in Runtimes : worker'[s].at = "none"
    BY <1>1, <1>2 DEF TypeInv, Idle, Jobs, busy
  <1>5. TypeInv' /\ StampInv'
    BY <1>1, <1>3, <1>4 DEF TypeInv, StampInv
  <1>6. "context" \in Runtimes /\ user_runtimes \subseteq Runtimes
    BY DEF Runtimes, user_runtimes
  <1>7. OneWorker' /\ WorkerInv'
    BY <1>4, <1>6 DEF OneWorker, WorkerInv, busy, is_running
  <1>8. ToldInv' /\ RightPreset'
    BY <1>1 DEF ToldInv, RightPreset
  <1> QED
    BY <1>5, <1>7, <1>8

\* A scheduled operation starts when it is still meant for the preset shown.
LEMMA ScheduledKeepsInv ==
    ASSUME {"finish", "select"} \cap Windows = {}, Inv, Scheduled
    PROVE  Inv'
  <1> DEFINE op == start_scheduled
             fit == {e \in pending : ~ targets_other_preset(e.op)}
  <1> USE DEF Inv
  <1>1. /\ op \in Operations /\ start_scheduled' = NoOp
        /\ UNCHANGED <<selected, told, active, text, clicks, displayed, load, apply>>
    BY DEF Scheduled, RunScheduled, presetVars, countVars, loaderVars, TypeInv
  <1>2. Stamped(op) /\ \A r \in Runtimes : ~ busy(r)
    BY <1>1, QueueAssumption DEF StampInv, OneWorker
  <1>3. \A r \in Runtimes : ~ is_running(r)
    BY <1>2 DEF busy, is_running
  <1>4. ToldInv' /\ RightPreset'
    BY <1>1 DEF ToldInv, RightPreset
  <1>5. ASSUME NEW o \in Operations, Stamped(o), ~ targets_other_preset(o), switch_seen(o)
        PROVE  preset_bound(o.ask) => o.preset = selected
    BY <1>5, QueueAssumption
       DEF Stamped, targets_other_preset, switch_seen, ToldInv
  <1>6. ASSUME NEW o \in Operations, Stamped(o), ~ targets_other_preset(o), switch_seen(o),
               start_worker(o), pending' \subseteq pending
        PROVE  Inv'
    <2>1. worker' \in [Runtimes -> Jobs] /\ OneWorker' /\ WorkerInv'
      BY <1>1, <1>2, <1>5, <1>6, StartedWell
    <2>2. TypeInv' /\ StampInv'
      BY <1>1, <1>6, <2>1 DEF TypeInv, StampInv
    <2> QED
      BY <1>4, <2>1, <2>2
  <1>7. CASE ~ targets_other_preset(op) /\ switch_seen(op) /\ start_worker(op) /\ UNCHANGED pending
    BY <1>1, <1>2, <1>6, <1>7
  <1>8. CASE pending' = {} /\ UNCHANGED worker
    <2>1. TypeInv' /\ StampInv'
      BY <1>1, <1>8 DEF TypeInv, StampInv
    <2>2. OneWorker' /\ WorkerInv'
      BY <1>1, <1>8 DEF OneWorker, WorkerInv, busy, is_running
    <2> QED
      BY <1>4, <2>1, <2>2
  <1>9. ASSUME NEW e \in fit, switch_seen(e.op), start_worker(e.op), pending' \subseteq pending
        PROVE  Inv'
    <2>1. e.op \in Operations /\ Stamped(e.op) /\ ~ targets_other_preset(e.op)
      BY DEF TypeInv, StampInv
    <2> QED
      BY <1>6, <1>9, <2>1
  <1>10. \/ ~ targets_other_preset(op) /\ switch_seen(op) /\ start_worker(op) /\ UNCHANGED pending
         \/ pending' = {} /\ UNCHANGED worker
         \/ \E e \in fit : switch_seen(e.op) /\ start_worker(e.op) /\ pending' \subseteq pending
    BY <1>3 DEF Scheduled, RunScheduled
  <1> QED
    BY <1>7, <1>8, <1>9, <1>10

\* The threads of the writers: the service finds the same preset both times.
LEMMA LoadKeepsInv ==
    ASSUME Inv, Load, UNCHANGED loaderVars
    PROVE  Inv'
  <1> USE DEF Inv
  <1>1. "context" \in Runtimes /\ "context" \notin user_runtimes /\ user_runtimes \subseteq Runtimes
    BY DEF Runtimes, user_runtimes
  <1>2. /\ worker["context"].at = "wait"
        /\ worker' = [worker EXCEPT !["context"].at = "save", !["context"].read = text[selected]]
        /\ UNCHANGED <<pending, start_scheduled, selected, told, active, text, clicks,
                       displayed, load, apply>>
    BY DEF Load, presetVars, countVars, loaderVars
  <1>3. worker["context"] \in Jobs /\ text[selected] \in Texts
    BY <1>1 DEF TypeInv
  <1>4. worker' = [worker EXCEPT !["context"] =
                     [worker["context"] EXCEPT !.at = "save", !.read = text[selected]]]
    BY <1>1, <1>2, <1>3 DEF TypeInv, Jobs
  <1>5. [worker["context"] EXCEPT !.at = "save", !.read = text[selected]] \in Jobs
    BY <1>3 DEF Jobs
  <1>6. worker' \in [Runtimes -> Jobs]
    BY <1>1, <1>4, <1>5 DEF TypeInv
  <1>7. /\ worker'["context"].at = "save" /\ worker'["context"].read = text[selected]
        /\ worker'["context"].op = worker["context"].op
        /\ \A r \in Runtimes : r # "context" => worker'[r] = worker[r]
    BY <1>1, <1>3, <1>4 DEF TypeInv, Jobs
  <1>8. TypeInv' /\ StampInv'
    BY <1>2, <1>6 DEF TypeInv, StampInv
  <1>9. \A r \in Runtimes : worker'[r].at # "none" <=> worker[r].at # "none"
    BY <1>1, <1>2, <1>7
  <1>10. OneWorker'
    BY <1>2, <1>9 DEF OneWorker, busy
  <1>11. WorkerInv'
    BY <1>1, <1>2, <1>7 DEF WorkerInv, is_running
  <1>12. ToldInv' /\ RightPreset'
    BY <1>2 DEF ToldInv, RightPreset
  <1> QED
    BY <1>8, <1>10, <1>11, <1>12

\* A worker that ended holds nothing the invariant speaks of.
LEMMA Ended ==
    ASSUME Inv, NEW r \in Runtimes, busy(r), ends(r), UNCHANGED <<start_scheduled, selected>>
    PROVE  worker' \in [Runtimes -> Jobs] /\ OneWorker' /\ WorkerInv'
  <1> USE DEF Inv
  <1>1. worker[r] \in Jobs
    BY DEF TypeInv
  <1> DEFINE new == [worker[r] EXCEPT !.at = "ended", !.read = NoText]
  <1>2. worker' = [worker EXCEPT ![r] = new] /\ new \in Jobs /\ new.at = "ended"
    BY <1>1 DEF ends, TypeInv, Jobs
  <1>3. worker' \in [Runtimes -> Jobs]
    BY <1>2 DEF TypeInv
  <1>4. worker'[r].at = "ended" /\ \A s \in Runtimes : s # r => worker'[s] = worker[s]
    BY <1>2 DEF TypeInv
  <1>5. start_scheduled = NoOp /\ \A s \in Runtimes : s # r => worker[s].at = "none"
    BY DEF OneWorker, busy
  <1>6. OneWorker'
    BY <1>4, <1>5 DEF OneWorker, busy
  <1>7. "context" \in Runtimes /\ user_runtimes \subseteq Runtimes
    BY DEF Runtimes, user_runtimes
  <1>8. \A s \in Runtimes : worker'[s].at \in {"ended", "none"}
    BY <1>4, <1>5
  <1>9. WorkerInv'
    BY <1>7, <1>8 DEF WorkerInv, is_running
  <1> QED
    BY <1>3, <1>6, <1>9

LEMMA SaveKeepsInv ==
    ASSUME Inv, Save, UNCHANGED loaderVars
    PROVE  /\ Inv'
           /\ \A p \in Presets : text[p].edits \subseteq text'[p].edits
  <1> USE DEF Inv
  <1> DEFINE op == worker["context"].op
             new == [of |-> worker["context"].read.of, edits |-> worker["context"].read.edits \cup {op}]
  <1>1. /\ worker["context"].at = "save" /\ ends("context")
        /\ text' = [text EXCEPT ![selected] = new]
        /\ UNCHANGED <<pending, start_scheduled, selected, told, active, clicks,
                       displayed, load, apply>>
    BY DEF Save, presetVars, countVars, loaderVars
  <1>2. "context" \in Runtimes /\ is_running("context") /\ busy("context")
    BY <1>1 DEF Runtimes, is_running, busy
  <1>3. /\ op \in Operations /\ op.preset = selected
        /\ worker["context"].read = text[selected]
    BY <1>1, <1>2 DEF WorkerInv
  <1>4. text[selected] \in Texts /\ text[selected].of = selected
    BY DEF TypeInv, RightPreset
  <1>5. new \in Texts /\ new.of = selected /\ new.edits = text[selected].edits \cup {op}
    BY <1>3, <1>4 DEF Texts
  <1>6. /\ text' \in [Presets -> Texts] /\ text'[selected] = new
        /\ \A p \in Presets : p # selected => text'[p] = text[p]
    BY <1>1, <1>5 DEF TypeInv
  <1>7. worker' \in [Runtimes -> Jobs] /\ OneWorker' /\ WorkerInv'
    BY <1>1, <1>2, Ended
  <1>8. TypeInv' /\ StampInv' /\ ToldInv'
    BY <1>1, <1>6, <1>7 DEF TypeInv, StampInv, ToldInv
  <1>9. RightPreset'
    BY <1>3, <1>5, <1>6 DEF RightPreset
  <1>10. \A p \in Presets : text[p].edits \subseteq text'[p].edits
    BY <1>5, <1>6
  <1> QED
    BY <1>7, <1>8, <1>9, <1>10

LEMMA SaveUserProfileKeepsInv ==
    ASSUME Inv, NEW r \in user_runtimes, SaveUserProfile(r), UNCHANGED loaderVars
    PROVE  /\ Inv'
           /\ \A p \in Presets : text[p].edits \subseteq text'[p].edits
  <1> USE DEF Inv
  <1> DEFINE op == worker[r].op
             new(p) == [text[p] EXCEPT !.edits = @ \cup {op}]
  <1>1. /\ worker[r].at = "wait" /\ ends(r)
        /\ \/ UNCHANGED text
           \/ text' = [p \in Presets |-> new(p)]
        /\ UNCHANGED <<pending, start_scheduled, selected, told, active, clicks,
                       displayed, load, apply>>
    BY DEF SaveUserProfile, presetVars, countVars, loaderVars
  <1>2. r \in Runtimes /\ busy(r) /\ op \in Operations /\ ~ preset_bound(op.ask)
    BY <1>1 DEF Runtimes, user_runtimes, busy, is_running, WorkerInv
  <1>3. \A p \in Presets : /\ new(p) \in Texts /\ new(p).of = text[p].of
                           /\ new(p).edits = text[p].edits \cup {op}
    BY <1>2 DEF TypeInv, Texts
  <1>4. \A p \in Presets : text'[p] = text[p] \/ text'[p] = new(p)
    BY <1>1
  <1>5. text' \in [Presets -> Texts]
    BY <1>1, <1>3 DEF TypeInv
  <1>6. worker' \in [Runtimes -> Jobs] /\ OneWorker' /\ WorkerInv'
    BY <1>1, <1>2, Ended
  <1>7. TypeInv' /\ StampInv' /\ ToldInv'
    BY <1>1, <1>5, <1>6 DEF TypeInv, StampInv, ToldInv
  <1>8. ASSUME NEW p \in Presets
        PROVE  /\ text'[p].of = p
               /\ \A o \in text'[p].edits : preset_bound(o.ask) => o.preset = p
    <2>1. text[p].of = p /\ \A o \in text[p].edits : preset_bound(o.ask) => o.preset = p
      BY DEF RightPreset
    <2>2. text'[p].of = text[p].of /\ text'[p].edits \subseteq text[p].edits \cup {op}
      BY <1>3, <1>4
    <2> QED
      BY <1>2, <2>1, <2>2
  <1>9. RightPreset'
    BY <1>8 DEF RightPreset
  <1>10. \A p \in Presets : text[p].edits \subseteq text'[p].edits
    BY <1>3, <1>4
  <1> QED
    BY <1>6, <1>7, <1>9, <1>10

\* A worker that only ends: a move, which goes to the folders, and a failure.
LEMMA EndKeepsInv ==
    ASSUME Inv, NEW r \in Runtimes, busy(r), ends(r),
           UNCHANGED <<pending, start_scheduled, selected, told, active, text, clicks,
                       displayed, load, apply>>
    PROVE  Inv'
  <1> USE DEF Inv
  <1>1. worker' \in [Runtimes -> Jobs] /\ OneWorker' /\ WorkerInv'
    BY Ended
  <1>2. TypeInv' /\ StampInv' /\ ToldInv' /\ RightPreset'
    BY <1>1 DEF TypeInv, StampInv, ToldInv, RightPreset
  <1> QED
    BY <1>1, <1>2

LEMMA WritesKeepsInv ==
    ASSUME Inv, Writes
    PROVE  /\ Inv'
           /\ \A p \in Presets : text[p].edits \subseteq text'[p].edits
  <1>1. CASE Load
    <2>1. UNCHANGED text
      BY <1>1 DEF Load, presetVars
    <2> QED
      BY <1>1, <2>1, LoadKeepsInv DEF Writes
  <1>2. CASE Save
    BY <1>2, SaveKeepsInv DEF Writes
  <1>3. CASE SaveMove
    <2>1. "move" \in Runtimes /\ busy("move")
      BY <1>3 DEF SaveMove, Runtimes, busy
    <2>2. ends("move") /\ UNCHANGED <<pending, start_scheduled, selected, told, active, text,
                                      clicks, displayed, load, apply>>
      BY <1>3 DEF Writes, SaveMove, countVars, loaderVars
    <2> QED
      BY <2>1, <2>2, EndKeepsInv
  <1>4. CASE \E r \in user_runtimes : SaveUserProfile(r)
    BY <1>4, SaveUserProfileKeepsInv DEF Writes
  <1> QED
    BY <1>1, <1>2, <1>3, <1>4 DEF Writes

LEMMA BreaksKeepsInv ==
    ASSUME Inv, Breaks
    PROVE  Inv' /\ UNCHANGED text
  <1>1. PICK r \in Runtimes : WriteFails(r)
    BY DEF Breaks
  <1>2. busy(r) /\ ends(r)
    BY <1>1 DEF WriteFails, is_running, busy
  <1>3. UNCHANGED <<pending, start_scheduled, selected, told, active, text, clicks, displayed,
                    load, apply>>
    BY <1>1 DEF Breaks, WriteFails, presetVars, loaderVars
  <1> QED
    BY <1>2, <1>3, EndKeepsInv

\* The user selects another preset: no worker of a row is at work then.
LEMMA SelectKeepsInv ==
    ASSUME {"finish", "select"} \cap Windows = {}, Inv, NEW p \in Presets, Select(p)
    PROVE  Inv'
  <1> USE DEF Inv
  <1>1. /\ ~ is_running("context") /\ selected' = p /\ told' = Append(told, p)
        /\ UNCHANGED <<pending, start_scheduled, worker, active, text, clicks, displayed, load, apply>>
    BY DEF Select, SelectPreset, queueVars, loaderVars
  <1>2. told' \in Seq(Presets) /\ told' # <<>> /\ told'[Len(told')] = p
    BY <1>1 DEF TypeInv
  <1>3. TypeInv' /\ StampInv'
    BY <1>1, <1>2 DEF TypeInv, StampInv
  <1>4. OneWorker' /\ WorkerInv'
    BY <1>1 DEF OneWorker, WorkerInv, busy, is_running
  <1>5. ToldInv' /\ RightPreset'
    BY <1>1, <1>2 DEF ToldInv, RightPreset
  <1> QED
    BY <1>3, <1>4, <1>5

\* A notice of the store: the last one names the selected preset.
LEMMA ActivePresetKeepsInv ==
    ASSUME Inv, ActivePreset
    PROVE  Inv'
  <1> USE DEF Inv
  <1>1. /\ told # <<>> /\ told' = Tail(told) /\ active' = Head(told)
        /\ load' = IF load.behind > 0 THEN [load EXCEPT !.behind = @ - 1] ELSE load
        /\ UNCHANGED <<start_scheduled, worker, selected, text, clicks, displayed, apply>>
    BY DEF ActivePreset, countVars
  <1>2. pending' \subseteq pending
    BY DEF ActivePreset, drop_preset_bound
  <1>3. load' \in Loads
    BY <1>1 DEF TypeInv, Loads
  <1>4. Head(told) \in Presets /\ Tail(told) \in Seq(Presets)
    BY <1>1 DEF TypeInv
  <1>5. TypeInv' /\ StampInv'
    BY <1>1, <1>2, <1>3, <1>4 DEF TypeInv, StampInv
  <1>6. OneWorker' /\ WorkerInv'
    BY <1>1 DEF OneWorker, WorkerInv, busy, is_running
  <1>7. CASE Tail(told) = <<>>
    <2>1. told \in Seq(Presets) /\ Len(told) = 1
      <3>1. told \in Seq(Presets) /\ Len(told) \in Nat /\ Len(told) # 0
        BY <1>1, EmptySeq, LenProperties DEF TypeInv
      <3>2. Len(Tail(told)) = Len(told) - 1
        BY <1>1, <3>1, HeadTailProperties
      <3>3. Len(told) - 1 = 0
        BY <1>7, <3>2, EmptySeq, Zenon
      <3> QED
        BY <3>1, <3>3
    <2>2. Head(told) = told[Len(told)]
      BY <1>1, <2>1
    <2>3. told' = <<>> /\ active' = selected'
      BY <1>1, <1>7, <2>2 DEF ToldInv
    <2>4. ToldInv'
      BY <2>3 DEF ToldInv
    <2>5. RightPreset'
      BY <1>1 DEF RightPreset
    <2> QED
      BY <1>5, <1>6, <2>4, <2>5
  <1>8. CASE Tail(told) # <<>>
    <2>1. told \in Seq(Presets) /\ Len(told) \in Nat /\ Len(told) > 1
      BY <1>1, <1>8 DEF TypeInv
    <2>2. Len(Tail(told)) = Len(told) - 1
      BY <1>1, <2>1
    <2>3. Tail(told)[Len(told) - 1] = told[Len(told)]
      BY <1>1, <2>1
    <2> QED
      BY <1>1, <1>5, <1>6, <1>8, <2>2, <2>3 DEF ToldInv, RightPreset
  <1> QED
    BY <1>7, <1>8

\* The steps of the loader: only a list that is applied says which preset is
\* on the screen.
LEMMA LoaderKeepsInv ==
    ASSUME Inv, load' \in Loads, apply' \in Lists \cup {NoList}, displayed' \in Presets,
           UNCHANGED <<queueVars, selected, told, active, text, clicks>>
    PROVE  Inv'
  <1> USE DEF Inv
  <1>1. UNCHANGED <<pending, start_scheduled, worker>>
    BY DEF queueVars
  <1>2. TypeInv' /\ StampInv' /\ OneWorker' /\ WorkerInv'
    BY <1>1 DEF TypeInv, StampInv, OneWorker, WorkerInv, busy, is_running
  <1>3. ToldInv' /\ RightPreset'
    BY DEF ToldInv, RightPreset
  <1> QED
    BY <1>2, <1>3

LEMMA ListStepKeepsInv ==
    ASSUME Inv,
           \/ RunRequest \/ ReloadTimer \/ PageActivated \/ LoadReads \/ LoadFails \/ LoadEmits
           \/ LoadEnds \/ ListLoaded \/ ListFailed \/ ApplyList \/ LoadFinished \/ RunRefresh
           \/ \E p \in Presets : ContentChanged(p)
    PROVE  Inv' /\ UNCHANGED text
  <1> DEFINE core == UNCHANGED <<queueVars, selected, told, active, text, clicks>>
             fine == load' \in Loads /\ apply' \in Lists \cup {NoList} /\ displayed' \in Presets
  <1> SUFFICES core /\ fine
    BY LoaderKeepsInv
  <1>1. /\ load \in Loads /\ apply \in Lists \cup {NoList}
        /\ displayed \in Presets /\ selected \in Presets /\ text[selected] \in Texts
    BY DEF Inv, TypeInv
  <1>2. NoLoad \in Loads
    BY DEF NoLoad, Loads
  <1>3. CASE RunRequest
    <2>1. invalidate_in_flight(request = "force") \in Loads
      BY <1>1 DEF invalidate_in_flight, Loads
    <2>2. [NoLoad EXCEPT !.at = "reads", !.current = TRUE, !.told = FALSE] \in Loads
      BY <1>2 DEF Loads
    <2>3. core /\ UNCHANGED displayed
      BY <1>3 DEF RunRequest, pageVars, presetVars, countVars
    <2>4. /\ apply' = apply \/ apply' = NoList
          /\ \/ load' = load
             \/ load' = invalidate_in_flight(request = "force")
             \/ load' = [NoLoad EXCEPT !.at = "reads", !.current = TRUE, !.told = FALSE]
      BY <1>3 DEF RunRequest
    <2> QED
      BY <1>1, <2>1, <2>2, <2>3, <2>4
  <1>4. CASE ReloadTimer
    BY <1>1, <1>4 DEF ReloadTimer, schedule_request_force, pageVars, presetVars, countVars
  <1>5. CASE PageActivated
    BY <1>1, <1>5 DEF PageActivated, pageVars, presetVars, countVars
  <1>6. CASE LoadReads
    <2>1. [of |-> selected, text |-> text[selected]] \in Lists
      BY <1>1 DEF Lists
    <2>2. load' \in Loads
      BY <1>1, <1>6, <2>1 DEF LoadReads, Loads
    <2> QED
      BY <1>1, <1>6, <2>2 DEF LoadReads, pageVars, presetVars, countVars
  <1>7. CASE LoadFails
    <2>1. load' \in Loads
      BY <1>1, <1>7 DEF LoadFails, Loads
    <2> QED
      BY <1>1, <1>7, <2>1 DEF LoadFails, presetVars
  <1>8. CASE LoadEmits
    <2>1. Len(told) \in Nat
      BY DEF Inv, TypeInv
    <2>2. load' \in Loads
      BY <1>1, <1>8, <2>1 DEF LoadEmits, Loads
    <2> QED
      BY <1>1, <1>8, <2>2 DEF LoadEmits, pageVars, presetVars, countVars
  <1>9. CASE LoadEnds
    <2>1. load' \in Loads
      BY <1>1, <1>9 DEF LoadEnds, Loads
    <2> QED
      BY <1>1, <1>9, <2>1 DEF LoadEnds, pageVars, presetVars, countVars
  <1>10. CASE ListLoaded
    <2>1. load' \in Loads /\ load.list \in Lists \cup {NoList}
      BY <1>1, <1>10 DEF ListLoaded, Loads
    <2> QED
      BY <1>1, <1>10, <2>1 DEF ListLoaded, pageVars, presetVars, countVars
  <1>11. CASE ListFailed
    <2>1. load' \in Loads
      BY <1>1, <1>11 DEF ListFailed, Loads
    <2> QED
      BY <1>1, <1>11, <2>1 DEF ListFailed, pageVars, presetVars, countVars
  <1>12. CASE ApplyList
    <2>1. apply.of \in Presets
      BY <1>1, <1>12 DEF ApplyList, Lists
    <2> QED
      BY <1>1, <1>12, <2>1 DEF ApplyList, presetVars, countVars
  <1>13. CASE LoadFinished
    BY <1>1, <1>2, <1>13 DEF LoadFinished, pageVars, presetVars, countVars
  <1>14. CASE RunRefresh
    BY <1>1, <1>14 DEF RunRefresh, pageVars, presetVars, countVars
  <1>15. CASE \E p \in Presets : ContentChanged(p)
    BY <1>1, <1>15 DEF ContentChanged, schedule_request_force, countVars
  <1> QED
    BY <1>3, <1>4, <1>5, <1>6, <1>7, <1>8, <1>9, <1>10, <1>11, <1>12, <1>13, <1>14, <1>15

-----------------------------------------------------------------------------
(* Every step *)

LEMMA NextInv ==
    ASSUME {"finish", "select"} \cap Windows = {}, Inv, [Next]_vars
    PROVE  /\ Inv'
           /\ \A p \in Presets : text[p].edits \subseteq text'[p].edits
  <1>1. CASE \E a \in Asks : Click(a)
    <2>1. UNCHANGED text
      BY <1>1 DEF Click, Request, presetVars
    <2> QED
      BY <1>1, <2>1, ClickKeepsInv
  <1>2. CASE \E p \in Presets : Select(p)
    <2>1. UNCHANGED text
      BY <1>2 DEF Select, SelectPreset
    <2> QED
      BY <1>2, <2>1, SelectKeepsInv
  <1>3. CASE Breaks
    BY <1>3, BreaksKeepsInv
  <1>4. CASE Writes
    BY <1>4, WritesKeepsInv
  <1>5. CASE \E r \in Runtimes : Finished(r)
    <2>1. UNCHANGED text
      BY <1>5 DEF Finished, WorkerFinished, presetVars
    <2> QED
      BY <1>5, <2>1, FinishedKeepsInv
  <1>6. CASE Scheduled
    <2>1. UNCHANGED text
      BY <1>6 DEF Scheduled, RunScheduled, presetVars
    <2> QED
      BY <1>6, <2>1, ScheduledKeepsInv
  <1>7. CASE ActivePreset
    <2>1. UNCHANGED text
      BY <1>7 DEF ActivePreset
    <2> QED
      BY <1>7, <2>1, ActivePresetKeepsInv
  <1>8. CASE \/ RunRequest \/ ReloadTimer \/ PageActivated \/ LoadReads \/ LoadFails \/ LoadEmits
             \/ LoadEnds \/ ListLoaded \/ ListFailed \/ ApplyList \/ LoadFinished \/ RunRefresh
             \/ \E p \in Presets : ContentChanged(p)
    BY <1>8, ListStepKeepsInv
  <1>9. CASE UNCHANGED vars
    <2>1. /\ UNCHANGED <<queueVars, selected, told, active, text, clicks>>
          /\ UNCHANGED <<load, apply, displayed>>
      BY <1>9 DEF vars, pageVars, presetVars, countVars, loaderVars
    <2>2. load' \in Loads /\ apply' \in Lists \cup {NoList} /\ displayed' \in Presets
      BY <2>1 DEF Inv, TypeInv
    <2> QED
      BY <2>1, <2>2, LoaderKeepsInv
  <1> QED
    BY <1>1, <1>2, <1>3, <1>4, <1>5, <1>6, <1>7, <1>8, <1>9 DEF Next, Threads, EventLoop

-----------------------------------------------------------------------------
(* Types, whatever Windows *)

Bounded(queue) == \E b \in Nat : \A e \in queue : e.place <= b

JobsOK ==
    /\ \A r \in Runtimes : is_running(r) => worker[r].op \in Operations
    /\ worker["context"].at = "save" => worker["context"].read \in Texts

\* The variables of the queue, of the presets and of the loader.
QueueOK ==
    /\ pending \subseteq Entries /\ Bounded(pending)
    /\ start_scheduled \in Operations \cup {NoOp}
    /\ worker \in [Runtimes -> Jobs] /\ JobsOK
    /\ actions_enabled \in BOOLEAN /\ owed \subseteq Operations
    /\ clicks \in 0..MaxClicks

PresetsOK ==
    /\ selected \in Presets /\ active \in Presets /\ displayed \in Presets
    /\ told \in Seq(Presets) /\ text \in [Presets -> Texts]
    /\ folders \subseteq Operations /\ news \subseteq Presets
    /\ selects \in 0..MaxSelects /\ failures \in 0..MaxFailures

LoaderOK ==
    /\ dirty \in BOOLEAN /\ reload \in BOOLEAN
    /\ request \in {"no", "plain", "force"} /\ request_first \in BOOLEAN
    /\ refresh_pending \in BOOLEAN /\ refresh_scheduled \in BOOLEAN
    /\ load \in Loads /\ apply \in Lists \cup {NoList} /\ screen \in Lists \cup {NoList}

KindsInv == QueueOK /\ PresetsOK /\ LoaderOK

\* A set of numbers that is not empty has a least one.
LEMMA NatWellFounded ==
    \E R : IsWellFoundedOn(R, Nat) /\ \A y, x \in Nat : y < x => <<y, x>> \in R
  <1> WITNESS OpToRel(<, Nat)
  <1>1. IsWellFoundedOn(OpToRel(<, Nat), Nat)
    BY NatLessThanWellFounded
  <1>2. \A y, x \in Nat : y < x => <<y, x>> \in OpToRel(<, Nat)
    BY DEF OpToRel
  <1> QED
    BY <1>1, <1>2

LEMMA Least ==
    ASSUME NEW T, T \subseteq Nat, T # {}
    PROVE  \E m \in T : \A y \in T : m <= y
  <1>1. PICK R : IsWellFoundedOn(R, Nat) /\ \A y, x \in Nat : y < x => <<y, x>> \in R
    BY NatWellFounded
  <1>2. PICK m \in T : \A y \in T : ~ (<<y, m>> \in R)
    BY <1>1, WFMin
  <1>3. ASSUME NEW y \in T PROVE m <= y
    <2>1. m \in Nat /\ y \in Nat /\ ~ (<<y, m>> \in R)
      BY <1>2
    <2>2. ~ (y < m)
      BY <1>1, <2>1
    <2> QED
      BY <2>1, <2>2
  <1> QED
    BY <1>3

\* The last place of a queue is a number and no other place is greater.
LEMMA LastPlace ==
    ASSUME NEW queue, queue \subseteq Entries, Bounded(queue)
    PROVE  /\ last_place(queue) \in Nat
           /\ \A e \in queue : e.place <= last_place(queue)
  <1> DEFINE S == {0} \cup {e.place : e \in queue}
             T == {b \in Nat : \A x \in S : x <= b}
  <1>1. S \subseteq Nat
    BY DEF Entries
  <1>2. PICK b \in Nat : \A e \in queue : e.place <= b
    BY DEF Bounded
  <1>3. b \in T
    BY <1>2
  <1>4. T \subseteq Nat /\ T # {}
    BY <1>3
  <1> HIDE DEF T
  <1>5. PICK m \in T : \A y \in T : m <= y
    BY <1>4, Least
  <1> USE DEF T
  <1>6. m \in S
    <2>1. SUFFICES ASSUME m \notin S PROVE FALSE
      OBVIOUS
    <2>2. m # 0 /\ m \in Nat /\ m - 1 \in Nat
      BY <2>1
    <2>3. \A x \in S : x <= m /\ x # m /\ x \in Nat
      BY <1>1, <2>1
    <2>4. m - 1 \in T
      BY <2>2, <2>3
    <2> QED
      BY <1>5, <2>2, <2>4
  <1>7. \A y \in S : m >= y
    BY <1>1
  <1>8. last_place(queue) \in S /\ \A y \in S : last_place(queue) >= y
    BY <1>6, <1>7 DEF last_place, Max
  <1> QED
    BY <1>1, <1>8

LEMMA QueueGrows ==
    ASSUME NEW queue, queue \subseteq Entries, Bounded(queue), NEW op \in Operations
    PROVE  queue_operation(queue, op) \subseteq Entries /\ Bounded(queue_operation(queue, op))
  <1> DEFINE n == last_place(queue) + 1
  <1>1. n \in Nat /\ \A e \in queue : e.place <= n
    BY LastPlace DEF Entries
  <1>2. queue_operation(queue, op) \subseteq queue \cup {[place |-> n, op |-> op]}
    BY DEF queue_operation
  <1>3. [place |-> n, op |-> op] \in Entries
    BY <1>1 DEF Entries
  <1> HIDE DEF n
  <1>4. \A e \in queue_operation(queue, op) : e.place <= n
    BY <1>1, <1>2
  <1> QED
    BY <1>1, <1>2, <1>3, <1>4 DEF Bounded

LEMMA Fewer ==
    ASSUME NEW queue, NEW more, queue \subseteq more, more \subseteq Entries, Bounded(more)
    PROVE  queue \subseteq Entries /\ Bounded(queue)
  BY DEF Bounded

LEMMA InitKinds == Init => KindsInv
  <1> SUFFICES ASSUME Init PROVE KindsInv
    OBVIOUS
  <1> USE DEF Init, QueueInit
  <1>1. NoLoad \in Loads
    BY DEF NoLoad, Loads
  <1>2. [r \in Runtimes |-> Idle] \in [Runtimes -> Jobs] /\ \A r \in Runtimes : worker[r].at = "none"
    BY DEF Idle, Jobs
  <1>3. "context" \in Runtimes
    BY DEF Runtimes
  <1>4. Bounded({})
    <2>1. 0 \in Nat
      OBVIOUS
    <2> QED
      BY <2>1 DEF Bounded
  <1>5. 0 \in 0..MaxClicks /\ 0 \in 0..MaxSelects /\ 0 \in 0..MaxFailures
    BY QueueAssumption
  <1>6. QueueOK
    BY <1>2, <1>3, <1>4, <1>5 DEF QueueOK, JobsOK, is_running
  <1>7. PresetsOK
    BY <1>5 DEF PresetsOK, Texts
  <1>8. text[selected] \in Texts /\ [of |-> selected, text |-> text[selected]] \in Lists
    BY <1>7 DEF PresetsOK, Lists
  <1>9. LoaderOK
    BY <1>1, <1>8 DEF LoaderOK
  <1> QED
    BY <1>6, <1>7, <1>9 DEF KindsInv

\* A worker that starts, one that ends.
LEMMA StartKinds ==
    ASSUME QueueOK, NEW op \in Operations, start_worker(op)
    PROVE  worker' \in [Runtimes -> Jobs] /\ JobsOK' /\ actions_enabled' \in BOOLEAN
  <1> DEFINE r0 == runtime_of(op.ask)
             new == [at |-> "wait", op |-> op, read |-> NoText]
  <1>1. r0 \in Runtimes
    BY Runtime
  <1>2. new \in Jobs /\ new.at = "wait" /\ new.op \in Operations
    BY DEF Jobs
  <1>3. worker' = [worker EXCEPT ![r0] = new] /\ actions_enabled' = (actions_enabled /\ preset_bound(op.ask))
    BY DEF start_worker
  <1> HIDE DEF r0, new
  <1>4. worker' \in [Runtimes -> Jobs] /\ worker'[r0] = new /\ \A r \in Runtimes : r # r0 => worker'[r] = worker[r]
    BY <1>1, <1>2, <1>3 DEF QueueOK
  <1>5. "context" \in Runtimes
    BY DEF Runtimes
  <1>6. JobsOK'
    BY <1>2, <1>4, <1>5 DEF QueueOK, JobsOK, is_running
  <1>7. actions_enabled' \in BOOLEAN
    BY <1>3, Zenon DEF QueueOK, preset_bound
  <1> QED
    BY <1>4, <1>6, <1>7

LEMMA EndKinds ==
    ASSUME QueueOK, NEW r \in Runtimes, ends(r) \/ worker' = [worker EXCEPT ![r] = Idle]
    PROVE  worker' \in [Runtimes -> Jobs] /\ JobsOK'
  <1> DEFINE new == [worker[r] EXCEPT !.at = "ended", !.read = NoText]
  <1>1. worker[r] \in Jobs
    BY DEF QueueOK
  <1>2. new \in Jobs /\ new.at = "ended" /\ Idle \in Jobs /\ Idle.at = "none"
    BY <1>1 DEF Jobs, Idle
  <1>3. \/ worker' = [worker EXCEPT ![r] = new]
        \/ worker' = [worker EXCEPT ![r] = Idle]
    BY <1>1 DEF ends, QueueOK, Jobs
  <1> HIDE DEF new
  <1>4. /\ worker' \in [Runtimes -> Jobs] /\ worker'[r].at \in {"ended", "none"}
        /\ \A s \in Runtimes : s # r => worker'[s] = worker[s]
    BY <1>2, <1>3 DEF QueueOK
  <1>5. "context" \in Runtimes
    BY DEF Runtimes
  <1> QED
    BY <1>4, <1>5 DEF QueueOK, JobsOK, is_running

LEMMA ClickKinds ==
    ASSUME KindsInv, NEW a \in Asks, Click(a)
    PROVE  KindsInv'
  <1> DEFINE op == [id |-> clicks + 1, ask |-> a,
                    preset |-> IF preset_bound(a) THEN displayed ELSE NoPreset]
  <1> USE DEF KindsInv
  <1>1. clicks' = clicks + 1 /\ clicks + 1 \in 1..MaxClicks /\ clicks' \in 0..MaxClicks
    BY QueueAssumption DEF Click, Request, QueueOK
  <1>2. op \in Operations
    BY <1>1 DEF Operations, PresetsOK
  <1>3. UNCHANGED <<start_scheduled, presetVars, displayed, selects, failures, loaderVars>>
    BY DEF Click, Request
  <1>4. PresetsOK' /\ LoaderOK'
    BY <1>3 DEF presetVars, loaderVars, PresetsOK, LoaderOK
  <1>5. CASE operation_running
    <2>1. /\ pending' = queue_operation(pending, op) /\ owed' \subseteq owed \cup {op}
          /\ UNCHANGED <<worker, actions_enabled>>
      BY <1>5 DEF Click, Request
    <2>2. pending' \subseteq Entries /\ Bounded(pending')
      BY <1>2, <2>1, QueueGrows DEF QueueOK
    <2>3. QueueOK'
      BY <1>1, <1>2, <1>3, <2>1, <2>2 DEF QueueOK, JobsOK, is_running
    <2> QED
      BY <1>4, <2>3
  <1>6. CASE ~ operation_running
    <2>1. start_worker(op) /\ owed' = owed \cup {op} /\ UNCHANGED pending
      BY <1>6 DEF Click, Request
    <2>2. worker' \in [Runtimes -> Jobs] /\ JobsOK' /\ actions_enabled' \in BOOLEAN
      BY <1>2, <2>1, StartKinds
    <2>3. QueueOK'
      BY <1>1, <1>2, <1>3, <2>1, <2>2 DEF QueueOK
    <2> QED
      BY <1>4, <2>3
  <1> QED
    BY <1>5, <1>6

LEMMA FinishedKinds ==
    ASSUME KindsInv, NEW r \in Runtimes, Finished(r)
    PROVE  KindsInv'
  <1> USE DEF KindsInv
  <1>1. /\ worker' = [worker EXCEPT ![r] = Idle] /\ schedule_next
        /\ UNCHANGED <<presetVars, countVars, displayed, owed, loaderVars>>
    BY DEF Finished, WorkerFinished
  <1>2. actions_enabled' \in BOOLEAN
    BY DEF Finished, WorkerFinished
  <1>3. worker' \in [Runtimes -> Jobs] /\ JobsOK'
    BY <1>1, EndKinds
  <1>4. /\ pending' \subseteq Entries /\ Bounded(pending')
        /\ start_scheduled' \in Operations \cup {NoOp}
    <2>1. CASE pending = {}
      BY <1>1, <2>1 DEF schedule_next, QueueOK
    <2>2. CASE pending # {}
      <3>1. PICK e \in pending :
               IF start_scheduled # NoOp
               THEN pending' = queue_operation(pending \ {e}, e.op) /\ UNCHANGED start_scheduled
               ELSE start_scheduled' = e.op /\ pending' = pending \ {e}
        BY <1>1, <2>2 DEF schedule_next
      <3>2. e.op \in Operations
        BY DEF QueueOK, Entries
      <3>3. pending \ {e} \subseteq Entries /\ Bounded(pending \ {e})
        BY Fewer DEF QueueOK
      <3>4. /\ queue_operation(pending \ {e}, e.op) \subseteq Entries
            /\ Bounded(queue_operation(pending \ {e}, e.op))
        BY <3>2, <3>3, QueueGrows
      <3> QED
        BY <3>1, <3>2, <3>3, <3>4 DEF QueueOK
    <2> QED
      BY <2>1, <2>2
  <1>5. QueueOK'
    BY <1>1, <1>2, <1>3, <1>4 DEF QueueOK, countVars
  <1>6. PresetsOK' /\ LoaderOK'
    BY <1>1 DEF presetVars, countVars, loaderVars, PresetsOK, LoaderOK
  <1> QED
    BY <1>5, <1>6

LEMMA ScheduledKinds ==
    ASSUME KindsInv, Scheduled
    PROVE  KindsInv'
  <1> USE DEF KindsInv
  <1>1. /\ start_scheduled # NoOp /\ start_scheduled' = NoOp /\ owed' \subseteq owed
        /\ UNCHANGED <<presetVars, countVars, displayed, loaderVars>>
    BY DEF Scheduled, RunScheduled
  <1>2. PresetsOK' /\ LoaderOK'
    BY <1>1 DEF presetVars, countVars, loaderVars, PresetsOK, LoaderOK
  <1>3. start_scheduled \in Operations /\ \A e \in pending : e.op \in Operations
    BY <1>1 DEF QueueOK, Entries
  <1>4. \/ pending' = queue_operation(pending, start_scheduled)
        \/ pending' \subseteq pending
    BY DEF Scheduled, RunScheduled
  <1>5. pending' \subseteq Entries /\ Bounded(pending')
    BY <1>3, <1>4, QueueGrows, Fewer DEF QueueOK
  <1>6. \/ UNCHANGED <<worker, actions_enabled>>
        \/ \E op \in Operations : start_worker(op)
    BY <1>3 DEF Scheduled, RunScheduled
  <1>7. worker' \in [Runtimes -> Jobs] /\ JobsOK' /\ actions_enabled' \in BOOLEAN
    BY <1>6, StartKinds DEF QueueOK, JobsOK, is_running
  <1>8. QueueOK'
    BY <1>1, <1>5, <1>7 DEF QueueOK, countVars
  <1> QED
    BY <1>2, <1>8

LEMMA WritesKinds ==
    ASSUME KindsInv, Writes
    PROVE  KindsInv'
  <1> USE DEF KindsInv
  <1>1. LoaderOK' /\ UNCHANGED <<pending, start_scheduled, actions_enabled, clicks>>
    BY DEF Writes, Load, Save, SaveMove, SaveUserProfile, loaderVars, countVars, LoaderOK
  <1>2. {"context", "move"} \cup user_runtimes \subseteq Runtimes
    BY DEF Runtimes, user_runtimes
  <1>3. ASSUME NEW r \in Runtimes, ends(r), answered(r) PROVE QueueOK'
    <2>1. worker' \in [Runtimes -> Jobs] /\ JobsOK' /\ owed' \subseteq owed
      BY <1>3, EndKinds DEF answered
    <2> QED
      BY <1>1, <2>1 DEF QueueOK
  <1>4. CASE Load
    <2>1. /\ worker["context"].at = "wait" /\ UNCHANGED <<presetVars, countVars, displayed, owed>>
          /\ worker' = [worker EXCEPT !["context"].at = "save", !["context"].read = text[selected]]
      BY <1>4 DEF Load
    <2>2. text[selected] \in Texts /\ worker["context"] \in Jobs /\ worker["context"].op \in Operations
      BY <1>2, <2>1 DEF QueueOK, PresetsOK, JobsOK, is_running
    <2> DEFINE new == [worker["context"] EXCEPT !.at = "save", !.read = text[selected]]
    <2>3. /\ new \in Jobs /\ new.at = "save" /\ new.read \in Texts /\ new.op \in Operations
          /\ worker' = [worker EXCEPT !["context"] = new]
      BY <1>2, <2>1, <2>2 DEF QueueOK, Jobs
    <2> HIDE DEF new
    <2>4. worker' \in [Runtimes -> Jobs] /\ JobsOK'
      BY <1>2, <2>3 DEF QueueOK, JobsOK, is_running
    <2>5. QueueOK' /\ PresetsOK'
      BY <1>1, <2>1, <2>4 DEF QueueOK, PresetsOK, presetVars, countVars
    <2> QED
      BY <1>1, <2>5
  <1>5. CASE Save
    <2> DEFINE new == [of |-> worker["context"].read.of,
                       edits |-> worker["context"].read.edits \cup {worker["context"].op}]
    <2>1. /\ worker["context"].at = "save" /\ text' = [text EXCEPT ![selected] = new]
          /\ news' = news \cup {selected}
          /\ UNCHANGED <<selected, told, active, folders, countVars, displayed>>
      BY <1>5 DEF Save
    <2>2. worker["context"].read \in Texts /\ worker["context"].op \in Operations
      BY <1>2, <2>1 DEF QueueOK, JobsOK, is_running
    <2>3. new \in Texts
      BY <2>2 DEF Texts
    <2>4. PresetsOK'
      BY <2>1, <2>3 DEF PresetsOK, countVars
    <2>5. QueueOK'
      BY <1>2, <1>3, <1>5 DEF Save
    <2> QED
      BY <1>1, <2>4, <2>5
  <1>6. CASE SaveMove
    <2>1. worker["move"].op \in Operations
      BY <1>2, <1>6 DEF SaveMove, QueueOK, JobsOK, is_running
    <2>2. PresetsOK'
      BY <1>6, <2>1 DEF SaveMove, PresetsOK, countVars
    <2>3. QueueOK'
      BY <1>2, <1>3, <1>6 DEF SaveMove
    <2> QED
      BY <1>1, <2>2, <2>3
  <1>7. ASSUME NEW r \in user_runtimes, SaveUserProfile(r) PROVE KindsInv'
    <2>1. worker[r].op \in Operations
      BY <1>2, <1>7 DEF SaveUserProfile, QueueOK, JobsOK, is_running
    <2>2. \A p \in Presets : [text[p] EXCEPT !.edits = @ \cup {worker[r].op}] \in Texts
      BY <2>1 DEF PresetsOK, Texts
    <2>3. text' \in [Presets -> Texts] /\ news' \subseteq Presets
      BY <1>7, <2>2 DEF SaveUserProfile, PresetsOK
    <2>4. PresetsOK'
      BY <1>7, <2>3 DEF SaveUserProfile, PresetsOK, countVars
    <2>5. QueueOK'
      BY <1>2, <1>3, <1>7 DEF SaveUserProfile
    <2> QED
      BY <1>1, <2>4, <2>5
  <1> QED
    BY <1>4, <1>5, <1>6, <1>7 DEF Writes

LEMMA BreaksKinds ==
    ASSUME KindsInv, Breaks
    PROVE  KindsInv'
  <1> USE DEF KindsInv
  <1>1. PICK r \in Runtimes : WriteFails(r)
    BY DEF Breaks
  <1>2. worker' \in [Runtimes -> Jobs] /\ JobsOK' /\ owed' \subseteq owed
    BY <1>1, EndKinds DEF WriteFails, answered
  <1>3. QueueOK'
    BY <1>1, <1>2 DEF WriteFails, QueueOK
  <1>4. failures' \in 0..MaxFailures
    BY <1>1, QueueAssumption DEF WriteFails, PresetsOK
  <1>5. PresetsOK' /\ LoaderOK'
    BY <1>1, <1>4 DEF WriteFails, Breaks, PresetsOK, LoaderOK, presetVars, loaderVars
  <1> QED
    BY <1>3, <1>5

LEMMA SelectKinds ==
    ASSUME KindsInv, NEW p \in Presets, Select(p)
    PROVE  KindsInv'
  <1> USE DEF KindsInv
  <1>1. selects' \in 0..MaxSelects /\ told' \in Seq(Presets) /\ selected' \in Presets
    BY QueueAssumption DEF Select, SelectPreset, PresetsOK
  <1>2. QueueOK' /\ LoaderOK'
    BY DEF Select, SelectPreset, queueVars, loaderVars, QueueOK, JobsOK, is_running, LoaderOK
  <1>3. PresetsOK'
    BY <1>1 DEF Select, SelectPreset, PresetsOK
  <1> QED
    BY <1>2, <1>3

LEMMA ActivePresetKinds ==
    ASSUME KindsInv, ActivePreset
    PROVE  KindsInv'
  <1> USE DEF KindsInv
  <1>1. /\ told # <<>> /\ told' = Tail(told) /\ active' = Head(told)
        /\ load' = IF load.behind > 0 THEN [load EXCEPT !.behind = @ - 1] ELSE load
        /\ UNCHANGED <<start_scheduled, worker, actions_enabled, selected, text, folders, news,
                       countVars, displayed, request, refresh_pending, refresh_scheduled,
                       apply, screen, request_first>>
    BY DEF ActivePreset
  <1>2. /\ pending' \subseteq pending /\ owed' \subseteq owed
        /\ dirty' \in BOOLEAN /\ reload' \in BOOLEAN
    <2>1. CASE Head(told) = displayed
      BY <2>1 DEF ActivePreset, LoaderOK
    <2>2. CASE Head(told) # displayed
      <3>1. drop_preset_bound /\ dirty' = TRUE /\ reload' = TRUE
        BY <2>2 DEF ActivePreset
      <3> QED
        BY <3>1 DEF drop_preset_bound
    <2> QED
      BY <2>1, <2>2
  <1>3. load' \in Loads
    BY <1>1 DEF LoaderOK, Loads
  <1>4. Head(told) \in Presets /\ Tail(told) \in Seq(Presets)
    BY <1>1 DEF PresetsOK
  <1>5. pending' \subseteq Entries /\ Bounded(pending')
    BY <1>2, Fewer DEF QueueOK
  <1>6. QueueOK'
    BY <1>1, <1>5, <1>2 DEF QueueOK, JobsOK, is_running, countVars
  <1>7. PresetsOK' /\ LoaderOK'
    BY <1>1, <1>3, <1>4, <1>2 DEF PresetsOK, LoaderOK, countVars
  <1> QED
    BY <1>6, <1>7

\* The steps of the loader.
LEMMA LoaderKinds ==
    ASSUME KindsInv, LoaderOK', displayed' \in Presets, news' \subseteq Presets,
           failures' \in 0..MaxFailures,
           UNCHANGED <<queueVars, selected, told, active, text, folders, clicks, selects, owed>>
    PROVE  KindsInv'
  BY DEF KindsInv, QueueOK, PresetsOK, JobsOK, is_running, queueVars

LEMMA ListStepKinds ==
    ASSUME KindsInv,
           \/ RunRequest \/ ReloadTimer \/ PageActivated \/ LoadReads \/ LoadFails \/ LoadEmits
           \/ LoadEnds \/ ListLoaded \/ ListFailed \/ ApplyList \/ LoadFinished \/ RunRefresh
           \/ \E p \in Presets : ContentChanged(p)
    PROVE  KindsInv'
  <1> DEFINE same == UNCHANGED <<queueVars, selected, told, active, text, folders, clicks,
                                 selects, owed>>
             rest == displayed' \in Presets /\ news' \subseteq Presets /\ failures' \in 0..MaxFailures
  <1> SUFFICES same /\ rest /\ LoaderOK'
    BY LoaderKinds
  <1> USE DEF KindsInv
  <1>1. NoLoad \in Loads
    BY DEF NoLoad, Loads
  <1>2. load \in Loads /\ Len(told) \in Nat /\ text[selected] \in Texts
    BY DEF LoaderOK, PresetsOK
  <1>3. [of |-> selected, text |-> text[selected]] \in Lists
    BY <1>2 DEF Lists, PresetsOK
  <1>4. CASE RunRequest
    <2>1. invalidate_in_flight(request = "force") \in Loads
      BY <1>2 DEF invalidate_in_flight, Loads
    <2>2. [NoLoad EXCEPT !.at = "reads", !.current = TRUE, !.told = FALSE] \in Loads
      BY <1>1 DEF Loads
    <2>3. UNCHANGED pageVars
      BY <1>4 DEF RunRequest
    <2>4. LoaderOK'
      BY <1>4, <2>1, <2>2 DEF RunRequest, LoaderOK
    <2> QED
      BY <2>3, <2>4 DEF pageVars, presetVars, countVars, PresetsOK
  <1>5. CASE ReloadTimer \/ PageActivated \/ RunRefresh
    BY <1>5 DEF ReloadTimer, PageActivated, RunRefresh, schedule_request_force, LoaderOK, pageVars,
       presetVars, countVars, PresetsOK
  <1>6. CASE LoadReads \/ LoadEmits \/ LoadEnds
    <2>1. load' \in Loads
      BY <1>2, <1>3, <1>6 DEF LoadReads, LoadEmits, LoadEnds, Loads
    <2> QED
      BY <1>6, <2>1 DEF LoadReads, LoadEmits, LoadEnds, LoaderOK, pageVars, presetVars, countVars,
         PresetsOK
  <1>7. CASE LoadFails
    <2>1. load' \in Loads
      BY <1>2, <1>7 DEF LoadFails, Loads
    <2>2. failures' \in 0..MaxFailures
      BY <1>7, QueueAssumption DEF LoadFails, PresetsOK
    <2> QED
      BY <1>7, <2>1, <2>2 DEF LoadFails, LoaderOK, presetVars, PresetsOK
  <1>8. CASE ListLoaded \/ ListFailed
    <2>1. load' \in Loads /\ load.list \in Lists \cup {NoList}
      BY <1>2, <1>8 DEF ListLoaded, ListFailed, Loads
    <2> QED
      BY <1>8, <2>1 DEF ListLoaded, ListFailed, LoaderOK, pageVars, presetVars, countVars, PresetsOK
  <1>9. CASE ApplyList
    <2>1. apply \in Lists /\ apply.of \in Presets
      BY <1>9 DEF ApplyList, LoaderOK, Lists
    <2> QED
      BY <1>9, <2>1 DEF ApplyList, LoaderOK, presetVars, countVars, PresetsOK
  <1>10. CASE LoadFinished
    BY <1>1, <1>10 DEF LoadFinished, LoaderOK, pageVars, presetVars, countVars, PresetsOK
  <1>11. CASE \E p \in Presets : ContentChanged(p)
    BY <1>11 DEF ContentChanged, schedule_request_force, LoaderOK, countVars, PresetsOK
  <1> QED
    BY <1>4, <1>5, <1>6, <1>7, <1>8, <1>9, <1>10, <1>11

LEMMA KindsKept ==
    ASSUME KindsInv, [Next]_vars
    PROVE  KindsInv'
  <1>1. CASE UNCHANGED vars
    BY <1>1 DEF vars, pageVars, queueVars, presetVars, countVars, loaderVars, KindsInv, QueueOK,
       JobsOK, is_running, PresetsOK, LoaderOK
  <1>2. CASE Next
    BY <1>2, ClickKinds, FinishedKinds, ScheduledKinds, WritesKinds, BreaksKinds, SelectKinds,
       ActivePresetKinds, ListStepKinds DEF Next, Threads, EventLoop
  <1> QED
    BY <1>1, <1>2

-----------------------------------------------------------------------------
(* Every command is answered *)

\* What was accepted and not answered waits, is about to start or is being
\* written; and while something waits, something else is at work or starts.
OwedInv ==
    /\ OneWorker
    /\ \A o \in owed : \/ o \in ops(pending) \/ o = start_scheduled
                       \/ \E r \in Runtimes : is_running(r) /\ worker[r].op = o
    /\ pending # {} => start_scheduled # NoOp \/ \E r \in Runtimes : busy(r)

\* A click that finds no operation under way finds no worker either.
LEMMA NobodyBusy ==
    ASSUME "finish" \notin Windows, KindsInv, NEW a \in Asks, Click(a), ~ operation_running
    PROVE  start_scheduled = NoOp /\ \A r \in Runtimes : ~ busy(r)
  <1>1. \A r \in Runtimes : worker[r].at \in {"none", "wait", "save"}
    BY DEF KindsInv, QueueOK, Jobs, Click, Request
  <1>2. start_scheduled = NoOp /\ \A r \in Runtimes : ~ is_running(r)
    BY DEF operation_running, user_profile_operation_running, Runtimes, user_runtimes
  <1> QED
    BY <1>1, <1>2 DEF busy, is_running

LEMMA StartIsOne ==
    ASSUME QueueOK, NEW op \in Operations, start_worker(op), \A r \in Runtimes : ~ busy(r),
           start_scheduled' = NoOp
    PROVE  /\ OneWorker'
           /\ \E r \in Runtimes : /\ is_running(r)' /\ busy(r)' /\ worker'[r].op = op
                                  /\ \A s \in Runtimes : is_running(s)' => s = r
  <1> DEFINE r0 == runtime_of(op.ask)
             new == [at |-> "wait", op |-> op, read |-> NoText]
  <1>1. r0 \in Runtimes
    BY Runtime
  <1>2. worker' = [worker EXCEPT ![r0] = new] /\ new.at = "wait" /\ new.op = op
    BY DEF start_worker
  <1> HIDE DEF r0, new
  <1>3. worker'[r0] = new /\ \A r \in Runtimes : r # r0 => worker'[r].at = "none"
    BY <1>1, <1>2 DEF QueueOK, busy
  <1> QED
    BY <1>1, <1>2, <1>3 DEF OneWorker, busy, is_running

LEMMA ClickOwed ==
    ASSUME "finish" \notin Windows, KindsInv, OwedInv, NEW a \in Asks, Click(a)
    PROVE  OwedInv'
  <1> DEFINE op == [id |-> clicks + 1, ask |-> a,
                    preset |-> IF preset_bound(a) THEN displayed ELSE NoPreset]
  <1>1. op \in Operations /\ op.ask = a
    BY QueueAssumption DEF Click, Request, Operations, KindsInv, QueueOK, PresetsOK
  <1>2. CASE operation_running
    <2>1. /\ pending' = queue_operation(pending, op)
          /\ owed' = (owed \ ops(replaced(pending, a))) \cup {op}
          /\ UNCHANGED <<worker, start_scheduled>>
      BY <1>2 DEF Click, Request
    <2>2. OneWorker'
      BY <2>1 DEF OwedInv, OneWorker, busy
    <2>3. start_scheduled # NoOp \/ \E r \in Runtimes : busy(r)
      BY <1>2 DEF operation_running, user_profile_operation_running, is_running, busy, Runtimes,
         user_runtimes
    <2>4. op \in ops(pending')
      <3>1. [place |-> last_place(pending) + 1, op |-> op] \in pending'
        BY <2>1 DEF queue_operation
      <3> QED
        BY <3>1 DEF ops
    <2>5. ASSUME NEW o \in ops(pending), o \notin ops(replaced(pending, a)) PROVE o \in ops(pending')
      <3>1. PICK e \in pending : e.op = o
        BY DEF ops
      <3>2. e \notin replaced(pending, op.ask)
        BY <1>1, <2>5, <3>1 DEF ops
      <3> QED
        BY <2>1, <3>1, <3>2 DEF ops, queue_operation
    <2> QED
      BY <2>1, <2>2, <2>3, <2>4, <2>5 DEF OwedInv, is_running, busy
  <1>3. CASE ~ operation_running
    <2>1. start_worker(op) /\ owed' = owed \cup {op} /\ UNCHANGED <<pending, start_scheduled>>
      BY <1>3 DEF Click, Request
    <2>2. start_scheduled = NoOp /\ \A r \in Runtimes : ~ busy(r) /\ ~ is_running(r)
      BY <1>3, NobodyBusy DEF busy, is_running
    <2>3. /\ OneWorker'
          /\ \E r \in Runtimes : is_running(r)' /\ busy(r)' /\ worker'[r].op = op
      BY <1>1, <2>1, <2>2, StartIsOne DEF KindsInv
    <2>4. \A o \in owed : o \in ops(pending) \/ o = NoOp
      BY <2>2 DEF OwedInv
    <2>5. \A o \in owed : o # NoOp
      BY QueueAssumption DEF KindsInv, QueueOK
    <2> QED
      BY <2>1, <2>3, <2>4, <2>5 DEF OwedInv, ops
  <1> QED
    BY <1>2, <1>3

LEMMA FinishedOwed ==
    ASSUME KindsInv, OwedInv, NEW r \in Runtimes, Finished(r)
    PROVE  OwedInv'
  <1>1. /\ worker[r].at = "ended" /\ worker' = [worker EXCEPT ![r] = Idle] /\ schedule_next
        /\ UNCHANGED owed
    BY DEF Finished, WorkerFinished
  <1>2. start_scheduled = NoOp /\ \A s \in Runtimes : s # r => ~ busy(s)
    BY <1>1 DEF OwedInv, OneWorker, busy
  <1>3. \A s \in Runtimes : ~ is_running(s)
    BY <1>1, <1>2 DEF busy, is_running
  <1>4. \A s \in Runtimes : worker'[s].at = "none"
    BY <1>1, <1>2 DEF KindsInv, QueueOK, Idle, busy
  <1>5. OneWorker'
    BY <1>4 DEF OneWorker, busy
  <1>6. \A o \in owed : o \in ops(pending)
    BY <1>2, <1>3, QueueAssumption DEF OwedInv, KindsInv, QueueOK
  <1>7. CASE pending = {}
    BY <1>1, <1>5, <1>6, <1>7 DEF OwedInv, schedule_next, ops
  <1>8. CASE pending # {}
    <2>1. PICK e \in pending : start_scheduled' = e.op /\ pending' = pending \ {e}
      BY <1>1, <1>2, <1>8 DEF schedule_next
    <2>2. e.op # NoOp
      BY QueueAssumption DEF KindsInv, QueueOK, Entries
    <2>3. \A o \in ops(pending) : o \in ops(pending') \/ o = start_scheduled'
      BY <2>1 DEF ops
    <2> QED
      BY <1>1, <1>5, <1>6, <2>1, <2>2, <2>3 DEF OwedInv
  <1> QED
    BY <1>7, <1>8

LEMMA ScheduledOwed ==
    ASSUME KindsInv, OwedInv, Scheduled
    PROVE  OwedInv'
  <1> DEFINE op == start_scheduled
             fit == {e \in pending : ~ targets_other_preset(e.op)}
             skipped(e) == {d \in pending : d.place < e.place}
  <1>1. op # NoOp /\ op \in Operations /\ start_scheduled' = NoOp
    BY DEF Scheduled, RunScheduled, KindsInv, QueueOK
  <1>2. \A r \in Runtimes : ~ busy(r) /\ ~ is_running(r)
    BY <1>1 DEF OwedInv, OneWorker, busy, is_running
  <1>3. \A o \in owed : o \in ops(pending) \/ o = op
    BY <1>2 DEF OwedInv
  <1>4. CASE start_worker(op) /\ UNCHANGED <<pending, owed>>
    <2>1. OneWorker' /\ \E r \in Runtimes : is_running(r)' /\ busy(r)' /\ worker'[r].op = op
      BY <1>1, <1>2, <1>4, StartIsOne DEF KindsInv
    <2> QED
      BY <1>3, <1>4, <2>1 DEF OwedInv
  <1>5. CASE pending' = {} /\ owed' = (owed \ {op}) \ ops(pending) /\ UNCHANGED worker
    <2>1. owed' = {}
      BY <1>3, <1>5
    <2>2. OneWorker'
      BY <1>1, <1>2, <1>5 DEF OneWorker, busy
    <2> QED
      BY <1>5, <2>1, <2>2 DEF OwedInv
  <1>6. ASSUME NEW e \in fit, start_worker(e.op), pending' = pending \ (skipped(e) \cup {e}),
               owed' = (owed \ {op}) \ ops(skipped(e))
        PROVE  OwedInv'
    <2>1. e.op \in Operations
      BY DEF KindsInv, QueueOK, Entries
    <2>2. OneWorker' /\ \E r \in Runtimes : is_running(r)' /\ busy(r)' /\ worker'[r].op = e.op
      BY <1>1, <1>2, <1>6, <2>1, StartIsOne DEF KindsInv
    <2>3. \A o \in ops(pending) : o \in ops(pending') \/ o = e.op \/ o \in ops(skipped(e))
      BY <1>6 DEF ops
    <2>4. \A o \in owed' : o \in ops(pending') \/ o = e.op
      BY <1>3, <1>6, <2>3
    <2> QED
      BY <2>2, <2>4 DEF OwedInv
  <1>7. \/ start_worker(op) /\ UNCHANGED <<pending, owed>>
        \/ pending' = {} /\ owed' = (owed \ {op}) \ ops(pending) /\ UNCHANGED worker
        \/ \E e \in fit : /\ start_worker(e.op) /\ pending' = pending \ (skipped(e) \cup {e})
                          /\ owed' = (owed \ {op}) \ ops(skipped(e))
    BY <1>2 DEF Scheduled, RunScheduled
  <1> QED
    BY <1>4, <1>5, <1>6, <1>7

LEMMA EndOwed ==
    ASSUME KindsInv, OwedInv, NEW r \in Runtimes, is_running(r), ends(r), answered(r),
           UNCHANGED <<pending, start_scheduled>>
    PROVE  /\ OwedInv'
           /\ \A s \in Runtimes : ~ is_running(s)'
           /\ \A s \in Runtimes : is_running(s) => s = r
           /\ start_scheduled = NoOp
  <1> DEFINE new == [worker[r] EXCEPT !.at = "ended", !.read = NoText]
  <1>1. worker' = [worker EXCEPT ![r] = new] /\ new.at = "ended"
    BY DEF ends, KindsInv, QueueOK, Jobs
  <1> HIDE DEF new
  <1>2. worker'[r].at = "ended" /\ \A s \in Runtimes : s # r => worker'[s] = worker[s]
    BY <1>1 DEF KindsInv, QueueOK
  <1>3. busy(r) /\ start_scheduled = NoOp /\ \A s \in Runtimes : s # r => worker[s].at = "none"
    BY DEF OwedInv, OneWorker, busy, is_running
  <1>4. OneWorker' /\ busy(r)' /\ \A s \in Runtimes : ~ is_running(s)'
    BY <1>2, <1>3 DEF OneWorker, busy, is_running
  <1>5. \A s \in Runtimes : is_running(s) => s = r
    BY <1>3 DEF is_running
  <1>6. \A o \in owed' : o \in ops(pending') \/ o = start_scheduled'
    BY <1>5 DEF OwedInv, answered
  <1> QED
    BY <1>3, <1>4, <1>5, <1>6 DEF OwedInv

LEMMA LoadOwed ==
    ASSUME KindsInv, OwedInv, Load
    PROVE  /\ OwedInv'
           /\ \A r \in Runtimes : is_running(r)' => is_running(r) /\ worker'[r].op = worker[r].op
  <1>1. "context" \in Runtimes
    BY DEF Runtimes
  <1>2. /\ worker["context"].at = "wait" /\ UNCHANGED <<pending, start_scheduled, owed>>
        /\ worker' = [worker EXCEPT !["context"].at = "save", !["context"].read = text[selected]]
    BY DEF Load
  <1> DEFINE new == [worker["context"] EXCEPT !.at = "save", !.read = text[selected]]
  <1>3. /\ new.at = "save" /\ new.op = worker["context"].op
        /\ worker' = [worker EXCEPT !["context"] = new]
    BY <1>1, <1>2 DEF KindsInv, QueueOK, Jobs
  <1> HIDE DEF new
  <1>4. worker'["context"] = new /\ \A r \in Runtimes : r # "context" => worker'[r] = worker[r]
    BY <1>1, <1>3 DEF KindsInv, QueueOK
  <1>5. \A r \in Runtimes : /\ worker'[r].op = worker[r].op
                            /\ is_running(r)' <=> is_running(r)
                            /\ busy(r)' <=> busy(r)
    BY <1>2, <1>3, <1>4 DEF is_running, busy
  <1> QED
    BY <1>2, <1>5 DEF OwedInv, OneWorker

\* What writes ends one worker, the only one.
LEMMA WriteStep ==
    ASSUME KindsInv, Writes
    PROVE  \/ Load
           \/ \E r \in Runtimes : /\ is_running(r) /\ ends(r) /\ answered(r)
                                  /\ UNCHANGED <<pending, start_scheduled, clicks>>
                                  /\ \/ r = "context" /\ Save
                                     \/ r = "move" /\ SaveMove
                                     \/ r \in user_runtimes /\ SaveUserProfile(r)
  BY DEF Writes, Save, SaveMove, SaveUserProfile, is_running, Runtimes, user_runtimes, countVars

LEMMA ActivePresetOwed ==
    ASSUME OwedInv, ActivePreset
    PROVE  OwedInv' /\ pending' \subseteq pending
  <1>1. UNCHANGED <<start_scheduled, worker>>
    BY DEF ActivePreset
  <1>2. \/ UNCHANGED <<pending, owed>>
        \/ drop_preset_bound
    BY DEF ActivePreset
  <1>3. CASE UNCHANGED <<pending, owed>>
    BY <1>1, <1>3 DEF OwedInv, OneWorker, busy, is_running
  <1>4. CASE drop_preset_bound
    <2> DEFINE dropped == {e \in pending : preset_bound(e.op.ask)}
    <2>1. pending' = pending \ dropped /\ owed' = owed \ ops(dropped)
      BY <1>4 DEF drop_preset_bound
    <2> HIDE DEF dropped
    <2>2. \A o \in owed' : o \in ops(pending) => o \in ops(pending')
      BY <2>1 DEF ops
    <2> QED
      BY <1>1, <2>1, <2>2 DEF OwedInv, OneWorker, busy, is_running
  <1> QED
    BY <1>2, <1>3, <1>4

\* What the user's selection and the loader do leaves the queue alone.
LEMMA QueueAlone ==
    ASSUME \/ \E p \in Presets : Select(p) \/ ContentChanged(p)
           \/ RunRequest \/ ReloadTimer \/ PageActivated \/ LoadReads \/ LoadFails \/ LoadEmits
           \/ LoadEnds \/ ListLoaded \/ ListFailed \/ ApplyList \/ LoadFinished \/ RunRefresh
           \/ UNCHANGED vars
    PROVE  UNCHANGED <<pending, start_scheduled, worker, owed, text, folders, clicks>>
  <1>1. CASE \E p \in Presets : Select(p)
    BY <1>1 DEF Select, SelectPreset, queueVars
  <1>2. CASE \E p \in Presets : ContentChanged(p)
    BY <1>2 DEF ContentChanged, queueVars, countVars
  <1>3. CASE LoadFails \/ ApplyList
    BY <1>3 DEF LoadFails, ApplyList, queueVars, presetVars, countVars
  <1>4. CASE UNCHANGED pageVars
    BY <1>4 DEF pageVars, queueVars, presetVars, countVars
  <1> QED
    BY <1>1, <1>2, <1>3, <1>4 DEF RunRequest, ReloadTimer, PageActivated, LoadReads, LoadEmits,
       LoadEnds, ListLoaded, ListFailed, LoadFinished, RunRefresh, vars

LEMMA OwedKept ==
    ASSUME "finish" \notin Windows, KindsInv, OwedInv, [Next]_vars
    PROVE  OwedInv'
  <1>1. CASE Writes
    BY <1>1, WriteStep, LoadOwed, EndOwed
  <1>2. CASE Breaks
    BY <1>2, EndOwed DEF Breaks, WriteFails
  <1>3. CASE ActivePreset
    BY <1>3, ActivePresetOwed
  <1>4. CASE UNCHANGED <<pending, start_scheduled, worker, owed, text, folders, clicks>>
    BY <1>4 DEF OwedInv, OneWorker, busy, is_running
  <1>5. CASE Next
    BY <1>1, <1>2, <1>3, <1>4, <1>5, ClickOwed, FinishedOwed, ScheduledOwed, QueueAlone
       DEF Next, Threads, EventLoop
  <1> QED
    BY <1>4, <1>5, QueueAlone

LEMMA InitOwed == Init => OwedInv
  BY DEF Init, QueueInit, Idle, OwedInv, OneWorker, busy, is_running

-----------------------------------------------------------------------------
(* The newest command is the one that stays *)

Starting == IF start_scheduled = NoOp THEN {} ELSE {start_scheduled}
Started == {worker[r].op : r \in {s \in Runtimes : is_running(s)}} \cup Starting
Unwritten == ops(pending) \cup Started

\* A command is numbered by its click, and no number is used twice.
IdsInv == \A o \in written \cup Unwritten : o \in Operations /\ o.id <= clicks

\* What is not written yet is newer than all that was written for the same.
LaterInv ==
    \A o \in Unwritten : \A e \in written :
        replaces(e.ask, o) /\ e.preset = o.preset => o.id > e.id

\* One command for a thing waits, and it is newer than the one at work.
AloneInv == \A d, e \in pending : replaces(d.op.ask, e.op) => d = e
AfterInv == \A e \in pending : \A o \in Started : replaces(o.ask, e.op) => e.op.id > o.id

OrderInv == IdsInv /\ LaterInv /\ AloneInv /\ AfterInv

\* Operations that are given up, or start as they are, change no order.
LEMMA OrderShrinks ==
    ASSUME OrderInv, pending' \subseteq pending, Started' \subseteq Started,
           UNCHANGED <<written, clicks>>
    PROVE  OrderInv'
  <1>1. ops(pending') \subseteq ops(pending)
    BY DEF ops
  <1>2. Unwritten' \subseteq Unwritten
    BY <1>1 DEF Unwritten
  <1>3. IdsInv' /\ LaterInv'
    BY <1>2 DEF OrderInv, IdsInv, LaterInv
  <1>4. AloneInv' /\ AfterInv'
    BY DEF OrderInv, AloneInv, AfterInv
  <1> QED
    BY <1>3, <1>4 DEF OrderInv

\* One that waited is the next: the others of the queue are for other things.
LEMMA OrderNext ==
    ASSUME OrderInv, NEW e \in pending, pending' \subseteq pending \ {e}, Started' \subseteq {e.op},
           UNCHANGED <<written, clicks>>
    PROVE  OrderInv'
  <1>1. ops(pending') \subseteq ops(pending) /\ e.op \in ops(pending)
    BY DEF ops
  <1>2. Unwritten' \subseteq Unwritten
    BY <1>1 DEF Unwritten
  <1>3. IdsInv' /\ LaterInv'
    BY <1>2 DEF OrderInv, IdsInv, LaterInv
  <1>4. AloneInv' /\ AfterInv'
    BY DEF OrderInv, AloneInv, AfterInv
  <1> QED
    BY <1>3, <1>4 DEF OrderInv

\* One that is written is newer than what it goes over.
LEMMA OrderWrites ==
    ASSUME OrderInv, NEW o \in Started, Started' = {}, written' \subseteq written \cup {o},
           UNCHANGED <<pending, clicks>>
    PROVE  /\ OrderInv'
           /\ \A n \in written' \ written : \A e \in written :
                 replaces(e.ask, n) /\ e.preset = n.preset => n.id > e.id
  <1>1. o \in Unwritten /\ Unwritten' = ops(pending) /\ ops(pending) \subseteq Unwritten
    BY DEF Unwritten
  <1>2. IdsInv'
    BY <1>1 DEF OrderInv, IdsInv
  <1>3. \A d \in ops(pending) : replaces(o.ask, d) => d.id > o.id
    BY DEF OrderInv, AfterInv, ops
  <1>4. LaterInv'
    BY <1>1, <1>3 DEF OrderInv, LaterInv
  <1>5. AloneInv' /\ AfterInv'
    BY DEF OrderInv, AloneInv, AfterInv
  <1>6. \A n \in written' \ written : n = o
    OBVIOUS
  <1> QED
    BY <1>1, <1>2, <1>4, <1>5, <1>6 DEF OrderInv, LaterInv

\* A command that has just been given is the newest of all.
LEMMA OrderClick ==
    ASSUME OrderInv, clicks \in Nat, clicks' = clicks + 1, UNCHANGED written,
           NEW op \in Operations, op.id = clicks + 1,
           \/ pending' = queue_operation(pending, op) /\ Started' = Started
           \/ pending = {} /\ pending' = {} /\ Started' = {op}
    PROVE  OrderInv'
  <1>1. ops(pending') \subseteq ops(pending) \cup {op}
    BY DEF ops, queue_operation
  <1>2. Unwritten' \subseteq Unwritten \cup {op}
    BY <1>1 DEF Unwritten
  <1>3. \A o \in written \cup Unwritten : o.id \in Nat /\ o.id <= clicks
    BY DEF OrderInv, IdsInv, Operations
  <1>4. IdsInv' /\ LaterInv'
    BY <1>2, <1>3 DEF OrderInv, IdsInv, LaterInv
  <1>5. CASE pending = {} /\ pending' = {}
    BY <1>4, <1>5 DEF OrderInv, AloneInv, AfterInv
  <1>6. CASE pending' = queue_operation(pending, op) /\ Started' = Started
    <2> DEFINE new == [place |-> last_place(pending) + 1, op |-> op]
    <2>1. /\ pending' = (pending \ replaced(pending, op.ask)) \cup {new} /\ new.op = op
      BY <1>6 DEF queue_operation
    <2> HIDE DEF new
    <2>2. \A d \in pending : replaces(op.ask, d.op) => d \in replaced(pending, op.ask)
      BY DEF replaced
    <2>3. \A d \in pending : replaces(d.op.ask, op) => replaces(op.ask, d.op)
      BY DEF replaces
    <2>4. \A d, e \in pending' : replaces(d.op.ask, e.op) => d = e
      BY <2>1, <2>2, <2>3 DEF OrderInv, AloneInv
    <2>5. \A o \in Started : o \in Unwritten
      BY DEF Unwritten
    <2>6. \A e \in pending' : \A o \in Started : replaces(o.ask, e.op) => e.op.id > o.id
      BY <1>3, <2>1, <2>5 DEF OrderInv, AfterInv
    <2> QED
      BY <1>4, <1>6, <2>4, <2>6 DEF OrderInv, AloneInv, AfterInv
  <1> QED
    BY <1>5, <1>6

LEMMA InitOrder == Init => OrderInv
  <1> SUFFICES ASSUME Init PROVE OrderInv
    OBVIOUS
  <1>1. pending = {} /\ folders = {} /\ start_scheduled = NoOp /\ \A r \in Runtimes : ~ is_running(r)
    BY DEF Init, QueueInit, Idle, is_running
  <1>2. written = {}
    BY <1>1 DEF Init, QueueInit, written
  <1>3. Unwritten = {}
    BY <1>1 DEF Unwritten, Started, Starting, ops
  <1> QED
    BY <1>1, <1>2, <1>3 DEF OrderInv, IdsInv, LaterInv, AloneInv, AfterInv

\* The worker just started is the only one.
LEMMA OneStarted ==
    ASSUME KindsInv, NEW op \in Operations, start_worker(op), \A r \in Runtimes : ~ busy(r),
           start_scheduled' = NoOp
    PROVE  Started' = {op}
  <1>1. PICK r \in Runtimes : /\ is_running(r)' /\ worker'[r].op = op
                              /\ \A s \in Runtimes : is_running(s)' => s = r
    BY StartIsOne DEF KindsInv
  <1> QED
    BY <1>1 DEF Started, Starting

LEMMA ClickOrder ==
    ASSUME "finish" \notin Windows, KindsInv, OwedInv, OrderInv, NEW a \in Asks, Click(a)
    PROVE  OrderInv'
  <1> DEFINE op == [id |-> clicks + 1, ask |-> a,
                    preset |-> IF preset_bound(a) THEN displayed ELSE NoPreset]
  <1>1. /\ op \in Operations /\ op.id = clicks + 1 /\ clicks \in Nat /\ clicks' = clicks + 1
        /\ UNCHANGED <<text, folders, start_scheduled>>
    BY QueueAssumption DEF Click, Request, Operations, KindsInv, QueueOK, PresetsOK, presetVars
  <1>2. UNCHANGED written
    BY <1>1 DEF written
  <1>3. CASE operation_running
    <2>1. pending' = queue_operation(pending, op) /\ UNCHANGED worker
      BY <1>3 DEF Click, Request
    <2>2. Started' = Started
      BY <1>1, <2>1 DEF Started, Starting, is_running
    <2> QED
      BY <1>1, <1>2, <2>1, <2>2, OrderClick
  <1>4. CASE ~ operation_running
    <2>1. start_worker(op) /\ UNCHANGED pending
      BY <1>4 DEF Click, Request
    <2>2. start_scheduled = NoOp /\ \A r \in Runtimes : ~ busy(r)
      BY <1>4, NobodyBusy
    <2>3. pending = {} /\ pending' = {}
      BY <2>1, <2>2 DEF OwedInv
    <2>4. Started' = {op}
      BY <1>1, <2>1, <2>2, OneStarted
    <2> QED
      BY <1>1, <1>2, <2>3, <2>4, OrderClick
  <1> QED
    BY <1>3, <1>4

LEMMA FinishedOrder ==
    ASSUME KindsInv, OwedInv, OrderInv, NEW r \in Runtimes, Finished(r)
    PROVE  OrderInv'
  <1>1. /\ worker[r].at = "ended" /\ worker' = [worker EXCEPT ![r] = Idle] /\ schedule_next
        /\ UNCHANGED <<text, folders, clicks>>
    BY DEF Finished, WorkerFinished, presetVars, countVars
  <1>2. UNCHANGED <<written, clicks>>
    BY <1>1 DEF written
  <1>3. start_scheduled = NoOp /\ \A s \in Runtimes : s # r => ~ busy(s)
    BY <1>1 DEF OwedInv, OneWorker, busy
  <1>4. \A s \in Runtimes : worker'[s].at = "none"
    BY <1>1, <1>3 DEF KindsInv, QueueOK, Idle, busy
  <1>5. Started' = Starting'
    BY <1>4 DEF Started, is_running
  <1>6. CASE pending = {}
    <2>1. pending' = pending /\ start_scheduled' = NoOp
      BY <1>1, <1>3, <1>6 DEF schedule_next
    <2> QED
      BY <1>2, <1>5, <2>1, OrderShrinks DEF Starting
  <1>7. CASE pending # {}
    <2>1. PICK e \in pending : start_scheduled' = e.op /\ pending' = pending \ {e}
      BY <1>1, <1>3, <1>7 DEF schedule_next
    <2>2. Started' \subseteq {e.op}
      BY <1>5, <2>1 DEF Starting
    <2> QED
      BY <1>2, <2>1, <2>2, OrderNext
  <1> QED
    BY <1>6, <1>7

LEMMA ScheduledOrder ==
    ASSUME KindsInv, OwedInv, OrderInv, Scheduled
    PROVE  OrderInv'
  <1> DEFINE op == start_scheduled
  <1>1. /\ op # NoOp /\ op \in Operations /\ start_scheduled' = NoOp
        /\ UNCHANGED <<text, folders, clicks>>
    BY DEF Scheduled, RunScheduled, KindsInv, QueueOK, presetVars, countVars
  <1>2. UNCHANGED <<written, clicks>>
    BY <1>1 DEF written
  <1>3. \A r \in Runtimes : ~ busy(r) /\ ~ is_running(r)
    BY <1>1 DEF OwedInv, OneWorker, busy, is_running
  <1>4. Started = {op}
    BY <1>1, <1>3 DEF Started, Starting
  <1>5. CASE start_worker(op) /\ UNCHANGED pending
    <2>1. Started' = {op}
      BY <1>1, <1>3, <1>5, OneStarted
    <2> QED
      BY <1>2, <1>4, <1>5, <2>1, OrderShrinks
  <1>6. CASE pending' = {} /\ UNCHANGED worker
    <2>1. Started' = {}
      BY <1>1, <1>3, <1>6 DEF Started, Starting, is_running
    <2> QED
      BY <1>2, <1>6, <2>1, OrderShrinks
  <1>7. ASSUME NEW e \in pending, start_worker(e.op), pending' \subseteq pending \ {e}
        PROVE  OrderInv'
    <2>1. e.op \in Operations
      BY DEF KindsInv, QueueOK, Entries
    <2>2. Started' = {e.op}
      BY <1>1, <1>3, <1>7, <2>1, OneStarted
    <2> QED
      BY <1>2, <1>7, <2>2, OrderNext
  <1>8. \/ start_worker(op) /\ UNCHANGED pending
        \/ pending' = {} /\ UNCHANGED worker
        \/ \E e \in pending : start_worker(e.op) /\ pending' \subseteq pending \ {e}
    BY <1>3 DEF Scheduled, RunScheduled
  <1> QED
    BY <1>5, <1>6, <1>7, <1>8

\* A write adds the operation of its worker and nothing else.
LEMMA WriteAdds ==
    ASSUME Inv, NEW r \in Runtimes, is_running(r),
           \/ r = "context" /\ Save
           \/ r = "move" /\ SaveMove
           \/ r \in user_runtimes /\ SaveUserProfile(r)
    PROVE  written' \subseteq written \cup {worker[r].op}
  <1>1. CASE r = "context" /\ Save
    <2> DEFINE new == [of |-> worker[r].read.of, edits |-> worker[r].read.edits \cup {worker[r].op}]
    <2>1. text' = [text EXCEPT ![selected] = new] /\ UNCHANGED folders
      BY <1>1 DEF Save
    <2>2. worker[r].read = text[selected]
      BY <1>1 DEF Inv, WorkerInv, Save
    <2>3. new.edits = text[selected].edits \cup {worker[r].op}
      BY <2>2
    <2> HIDE DEF new
    <2>4. \A p \in Presets : text'[p].edits \subseteq text[p].edits \cup {worker[r].op}
      BY <2>1, <2>3 DEF Inv, TypeInv
    <2> QED
      BY <2>1, <2>4 DEF written
  <1>2. CASE r = "move" /\ SaveMove
    BY <1>2 DEF SaveMove, written
  <1>3. CASE r \in user_runtimes /\ SaveUserProfile(r)
    <2>1. \A p \in Presets : /\ [text[p] EXCEPT !.edits = @ \cup {worker[r].op}].edits
                                = text[p].edits \cup {worker[r].op}
      BY DEF Inv, TypeInv, Texts
    <2>2. \A p \in Presets : text'[p].edits \subseteq text[p].edits \cup {worker[r].op}
      BY <1>3, <2>1 DEF SaveUserProfile
    <2>3. UNCHANGED folders
      BY <1>3 DEF SaveUserProfile
    <2> QED
      BY <2>2, <2>3 DEF written
  <1> QED
    BY <1>1, <1>2, <1>3

NewerOnly ==
    \A n \in written' \ written : \A e \in written :
        replaces(e.ask, n) /\ e.preset = n.preset => n.id > e.id

LEMMA OrderKept ==
    ASSUME {"finish", "select"} \cap Windows = {}, KindsInv, Inv, OwedInv, OrderInv, [Next]_vars
    PROVE  OrderInv' /\ NewerOnly
  <1>1. CASE UNCHANGED <<written, clicks>> /\ pending' \subseteq pending /\ Started' \subseteq Started
    BY <1>1, OrderShrinks DEF NewerOnly
  <1>2. CASE \E a \in Asks : Click(a)
    <2>1. UNCHANGED written
      BY <1>2 DEF Click, Request, presetVars, written
    <2> QED
      BY <1>2, <2>1, ClickOrder DEF NewerOnly
  <1>3. CASE (\E r \in Runtimes : Finished(r)) \/ Scheduled
    <2>1. UNCHANGED written
      BY <1>3 DEF Finished, WorkerFinished, Scheduled, RunScheduled, presetVars, written
    <2> QED
      BY <1>3, <2>1, FinishedOrder, ScheduledOrder DEF NewerOnly
  <1>4. CASE Load
    <2>1. UNCHANGED <<written, clicks, pending, start_scheduled>>
      BY <1>4 DEF Load, presetVars, countVars, written
    <2>2. Started' \subseteq Started
      BY <1>4, <2>1, LoadOwed DEF Started, Starting
    <2> QED
      BY <1>1, <2>1, <2>2
  <1>5. ASSUME NEW r \in Runtimes, is_running(r), ends(r), answered(r),
               UNCHANGED <<pending, start_scheduled, clicks>>,
               written' \subseteq written \cup {worker[r].op}
        PROVE  OrderInv' /\ NewerOnly
    <2>1. (\A s \in Runtimes : ~ is_running(s)') /\ start_scheduled = NoOp
      BY <1>5, EndOwed
    <2>2. Started' = {}
      BY <1>5, <2>1 DEF Started, Starting
    <2>3. worker[r].op \in Started
      BY <1>5 DEF Started
    <2> QED
      BY <1>5, <2>2, <2>3, OrderWrites DEF NewerOnly
  <1>6. CASE Writes
    <2>1. CASE Load
      BY <1>4, <2>1
    <2>2. CASE \E r \in Runtimes : /\ is_running(r) /\ ends(r) /\ answered(r)
                                   /\ UNCHANGED <<pending, start_scheduled, clicks>>
                                   /\ \/ r = "context" /\ Save
                                      \/ r = "move" /\ SaveMove
                                      \/ r \in user_runtimes /\ SaveUserProfile(r)
      BY <1>5, <2>2, WriteAdds
    <2> QED
      BY <1>6, <2>1, <2>2, WriteStep
  <1>7. CASE Breaks
    <2>1. PICK r \in Runtimes : WriteFails(r)
      BY <1>7 DEF Breaks
    <2>2. UNCHANGED <<written, clicks, pending, start_scheduled>>
      BY <2>1 DEF WriteFails, presetVars, written
    <2> QED
      BY <1>5, <2>1, <2>2 DEF WriteFails
  <1>8. CASE ActivePreset
    <2>1. UNCHANGED <<written, clicks, start_scheduled, worker>>
      BY <1>8 DEF ActivePreset, countVars, written
    <2>2. Started' = Started
      BY <2>1 DEF Started, Starting, is_running
    <2> QED
      BY <1>1, <1>8, <2>1, <2>2, ActivePresetOwed
  <1>9. CASE UNCHANGED <<pending, start_scheduled, worker, owed, text, folders, clicks>>
    <2>1. UNCHANGED written /\ Started' = Started
      BY <1>9 DEF written, Started, Starting, is_running
    <2> QED
      BY <1>1, <1>9, <2>1
  <1>10. CASE Next
    BY <1>2, <1>3, <1>6, <1>7, <1>8, <1>9, <1>10, QueueAlone DEF Next, Threads, EventLoop
  <1> QED
    BY <1>9, <1>10, QueueAlone

-----------------------------------------------------------------------------
(* The page catches up with the selection *)

\* The list read and not yet handed to the page, the one about to be put on
\* the screen, or the one there: what the page will show if nothing happens.
Untold == load.at \in {"builds", "emitted", "ended"} /\ ~ load.told
Waiting == IF Untold THEN load.list ELSE IF apply # NoList THEN apply ELSE screen

\* A list of the selected preset; what was written into it since is announced.
UpToDate(l) == l.of = selected /\ (l.text = text[selected] \/ selected \in news)

\* The loader reads again, whatever else happens.
Sure ==
    \/ request = "force" \/ refresh_pending \/ load.at = "reads"
    \/ load.at # "none" /\ load.told /\ dirty /\ ~ load.failed

\* A list known to be old is asked for again, once the one on its way is in.
Alarm == ~ Untold /\ dirty /\ (reload \/ request = "plain")

\* The presets the page shows, now or before it hears of the selection.
Shows == {displayed} \cup (IF apply # NoList THEN {apply.of} ELSE {})
         \cup (IF Untold /\ load.list # NoList THEN {load.list.of} ELSE {})

\* A notice on its way finds the page with another preset.
Telling(i) == /\ Untold => load.at # "builds" /\ i > load.behind
              /\ told[i] \notin Shows
NoticeComes == \E i \in 1..Len(told) : Telling(i)

\* The list could not be read, and the page says so.
Err == IF Untold THEN load.list = NoList ELSE apply = NoList /\ screen = NoList /\ dirty

CatchUp == Sure \/ UpToDate(Waiting) \/ Alarm \/ NoticeComes \/ Err

LoadInv ==
    /\ refresh_scheduled => refresh_pending /\ load.at = "none"
    /\ load.at # "none" /\ ~ load.current => refresh_pending
    /\ load.at # "none" /\ ~ load.told => dirty
    /\ load.at \in {"reads", "builds"} => ~ load.told
    /\ load.at = "reads" => load.list = NoList
    /\ load.at \in {"emitted", "ended"} /\ ~ load.told => load.behind <= Len(told)
    /\ screen # NoList => displayed = screen.of
    /\ apply # NoList /\ dirty => reload \/ request = "force"
    /\ request = "plain" /\ apply # NoList /\ ~ request_first => dirty
    /\ load.failed =>
         /\ load.told /\ dirty
         /\ \/ apply = NoList /\ screen = NoList
            \/ reload \/ request = "force" \/ refresh_pending

ListInv == LoadInv /\ CatchUp

LEMMA InitList == Init => ListInv
  <1> SUFFICES ASSUME Init PROVE ListInv
    OBVIOUS
  <1>1. LoadInv
    BY DEF Init, QueueInit, LoadInv, NoLoad
  <1>2. CatchUp
    BY DEF Init, QueueInit, CatchUp, UpToDate, Waiting, Untold, NoLoad
  <1> QED
    BY <1>1, <1>2 DEF ListInv

\* A list is told from none by the preset it was read from.
LEMMA ListOf ==
    ASSUME KindsInv
    PROVE  /\ load \in Loads /\ load.list \in Lists \cup {NoList} /\ load.behind \in Nat
           /\ \A l \in Lists \cup {NoList} : l # NoList => l.of \in Presets
           /\ \A l \in Lists : l # NoList
           /\ selected \in Presets /\ displayed \in Presets /\ NoPreset \notin Presets
           /\ told \in Seq(Presets) /\ Len(told) \in Nat
           /\ text \in [Presets -> Texts] /\ text[selected] \in Texts
  BY QueueAssumption DEF KindsInv, PresetsOK, LoaderOK, Loads, Lists, NoList

\* The writers of the queue: what they write is announced.
LEMMA WritersList ==
    ASSUME KindsInv, ListInv, UNCHANGED <<loaderVars, displayed, selected, told>>,
           text'[selected] = text[selected] \/ selected \in news',
           news \subseteq news'
    PROVE  ListInv'
  <1>1. LoadInv'
    BY DEF ListInv, LoadInv, loaderVars
  <1>2. UNCHANGED <<Sure, Waiting, Alarm, NoticeComes, Err>>
    BY DEF loaderVars, Sure, Waiting, Alarm, NoticeComes, Telling, Err, Shows, Untold
  <1>3. UpToDate(Waiting) => UpToDate(Waiting)'
    BY <1>2 DEF UpToDate
  <1> QED
    BY <1>1, <1>2, <1>3 DEF ListInv, CatchUp

LEMMA QueueList ==
    ASSUME KindsInv, ListInv,
           Writes \/ Breaks \/ Scheduled \/ (\E r \in Runtimes : Finished(r)) \/ (\E a \in Asks : Click(a))
    PROVE  ListInv'
  <1>1. CASE UNCHANGED <<loaderVars, displayed, selected, told, text, news>>
    BY <1>1, WritersList
  <1>2. CASE Writes
    <2>1. UNCHANGED <<loaderVars, displayed, selected, told>>
      BY <1>2 DEF Writes, Load, Save, SaveMove, SaveUserProfile, presetVars, countVars
    <2>2. UNCHANGED <<text, news>> \/ (news \subseteq news' /\ selected \in news')
      BY <1>2, ListOf
      DEF Writes, Load, Save, SaveMove, SaveUserProfile, presetVars, KindsInv, PresetsOK
    <2> QED
      BY <2>1, <2>2, WritersList
  <1>3. CASE Breaks
    BY <1>1, <1>3 DEF Breaks, WriteFails, presetVars
  <1>4. CASE Scheduled
    BY <1>1, <1>4 DEF Scheduled, RunScheduled, presetVars
  <1>5. CASE \E r \in Runtimes : Finished(r)
    BY <1>1, <1>5 DEF Finished, WorkerFinished, presetVars
  <1>6. CASE \E a \in Asks : Click(a)
    BY <1>1, <1>6 DEF Click, Request, presetVars
  <1> QED
    BY <1>2, <1>3, <1>4, <1>5, <1>6

\* A preset selected is announced to a page that shows another one, or the
\* announcement on its way, or the loader, makes good for it.
LEMMA SelectList ==
    ASSUME {"load", "return"} \cap Windows = {}, KindsInv, ListInv, NEW p \in Presets, Select(p)
    PROVE  ListInv'
  <1>1. /\ UNCHANGED <<loaderVars, displayed, text, news>>
        /\ told' = Append(told, p) /\ selected' = p /\ p # selected
        /\ load.at # "builds"
        /\ p \notin {displayed, apply.of} \/ (told = <<>> /\ load_idle)
    BY DEF Select, SelectPreset
  <1>2. /\ Len(told') = Len(told) + 1 /\ told'[Len(told')] = p
        /\ \A i \in 1..Len(told) : told'[i] = told[i]
    BY <1>1, ListOf
  <1>3. LoadInv'
    BY <1>1, <1>2, ListOf DEF ListInv, LoadInv, loaderVars
  <1>4. UNCHANGED <<Sure, Alarm, Err, Untold, Shows, load, apply>>
    BY <1>1 DEF loaderVars, Sure, Alarm, Err, Untold, Shows
  <1>5. NoticeComes => NoticeComes'
    BY <1>2, <1>4, ListOf DEF NoticeComes, Telling
  <1>6. CASE UpToDate(Waiting)
    <2>1. Waiting.of # p
      BY <1>1, <1>6 DEF UpToDate
    <2>2. CASE p \in Shows
      <3>1. CASE Untold
        BY <1>1, <2>1, <2>2, <3>1, ListOf DEF Shows, Waiting, load_idle, Untold, NoList
      <3>2. CASE ~ Untold
        BY <1>1, <1>6, <2>1, <2>2, <3>2, ListOf
        DEF Shows, Waiting, load_idle, NoList, ListInv, LoadInv, UpToDate
      <3> QED
        BY <3>1, <3>2
    <2>3. CASE p \notin Shows
      <3>1. PICK n \in 1..Len(told') : n = Len(told) + 1 /\ told'[n] = p
        BY <1>2, ListOf
      <3>2. Untold => load.at # "builds" /\ n > load.behind
        BY <1>1, <3>1, ListOf DEF ListInv, LoadInv, Untold
      <3>3. Telling(n)'
        BY <1>4, <2>3, <3>1, <3>2 DEF Telling
      <3> QED
        BY <1>3, <3>1, <3>3 DEF ListInv, CatchUp, NoticeComes
    <2> QED
      BY <2>2, <2>3
  <1>7. CASE Sure \/ Alarm \/ NoticeComes \/ Err
    BY <1>3, <1>4, <1>5, <1>7 DEF ListInv, CatchUp
  <1> QED
    BY <1>6, <1>7 DEF ListInv, CatchUp

LEMMA ActivePresetList ==
    ASSUME KindsInv, ListInv, ActivePreset
    PROVE  ListInv'
  <1>1. /\ told # <<>> /\ told' = Tail(told)
        /\ UNCHANGED <<selected, text, news, displayed, request, request_first, refresh_pending,
                       refresh_scheduled, apply, screen>>
        /\ load.at \in {"emitted", "ended"} => load.told \/ load.behind > 0
        /\ load' = IF load.behind > 0 THEN [load EXCEPT !.behind = @ - 1] ELSE load
        /\ \/ Head(told) = displayed /\ UNCHANGED <<dirty, reload>>
           \/ Head(told) # displayed /\ dirty' = TRUE /\ reload' = TRUE
    BY DEF ActivePreset, countVars
  <1>2. /\ Len(told') = Len(told) - 1 /\ Len(told) > 0 /\ Head(told) = told[1]
        /\ \A i \in 2..Len(told) : told'[i - 1] = told[i]
    BY <1>1, ListOf
  <1>3. /\ load'.at = load.at /\ load'.list = load.list /\ load'.current = load.current
        /\ load'.told = load.told /\ load'.failed = load.failed
        /\ load.behind > 0 => load'.behind = load.behind - 1
        /\ ~ (load.behind > 0) => load'.behind = load.behind
    BY <1>1, ListOf DEF Loads
  <1>4. dirty => dirty' /\ (reload => reload')
    BY <1>1 DEF KindsInv, LoaderOK
  <1>5. LoadInv'
    <2>1. load.at \in {"emitted", "ended"} /\ ~ load.told => load'.behind <= Len(told')
      BY <1>1, <1>2, <1>3, ListOf DEF ListInv, LoadInv
    <2> QED
      BY <1>1, <1>3, <1>4, <2>1 DEF ListInv, LoadInv
  <1>6. UNCHANGED <<Untold, Shows, Waiting>>
    BY <1>1, <1>3 DEF Untold, Shows, Waiting
  <1>7. Sure \/ UpToDate(Waiting) \/ Alarm \/ Err => CatchUp'
    BY <1>1, <1>3, <1>4, <1>6 DEF CatchUp, Sure, UpToDate, Alarm, Err
  <1>8. ASSUME NEW i \in 1..Len(told), Telling(i) PROVE CatchUp'
    <2>1. CASE i = 1
      <3>1. ~ Untold
        BY <1>1, <1>8, <2>1, ListOf DEF Telling, Untold
      <3>2. Head(told) # displayed
        BY <1>2, <1>8, <2>1 DEF Telling, Shows
      <3> QED
        BY <1>1, <1>6, <3>1, <3>2 DEF CatchUp, Alarm
    <2>2. CASE i # 1
      <3>1. i \in 2..Len(told) /\ i - 1 \in 1..Len(told')
        BY <1>2, <2>2, ListOf
      <3>2. Untold => i - 1 > load'.behind
        BY <1>1, <1>3, <1>8, <3>1, ListOf DEF Telling, Untold
      <3>3. Telling(i - 1)'
        BY <1>2, <1>3, <1>6, <1>8, <3>1, <3>2 DEF Telling
      <3> QED
        BY <3>1, <3>3 DEF CatchUp, NoticeComes
    <2> QED
      BY <2>1, <2>2
  <1> QED
    BY <1>5, <1>7, <1>8 DEF ListInv, CatchUp, NoticeComes

\* A list asked for by force is read, in the place of the one on its way.
LEMMA ForcedList ==
    ASSUME KindsInv, schedule_request_force, refresh_pending' = refresh_pending, load' = load
    PROVE  Sure' /\ (apply' = apply \/ apply' = NoList)
           /\ (request' = "force" \/ (apply' = NoList /\ request' = request /\ refresh_pending'))
  BY DEF schedule_request_force, Sure

LEMMA ContentList ==
    ASSUME KindsInv, ListInv, NEW p \in Presets, ContentChanged(p)
    PROVE  ListInv'
  <1>1. /\ news' = news \ {p}
        /\ UNCHANGED <<selected, told, text, displayed, reload, refresh_pending, refresh_scheduled,
                       load, screen, request_first>>
        /\ \/ p = selected /\ dirty' = TRUE /\ schedule_request_force
           \/ p # selected /\ UNCHANGED <<dirty, request, apply>>
    BY DEF ContentChanged, countVars
  <1>2. CASE p = selected
    <2>1. /\ Sure' /\ dirty' = TRUE /\ (apply' = apply \/ apply' = NoList)
          /\ request' = "force" \/ (apply' = NoList /\ request' = request /\ refresh_pending')
      BY <1>1, <1>2, ForcedList
    <2>2. LoadInv'
      BY <1>1, <2>1 DEF ListInv, LoadInv
    <2> QED
      BY <2>1, <2>2 DEF ListInv, CatchUp
  <1>3. CASE p # selected
    <2>1. LoadInv'
      BY <1>1, <1>3 DEF ListInv, LoadInv
    <2>2. UNCHANGED <<Sure, Waiting, Alarm, NoticeComes, Err>>
      BY <1>1, <1>3 DEF Sure, Waiting, Alarm, NoticeComes, Telling, Err, Shows, Untold
    <2>3. UpToDate(Waiting) => UpToDate(Waiting)'
      BY <1>1, <1>3, <2>2 DEF UpToDate
    <2> QED
      BY <2>1, <2>2, <2>3 DEF ListInv, CatchUp
  <1> QED
    BY <1>2, <1>3

LEMMA TimerList ==
    ASSUME KindsInv, ListInv, ReloadTimer
    PROVE  ListInv'
  <1>1. /\ reload' = FALSE
        /\ UNCHANGED <<selected, told, text, news, displayed, dirty, refresh_pending,
                       refresh_scheduled, load, screen, request_first>>
        /\ \/ dirty /\ schedule_request_force
           \/ ~ dirty /\ UNCHANGED <<request, apply>>
    BY DEF ReloadTimer, pageVars, presetVars
  <1>2. CASE dirty
    <2>1. /\ Sure' /\ dirty' /\ (apply' = apply \/ apply' = NoList)
          /\ request' = "force" \/ (apply' = NoList /\ request' = request /\ refresh_pending')
      BY <1>1, <1>2, ForcedList
    <2>2. LoadInv'
      BY <1>1, <2>1 DEF ListInv, LoadInv
    <2> QED
      BY <2>1, <2>2 DEF ListInv, CatchUp
  <1>3. CASE ~ dirty
    <2>1. LoadInv'
      BY <1>1, <1>3 DEF ListInv, LoadInv
    <2>2. UNCHANGED <<Sure, UpToDate(Waiting), NoticeComes, Err>> /\ ~ Alarm
      BY <1>1, <1>3
      DEF Sure, UpToDate, Waiting, Alarm, NoticeComes, Telling, Err, Shows, Untold
    <2> QED
      BY <2>1, <2>2 DEF ListInv, CatchUp
  <1> QED
    BY <1>2, <1>3

LEMMA RequestList ==
    ASSUME KindsInv, ListInv, RunRequest
    PROVE  ListInv'
  <1>1. /\ request # "no" /\ (apply = NoList \/ request_first)
        /\ request' = "no" /\ request_first' = FALSE
        /\ UNCHANGED <<selected, told, text, news, displayed, reload, refresh_scheduled, screen>>
    BY DEF RunRequest, pageVars, presetVars
  <1>2. request = "plain" \/ request = "force"
    BY <1>1 DEF KindsInv, LoaderOK
  <1>3. CASE request = "plain" /\ ~ dirty
    <2>1. UNCHANGED <<dirty, refresh_pending, load, apply>>
      BY <1>3 DEF RunRequest
    <2>2. LoadInv'
      BY <1>1, <1>3, <2>1 DEF ListInv, LoadInv
    <2>3. UNCHANGED <<Sure, UpToDate(Waiting), NoticeComes, Err>> /\ ~ Alarm
      BY <1>1, <1>3, <2>1
      DEF Sure, UpToDate, Waiting, Alarm, NoticeComes, Telling, Err, Shows, Untold
    <2> QED
      BY <2>2, <2>3 DEF ListInv, CatchUp
  <1>4. ASSUME ~ (load_running \/ refresh_scheduled),
               request = "plain" => dirty,
               refresh_pending' = FALSE, dirty' = TRUE,
               apply' = (IF request = "force" THEN NoList ELSE apply),
               load' = [NoLoad EXCEPT !.at = "reads", !.current = TRUE, !.told = FALSE]
        PROVE  ListInv'
    <2>1. /\ load'.at = "reads" /\ load'.current /\ ~ load'.told /\ ~ load'.failed
          /\ load'.list = NoList
      BY <1>4 DEF NoLoad
    <2>2. LoadInv'
      BY <1>1, <1>2, <1>4, <2>1 DEF ListInv, LoadInv
    <2> QED
      BY <2>1, <2>2 DEF ListInv, CatchUp, Sure
  <1>5. CASE request = "force"
    <2>1. dirty' = TRUE /\ apply' = NoList
      BY <1>5 DEF RunRequest
    <2>2. CASE load_running \/ refresh_scheduled
      <3>1. refresh_pending' /\ load' = invalidate_in_flight(TRUE)
        BY <1>5, <2>2 DEF RunRequest
      <3>2. /\ load'.at = load.at /\ load'.told = load.told /\ load'.failed = load.failed
            /\ load'.list = load.list /\ load'.behind = load.behind
        BY <3>1, ListOf DEF invalidate_in_flight, Loads
      <3>3. LoadInv'
        BY <1>1, <2>1, <3>1, <3>2 DEF ListInv, LoadInv
      <3> QED
        BY <3>1, <3>3 DEF ListInv, CatchUp, Sure
    <2>3. CASE ~ (load_running \/ refresh_scheduled)
      BY <1>4, <1>5, <2>1, <2>3 DEF RunRequest
    <2> QED
      BY <2>2, <2>3
  <1>6. CASE request = "plain" /\ dirty
    <2>1. dirty' = TRUE /\ apply' = apply
      BY <1>6 DEF RunRequest
    <2>2. CASE load_running \/ refresh_scheduled
      <3>1. refresh_pending' = refresh_pending /\ load' = invalidate_in_flight(FALSE)
        BY <1>6, <2>2 DEF RunRequest, KindsInv, LoaderOK
      <3>2. /\ load'.at = load.at /\ load'.told = load.told /\ load'.failed = load.failed
            /\ load'.list = load.list /\ load'.behind = load.behind /\ load'.current = load.current
        BY <3>1, ListOf DEF invalidate_in_flight, Loads
      <3>3. LoadInv'
        BY <1>1, <1>6, <2>1, <3>1, <3>2 DEF ListInv, LoadInv
      <3>4. Sure => Sure'
        BY <1>6, <2>1, <3>1, <3>2 DEF Sure
      <3>5. UNCHANGED <<UpToDate(Waiting), NoticeComes, Untold>>
        BY <1>1, <2>1, <3>2 DEF UpToDate, Waiting, NoticeComes, Telling, Shows, Untold
      <3>6. Err => Err'
        BY <1>1, <2>1, <3>2, <3>5 DEF Err
      <3>7. CASE Alarm /\ ~ Sure
        <4>1. load.at = "emitted" /\ load.told /\ load.failed
          BY <1>6, <2>2, <3>7 DEF Alarm, Sure, Untold, load_running, ListInv, LoadInv
        <4>2. Alarm' \/ Err'
          BY <1>1, <1>6, <2>1, <3>2, <3>7, <4>1 DEF Alarm, Err, Untold, Sure, ListInv, LoadInv
        <4> QED
          BY <3>3, <4>2 DEF ListInv, CatchUp
      <3> QED
        BY <3>3, <3>4, <3>5, <3>6, <3>7 DEF ListInv, CatchUp
    <2>3. CASE ~ (load_running \/ refresh_scheduled)
      BY <1>4, <1>6, <2>1, <2>3 DEF RunRequest
    <2> QED
      BY <2>2, <2>3
  <1> QED
    BY <1>2, <1>3, <1>5, <1>6 DEF KindsInv, LoaderOK

\* The thread of the loader, up to the signal that hands the list over.
LEMMA ThreadList ==
    ASSUME KindsInv, ListInv, LoadReads \/ LoadFails \/ LoadEmits \/ LoadEnds
    PROVE  ListInv'
  <1>1. UNCHANGED <<selected, told, text, news, displayed, dirty, reload, request, refresh_pending,
                    refresh_scheduled, apply, request_first, screen>>
    BY DEF LoadReads, LoadFails, LoadEmits, LoadEnds, pageVars, presetVars, countVars
  <1>2. load.at \in {"reads", "builds", "emitted"} /\ load \in Loads
    BY ListOf DEF LoadReads, LoadFails, LoadEmits, LoadEnds
  <1>3. load'.current = load.current /\ load'.told = load.told /\ load'.failed = load.failed
    BY <1>2 DEF LoadReads, LoadFails, LoadEmits, LoadEnds, Loads
  <1>4. CASE LoadReads
    <2>1. load'.at = "builds" /\ load'.list = [of |-> selected, text |-> text[selected]] /\ ~ load'.told
      BY <1>2, <1>3, <1>4 DEF LoadReads, Loads, ListInv, LoadInv
    <2>2. LoadInv'
      BY <1>1, <1>3, <1>4, <2>1 DEF LoadReads, ListInv, LoadInv
    <2>3. UpToDate(Waiting)'
      BY <1>1, <2>1 DEF UpToDate, Waiting, Untold
    <2> QED
      BY <2>2, <2>3 DEF ListInv, CatchUp
  <1>5. CASE LoadFails
    <2>1. load'.at = "builds" /\ load'.list = NoList /\ ~ load'.told
      BY <1>2, <1>3, <1>5 DEF LoadFails, Loads, ListInv, LoadInv
    <2>2. LoadInv'
      BY <1>1, <1>3, <1>5, <2>1 DEF LoadFails, ListInv, LoadInv
    <2> QED
      BY <2>1, <2>2 DEF ListInv, CatchUp, Err, Untold
  <1>6. CASE LoadEmits
    <2>1. /\ load.at = "builds" /\ load'.at = "emitted" /\ load'.list = load.list
          /\ load'.behind = Len(told) /\ ~ load.told
      BY <1>2, <1>6 DEF LoadEmits, Loads, ListInv, LoadInv
    <2>2. LoadInv'
      BY <1>1, <1>3, <2>1, ListOf DEF ListInv, LoadInv
    <2>3. UNCHANGED <<Untold, UpToDate(Waiting), Alarm, Err>> /\ ~ NoticeComes /\ (Sure => Sure')
      BY <1>1, <1>3, <2>1 DEF Untold, UpToDate, Waiting, Alarm, Err, NoticeComes, Telling, Sure
    <2> QED
      BY <2>2, <2>3 DEF ListInv, CatchUp
  <1>7. CASE LoadEnds
    <2>1. /\ load.at = "emitted" /\ load'.at = "ended" /\ load'.list = load.list
          /\ load'.behind = load.behind
      BY <1>2, <1>7 DEF LoadEnds, Loads
    <2>2. LoadInv'
      BY <1>1, <1>3, <2>1 DEF ListInv, LoadInv
    <2>3. UNCHANGED <<Sure, UpToDate(Waiting), Alarm, NoticeComes, Err>>
      BY <1>1, <1>3, <2>1
      DEF Sure, UpToDate, Waiting, Alarm, NoticeComes, Telling, Shows, Err, Untold
    <2> QED
      BY <2>2, <2>3 DEF ListInv, CatchUp
  <1> QED
    BY <1>4, <1>5, <1>6, <1>7

LEMMA LoadedList ==
    ASSUME KindsInv, ListInv, ListLoaded
    PROVE  ListInv'
  <1>1. /\ Untold /\ load.list # NoList /\ load.at \in {"emitted", "ended"} /\ ~ load.told
        /\ UNCHANGED <<selected, told, text, news, displayed, reload, request, refresh_pending,
                       refresh_scheduled, screen>>
    BY DEF ListLoaded, Untold, pageVars, presetVars
  <1>2. /\ load'.told /\ load'.at = load.at /\ load'.list = load.list /\ load'.behind = load.behind
        /\ load'.current = load.current /\ load'.failed = load.failed
    BY ListOf DEF ListLoaded, Loads
  <1>3. ~ load.failed /\ dirty
    BY <1>1 DEF ListInv, LoadInv
  <1>4. CASE load.current /\ ~ refresh_pending
    <2>1. dirty' = FALSE /\ apply' = load.list /\ request_first' = (request # "no")
      BY <1>4 DEF ListLoaded
    <2>2. LoadInv'
      BY <1>1, <1>2, <1>3, <1>4, <2>1 DEF ListInv, LoadInv
    <2>3. ~ Untold' /\ Waiting' = Waiting /\ Shows' \subseteq Shows
      BY <1>1, <1>2, <2>1, ListOf DEF Untold, Waiting, Shows
    <2>4. UpToDate(Waiting) => UpToDate(Waiting)'
      BY <1>1, <2>3 DEF UpToDate
    <2>5. NoticeComes => NoticeComes'
      BY <1>1, <2>3 DEF NoticeComes, Telling
    <2>6. Sure => Sure'
      BY <1>1, <1>4 DEF Sure
    <2>7. ~ Alarm /\ ~ Err
      BY <1>1 DEF Alarm, Err
    <2> QED
      BY <2>2, <2>4, <2>5, <2>6, <2>7 DEF ListInv, CatchUp
  <1>5. CASE ~ (load.current /\ ~ refresh_pending)
    <2>1. UNCHANGED <<dirty, apply, request_first>> /\ refresh_pending'
      BY <1>1, <1>5 DEF ListLoaded, ListInv, LoadInv
    <2>2. LoadInv'
      BY <1>1, <1>2, <1>3, <2>1 DEF ListInv, LoadInv
    <2> QED
      BY <2>1, <2>2 DEF ListInv, CatchUp, Sure
  <1> QED
    BY <1>4, <1>5

LEMMA FailedList ==
    ASSUME KindsInv, ListInv, ListFailed
    PROVE  ListInv'
  <1>1. /\ load.list = NoList /\ load.at \in {"emitted", "ended"} /\ ~ load.told
        /\ UNCHANGED <<selected, told, text, news, displayed, reload, request, refresh_pending,
                       refresh_scheduled, apply, request_first>>
    BY DEF ListFailed, pageVars, presetVars
  <1>2. /\ load'.told /\ load'.at = load.at /\ load'.list = load.list /\ load'.behind = load.behind
        /\ load'.current = load.current
    BY ListOf DEF ListFailed, Loads
  <1>3. ~ load.failed /\ dirty
    BY <1>1 DEF ListInv, LoadInv
  <1>4. CASE load.current /\ ~ refresh_pending /\ request = "no"
    <2>1. load'.failed /\ dirty' = TRUE /\ screen' = NoList
      BY <1>4, ListOf DEF ListFailed, Loads
    <2>2. apply # NoList => reload
      BY <1>1, <1>3, <1>4 DEF ListInv, LoadInv
    <2>3. LoadInv'
      BY <1>1, <1>2, <1>3, <1>4, <2>1, <2>2 DEF ListInv, LoadInv
    <2>4. Err' \/ Alarm'
      BY <1>1, <1>2, <2>1, <2>2 DEF Err, Alarm, Untold
    <2> QED
      BY <2>3, <2>4 DEF ListInv, CatchUp
  <1>5. CASE ~ (load.current /\ ~ refresh_pending /\ request = "no")
    <2>1. UNCHANGED <<dirty, screen>> /\ load'.failed = load.failed
      BY <1>5, ListOf DEF ListFailed, Loads
    <2>2. LoadInv'
      BY <1>1, <1>2, <1>3, <2>1 DEF ListInv, LoadInv
    <2>3. Sure'
      BY <1>1, <1>2, <1>3, <2>1 DEF Sure
    <2> QED
      BY <2>2, <2>3 DEF ListInv, CatchUp
  <1> QED
    BY <1>4, <1>5

LEMMA ApplyKeepsList ==
    ASSUME KindsInv, ListInv, ApplyList
    PROVE  ListInv'
  <1>1. /\ apply # NoList /\ ~ request_first /\ apply' = NoList
        /\ UNCHANGED <<selected, told, text, news, dirty, reload, request, refresh_pending,
                       refresh_scheduled, load, request_first>>
    BY DEF ApplyList, presetVars
  <1>2. Untold' = Untold /\ (Sure => Sure')
    BY <1>1 DEF Untold, Sure
  <1>3. CASE refresh_pending \/ request # "no"
    <2>1. UNCHANGED <<screen, displayed>>
      BY <1>3 DEF ApplyList
    <2>2. LoadInv'
      BY <1>1, <2>1 DEF ListInv, LoadInv
    <2>3. Sure' \/ Alarm' \/ (Untold /\ request = "plain")
      BY <1>1, <1>2, <1>3 DEF Sure, Alarm, ListInv, LoadInv, KindsInv, LoaderOK
    <2>4. CASE Untold /\ request = "plain"
      <3>1. Waiting' = Waiting /\ Shows' \subseteq Shows
        BY <1>1, <2>1, <2>4 DEF Waiting, Shows, Untold
      <3>2. UpToDate(Waiting) => UpToDate(Waiting)'
        BY <1>1, <3>1 DEF UpToDate
      <3>3. NoticeComes => NoticeComes'
        BY <1>1, <1>2, <3>1 DEF NoticeComes, Telling
      <3>4. ~ Alarm /\ (Err => Err')
        BY <1>1, <1>2, <2>4 DEF Alarm, Err
      <3> QED
        BY <1>2, <2>2, <3>2, <3>3, <3>4 DEF ListInv, CatchUp
    <2> QED
      BY <2>2, <2>3, <2>4 DEF ListInv, CatchUp
  <1>4. CASE ~ (refresh_pending \/ request # "no")
    <2>1. screen' = apply /\ displayed' = apply.of
      BY <1>4 DEF ApplyList
    <2>2. LoadInv'
      BY <1>1, <1>4, <2>1 DEF ListInv, LoadInv
    <2>3. Waiting' = Waiting /\ Shows' \subseteq Shows
      BY <1>1, <2>1 DEF Waiting, Shows, Untold
    <2>4. UpToDate(Waiting) => UpToDate(Waiting)'
      BY <1>1, <2>3 DEF UpToDate
    <2>5. NoticeComes => NoticeComes'
      BY <1>1, <1>2, <2>3 DEF NoticeComes, Telling
    <2>6. (Alarm => Alarm') /\ (Err => Err')
      BY <1>1, <1>2 DEF Alarm, Err
    <2> QED
      BY <1>2, <2>2, <2>4, <2>5, <2>6 DEF ListInv, CatchUp
  <1> QED
    BY <1>3, <1>4

LEMMA RestList ==
    ASSUME KindsInv, ListInv, LoadFinished \/ RunRefresh \/ PageActivated \/ UNCHANGED vars
    PROVE  ListInv'
  <1>1. CASE LoadFinished
    <2>1. /\ load.at = "ended" /\ load.told /\ load' = NoLoad
          /\ refresh_pending' = (refresh_pending \/ (dirty /\ ~ load.failed))
          /\ refresh_scheduled' = (refresh_scheduled \/ refresh_pending')
          /\ UNCHANGED <<selected, told, text, news, displayed, dirty, reload, request, apply, screen,
                         request_first>>
      BY <1>1 DEF LoadFinished, pageVars, presetVars
    <2>2. load'.at = "none" /\ ~ load'.failed
      BY <2>1 DEF NoLoad
    <2>3. LoadInv'
      BY <2>1, <2>2 DEF ListInv, LoadInv
    <2>4. ~ Untold /\ ~ Untold' /\ (Sure => Sure')
      BY <2>1, <2>2 DEF Untold, Sure
    <2>5. UNCHANGED <<UpToDate(Waiting), Alarm, NoticeComes, Err>>
      BY <2>1, <2>4 DEF UpToDate, Waiting, Alarm, NoticeComes, Telling, Shows, Err
    <2> QED
      BY <2>3, <2>4, <2>5 DEF ListInv, CatchUp
  <1>2. CASE RunRefresh
    <2>1. /\ refresh_pending /\ load.at = "none" /\ request' = "force" /\ refresh_scheduled' = FALSE
          /\ UNCHANGED <<displayed, dirty, reload, load, apply, screen, request_first, told>>
      BY <1>2 DEF RunRefresh, ListInv, LoadInv, pageVars, presetVars
    <2>2. LoadInv'
      BY <2>1 DEF ListInv, LoadInv
    <2> QED
      BY <2>1, <2>2 DEF ListInv, CatchUp, Sure
  <1>3. CASE PageActivated
    <2>1. /\ dirty /\ request = "no" /\ request' = "plain"
          /\ UNCHANGED <<selected, told, text, news, displayed, dirty, reload, refresh_pending,
                         refresh_scheduled, load, apply, screen, request_first>>
      BY <1>3 DEF PageActivated, pageVars, presetVars
    <2>2. LoadInv'
      BY <2>1 DEF ListInv, LoadInv
    <2>3. /\ UNCHANGED <<UpToDate(Waiting), NoticeComes, Err>>
          /\ (Sure => Sure') /\ (Alarm => Alarm')
      BY <2>1 DEF UpToDate, Waiting, Alarm, NoticeComes, Telling, Shows, Err, Untold, Sure
    <2> QED
      BY <2>2, <2>3 DEF ListInv, CatchUp
  <1>4. CASE UNCHANGED vars
    BY <1>4, WritersList DEF vars, pageVars, presetVars
  <1> QED
    BY <1>1, <1>2, <1>3, <1>4

LEMMA ListKept ==
    ASSUME {"load", "return"} \cap Windows = {}, KindsInv, ListInv, [Next]_vars
    PROVE  ListInv'
  BY QueueList, SelectList, ActivePresetList, ContentList, TimerList, RequestList, ThreadList,
     LoadedList, FailedList, ApplyKeepsList, RestList
  DEF Next, Threads, EventLoop

-----------------------------------------------------------------------------
(* The theorems *)

\* What is asked for on the rows of a preset goes into that preset, and no
\* preset is overwritten with the text of another (preset_write_queue.py with
\* profile/service.py).
THEOREM RightPresetAlways ==
    ASSUME {"finish", "select"} \cap Windows = {}
    PROVE  Spec => []RightPreset
  <1>1. Init => Inv
    BY InitInv
  <1>2. Inv /\ [Next]_vars => Inv'
    BY NextInv
  <1>3. Inv => RightPreset
    BY DEF Inv
  <1> QED
    BY <1>1, <1>2, <1>3, PTL DEF Spec

\* Reading a whole text and writing a whole text never drops what another
\* worker wrote between the two.
THEOREM NothingUndoneEver ==
    ASSUME {"finish", "select"} \cap Windows = {}
    PROVE  Spec => NothingUndone
  <1>1. Init => Inv
    BY InitInv
  <1>2. Inv /\ [Next]_vars => Inv'
    BY NextInv
  <1>3. Inv /\ [Next]_vars => [\A p \in Presets : text[p].edits \subseteq text'[p].edits]_vars
    BY NextInv
  <1> QED
    BY <1>1, <1>2, <1>3, PTL DEF Spec, NothingUndone

\* The variables of the queue, of the presets and of the loader of the list
\* keep their types, whatever moments the changes of the selection fall into;
\* in particular the places of a queue stay numbers.
THEOREM TypeCorrect == Spec => []TypeOK
  <1>1. KindsInv => TypeOK
    BY DEF KindsInv, QueueOK, PresetsOK, LoaderOK, TypeOK, QueueTypeOK, Jobs, Loads
  <1> QED
    BY <1>1, InitKinds, KindsKept, PTL DEF Spec

\* When nothing is on its way any more, every command the page accepted was
\* written, failed, was replaced or was given up: none stays in the queue of
\* preset_write_queue.py.  No click may come between the end of a worker's
\* thread and its signal.
THEOREM NothingForgottenEver ==
    ASSUME "finish" \notin Windows
    PROVE  Spec => []NothingForgotten
  <1>1. KindsInv /\ OwedInv => NothingForgotten
    <2>1. SUFFICES ASSUME KindsInv, OwedInv, Quiet PROVE owed = {} /\ pending = {}
      BY DEF NothingForgotten
    <2>2. start_scheduled = NoOp /\ \A r \in Runtimes : ~ busy(r) /\ ~ is_running(r)
      BY <2>1 DEF Quiet, busy, is_running
    <2>3. pending = {}
      BY <2>1, <2>2 DEF OwedInv
    <2>4. \A o \in owed : o = NoOp
      BY <2>1, <2>2, <2>3 DEF OwedInv, ops
    <2> QED
      BY <2>1, <2>3, <2>4, QueueAssumption DEF KindsInv, QueueOK
  <1> QED
    BY <1>1, InitKinds, KindsKept, InitOwed, OwedKept, PTL DEF Spec

\* A command is never written over a newer one for the same thing: the queue
\* of preset_write_queue.py lets the newer one take the place of the waiting
\* one and keeps it behind the one at work.
THEOREM NewestAlwaysWins ==
    ASSUME {"finish", "select"} \cap Windows = {}
    PROVE  Spec => NewestWins
  <1> DEFINE All == KindsInv /\ Inv /\ OwedInv /\ OrderInv
  <1>1. Init => All
    BY InitKinds, InitInv, InitOwed, InitOrder
  <1>2. All /\ [Next]_vars => All'
    BY KindsKept, NextInv, OwedKept, OrderKept
  <1>3. All /\ [Next]_vars
        => [\A o \in written' \ written : \A e \in written :
               (replaces(e.ask, o) /\ e.preset = o.preset) => o.id > e.id]_vars
    BY OrderKept DEF NewerOnly
  <1> QED
    BY <1>1, <1>2, <1>3, PTL DEF Spec, NewestWins

\* When nothing is on its way any more, the page shows the selected preset with
\* all that was written into it, or says that it could not read it
\* (profile_payload_controller.py with the notices of the UI store).  The
\* selection may change at any moment of a write, and no change falls into the
\* moments "load" and "return".
THEOREM ListAlwaysCatchesUp ==
    ASSUME {"load", "return"} \cap Windows = {}
    PROVE  Spec => []ListCatchesUp
  <1>1. KindsInv /\ ListInv => ListCatchesUp
    <2>1. SUFFICES ASSUME KindsInv, ListInv, Quiet
                   PROVE  \/ screen = NoList /\ dirty
                          \/ /\ displayed = selected
                             /\ screen = [of |-> selected, text |-> text[selected]]
      BY DEF ListCatchesUp
    <2>2. ~ Untold /\ ~ Sure /\ ~ Alarm /\ Waiting = screen /\ Len(told) = 0 /\ news = {}
      BY <2>1 DEF Quiet, load_idle, Untold, Sure, Alarm, Waiting
    <2>3. ~ NoticeComes
      BY <2>2 DEF NoticeComes
    <2>4. CASE Err
      BY <2>2, <2>4 DEF Err
    <2>5. CASE UpToDate(screen)
      <3>1. screen.of = selected /\ screen.text = text[selected]
        BY <2>2, <2>5 DEF UpToDate
      <3>2. screen # NoList
        BY <2>1, <3>1, ListOf DEF NoList
      <3>3. screen \in Lists /\ displayed = selected
        BY <2>1, <3>1, <3>2 DEF KindsInv, LoaderOK, ListInv, LoadInv
      <3> QED
        BY <3>1, <3>3 DEF Lists
    <2> QED
      BY <2>1, <2>2, <2>3, <2>4, <2>5 DEF ListInv, CatchUp
  <1> QED
    BY <1>1, InitKinds, KindsKept, InitList, ListKept, PTL DEF Spec
=============================================================================
