----------------------------- MODULE WorkerGate -----------------------------
(***************************************************************************)
(* ui/background_worker_gate.py with ui/one_shot_worker_runtime.py: every   *)
(* page starts its background workers through a runtime of its own, and all *)
(* the runtimes go through one gate, which lets Limit workers run and keeps *)
(* the rest in a queue.  A worker that has stopped, or is older than 800 ms,*)
(* no longer keeps its slot; a timer looks for such slots.                  *)
(*                                                                          *)
(* A worker is named by its number in the order of their creation and       *)
(* stands for its ticket too.  _active is the set of the tickets whose      *)
(* state is active.  All of this runs in the GUI thread but the worker's    *)
(* own run; the signals of a worker reach the GUI thread as events in the   *)
(* order they were emitted.  Signals of different workers may overtake each *)
(* other here, which allows more than Qt does.                              *)
(*                                                                          *)
(* Time is what the slots and the timer know of it: old is the set of       *)
(* active workers that are 800 ms old.  The timer is set again at every     *)
(* start, so when its 800 ms are over every active worker is old.           *)
(* Windows: "early", the timer fires before the last started worker is old  *)
(* (a coarse QTimer against time.monotonic); "gap" is LatestWorkerLane's.   *)
(***************************************************************************)
EXTENDS Naturals, Sequences, FiniteSets, SequencesExt

CONSTANTS Runtimes,     \* the OneShotWorkerRuntime objects of the pages
          Limit,        \* BACKGROUND_WORKER_LIMIT
          Windows,
          MaxWorkers    \* bound: workers made

ASSUME GateAssumption == /\ Limit \in Nat \ {0} /\ MaxWorkers \in Nat
                         /\ Windows \subseteq {"early", "gap"}

Workers == 1..MaxWorkers
NoWorker == 0

VARIABLES
    gate,        \* [ticket, thread, queue, timer, held], see GateTypeOK
    old,         \* active workers whose slot is 800 ms old
    worker,      \* worker of each runtime
    owner,       \* the runtime that made a worker, NoWorker of one not made
    made         \* workers made so far

gateVars == <<gate, old, worker, owner, made>>

Tickets == {"new", "queued", "active", "released", "cancelled", "long_running"}

(* held is the _ticket of a runtime.  A thread is made, runs, emits its      *)
(* answer, has ended (its finished is on its way), is told (finished was     *)
(* handled, the release was not) and is gone; deleted is a worker whose C++  *)
(* object went with its page before it was started.                          *)
Threads == {"none", "made", "deleted", "runs", "emits", "ended", "told", "gone"}

GateTypeOK ==
    /\ gate \in [ticket : [Workers -> Tickets], thread : [Workers -> Threads],
                 queue : Seq(Workers), timer : {"off", "set", "due"},
                 held : [Runtimes -> Workers \cup {NoWorker}]]
    /\ old \subseteq Workers
    /\ worker \in [Runtimes -> Workers \cup {NoWorker}]
    /\ owner \in [Workers -> Runtimes \cup {NoWorker}]
    /\ made \in 0..MaxWorkers

GateInit ==
    /\ gate = [ticket |-> [w \in Workers |-> "new"], thread |-> [w \in Workers |-> "none"],
               queue |-> <<>>, timer |-> "off", held |-> [r \in Runtimes |-> NoWorker]]
    /\ old = {}
    /\ worker = [r \in Runtimes |-> NoWorker]
    /\ owner = [w \in Workers |-> NoWorker]
    /\ made = 0

-----------------------------------------------------------------------------
(* What a call of the gate makes of its record *)

active(g) == {w \in Workers : g.ticket[w] = "active"}
isRunning(g, w) == g.thread[w] \in {"runs", "emits"}
slot_is_stale(g, w) == ~ isRunning(g, w) \/ w \in old

reclaim_stale_slots(g) ==
    [g EXCEPT !.ticket = [w \in Workers |-> IF w \in active(g) /\ slot_is_stale(g, w)
                                            THEN "long_running" ELSE g.ticket[w]]]

(* The workers of ws get a slot and are started.  The start of a deleted one *)
(* raises, which gives its slot back at once.                                *)
run_start(g, ws) ==
    LET dead == {w \in ws : g.thread[w] = "deleted"}
    IN  [g EXCEPT
            !.ticket = [w \in Workers |-> IF w \in dead THEN "released"
                                          ELSE IF w \in ws THEN "active" ELSE g.ticket[w]],
            !.thread = [w \in Workers |-> IF w \in ws \ dead THEN "runs" ELSE g.thread[w]],
            !.held = [r \in Runtimes |-> IF g.held[r] \in dead THEN NoWorker ELSE g.held[r]],
            !.timer = IF ws = dead THEN g.timer ELSE "set"]

(* n workers leave the queue: each while a slot is free, and no slot stays   *)
(* free while one waits.                                                     *)
pops(g, n) ==
    LET free == Limit - Cardinality(active(g))
        live(k) == Cardinality({i \in 1..k : g.thread[g.queue[i]] # "deleted"})
    IN  /\ \A k \in 0..(n - 1) : live(k) < free
        /\ n < Len(g.queue) => live(n) >= free

MutPumpsUnreclaimed(g) ==
    {[run_start(g, {g.queue[i] : i \in 1..n}) EXCEPT !.queue = SubSeq(g.queue, n + 1, Len(g.queue))] :
        n \in {k \in 0..Len(g.queue) : pops(g, k)}}

(* _pump: the one state it leaves.                                           *)
pumped(g) ==
    LET r == reclaim_stale_slots(g)
    IN  {[run_start(r, {r.queue[i] : i \in 1..n}) EXCEPT !.queue = SubSeq(r.queue, n + 1, Len(r.queue))] :
            n \in {k \in 0..Len(r.queue) : pops(r, k)}}

submit(g, w) ==
    LET r == reclaim_stale_slots(g)
    IN  IF Cardinality(active(r)) < Limit THEN run_start(r, {w})
        ELSE [r EXCEPT !.ticket[w] = "queued", !.queue = Append(r.queue, w)]

(* release and cancel; the pump they ask for runs before they return.        *)
drop(g, w, state) == pumped([g EXCEPT !.ticket[w] = state, !.queue = RemoveFirst(g.queue, w)])

is_queued(r) == gate.held[r] # NoWorker /\ gate.ticket[gate.held[r]] = "queued"

MutKeepsQueued(r) == {[gate EXCEPT !.held[r] = NoWorker]}

(* _discard_queued_start of runtime r; its worker is forgotten when it was   *)
(* waiting.                                                                  *)
discard_queued_start(r) ==
    IF is_queued(r)
    THEN {[g EXCEPT !.held[r] = NoWorker, !.thread[gate.held[r]] = "gone"] :
            g \in drop(gate, gate.held[r], "cancelled")}
    ELSE {[gate EXCEPT !.held[r] = NoWorker]}

-----------------------------------------------------------------------------
(* The runtime *)

(* OneShotWorkerRuntime.is_running, of a runtime with a live or no worker.   *)
is_running(r) == is_queued(r) \/ (worker[r] # NoWorker /\ isRunning(gate, worker[r]))

(* start_qthread_worker and start_qobject_worker: a worker is made, the one  *)
(* still waiting is dropped, the one running is left to itself.              *)
start_worker(r) ==
    /\ made < MaxWorkers
    /\ made' = made + 1
    /\ owner' = [owner EXCEPT ![made'] = r]
    /\ worker' = [worker EXCEPT ![r] = made']
    /\ \E g \in discard_queued_start(r) :
           gate' = submit([g EXCEPT !.ticket[made'] = "new", !.thread[made'] = "made",
                                    !.held[r] = made'], made')
    /\ old' = old \cap active(gate')

(* cancel of the runtime.                                                    *)
cancel(r) ==
    /\ gate' \in discard_queued_start(r)
    /\ worker' = [worker EXCEPT ![r] = NoWorker]
    /\ old' = old \cap active(gate')
    /\ UNCHANGED <<owner, made>>

(* stop without blocking: a waiting worker is dropped, a running one is      *)
(* asked to stop, which its thread may or may not heed.                      *)
stop(r) ==
    \/ is_queued(r) /\ cancel(r)
    \/ /\ ~ is_queued(r) /\ worker[r] # NoWorker /\ ~ isRunning(gate, worker[r])
       /\ worker' = [worker EXCEPT ![r] = NoWorker]
       /\ UNCHANGED <<gate, old, owner, made>>

(* A page goes with the C++ object of a worker that still waits.             *)
PageDeleted(w) ==
    /\ gate.thread[w] = "made" /\ gate.ticket[w] = "queued"
    /\ gate' = [gate EXCEPT !.thread[w] = "deleted"]
    /\ UNCHANGED <<old, worker, owner, made>>

(* The thread of a worker: it emits its answer, and it ends.  Neither need   *)
(* ever happen.                                                              *)
Emits(w) ==
    /\ gate.thread[w] = "runs"
    /\ gate' = [gate EXCEPT !.thread[w] = "emits"]
    /\ UNCHANGED <<old, worker, owner, made>>

Ends(w) ==
    /\ isRunning(gate, w)
    /\ gate' = [gate EXCEPT !.thread[w] = "ended"]
    /\ UNCHANGED <<old, worker, owner, made>>

(* The two slots of finished: the runtime forgets its worker, if it is still *)
(* this one; the gate gets the slot back.                                    *)
finish_worker(w) ==
    /\ gate.thread[w] = "ended"
    /\ gate' = [gate EXCEPT !.thread[w] = "told"]
    /\ worker' = IF worker[owner[w]] = w THEN [worker EXCEPT ![owner[w]] = NoWorker] ELSE worker
    /\ UNCHANGED <<old, owner, made>>

release_ticket(w) ==
    /\ gate.thread[w] = "told"
    /\ \E g \in drop([gate EXCEPT !.thread[w] = "gone"], w, "released") :
           gate' = [g EXCEPT !.held[owner[w]] = IF g.held[owner[w]] = w THEN NoWorker
                                                ELSE g.held[owner[w]]]
    /\ old' = old \cap active(gate')
    /\ UNCHANGED <<worker, owner, made>>

-----------------------------------------------------------------------------
(* Time *)

Ages(w) ==
    /\ w \in active(gate) \ old
    /\ old' = old \cup {w}
    /\ UNCHANGED <<gate, worker, owner, made>>

TimerDue ==
    /\ gate.timer = "set"
    /\ active(gate) \subseteq old \/ "early" \in Windows
    /\ gate' = [gate EXCEPT !.timer = "due"]
    /\ UNCHANGED <<old, worker, owner, made>>

PumpTimer ==
    /\ gate.timer = "due"
    /\ gate' \in pumped([gate EXCEPT !.timer = "off"])
    /\ old' = old \cap active(gate')
    /\ UNCHANGED <<worker, owner, made>>

-----------------------------------------------------------------------------

(* No more than Limit workers have a slot, whatever stale slots are taken    *)
(* back, restarts and failed starts come between; and what waits is wanted:  *)
(* it is the worker its runtime knows and holds the ticket of.  A runtime    *)
(* never has two workers waiting, and a cancelled or replaced one never      *)
(* starts behind the page's back.                                            *)
GateInOrder ==
    /\ Cardinality(active(gate)) <= Limit
    /\ \A w \in Workers : gate.ticket[w] = "queued" <=> w \in ToSet(gate.queue)
    /\ \A w \in ToSet(gate.queue) : worker[owner[w]] = w /\ gate.held[owner[w]] = w

(* The queue empties, even if no running worker ever ends: whoever waits is  *)
(* started or dropped.                                                       *)
EveryoneStarts == []<>(gate.queue = <<>>)
=============================================================================
