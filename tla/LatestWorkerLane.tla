-------------------------- MODULE LatestWorkerLane --------------------------
(***************************************************************************)
(* ui/latest_worker_lane.py on top of the gate: a lane does one thing at a  *)
(* time and, of the requests made meanwhile, the last.  A page that uses    *)
(* its runtime without a lane may start, stop and cancel at any time.       *)
(*                                                                          *)
(* A payload is the number of its request.  Every worker of a lane emits    *)
(* one answer, a result or a failure, before it ends; posted holds those    *)
(* whose answer waits in the GUI queue, before their finished.  The answers *)
(* to pages without a lane are left out.  A runtime's                       *)
(* request_id is that of a worker as long as the runtime holds the worker.  *)
(* Window "gap": a request between the end of a thread and the handling of  *)
(* its finished, while an older request is pending.                         *)
(***************************************************************************)
EXTENDS WorkerGate

CONSTANTS Lanes,        \* the runtimes a LatestWorkerLane owns
          MaxRequests   \* bound: requests made to the lanes; the other pages
                        \* make no more than MaxWorkers - MaxRequests workers

ASSUME LaneAssumption == Lanes \subseteq Runtimes /\ MaxRequests \in 0..MaxWorkers

Requests == 1..MaxRequests
EMPTY == 0

VARIABLES pending, start_scheduled, closed,
          payload,      \* _payloads: the request the lane's last worker works for
          posted,
          requests,
          newest,       \* history: the last request of a lane
          answered      \* the last request whose answer the page was given

laneVars == <<pending, start_scheduled, closed, payload, posted, requests, newest, answered>>
vars == <<gateVars, laneVars>>

TypeOK ==
    /\ GateTypeOK
    /\ pending \in [Lanes -> Requests \cup {EMPTY}]
    /\ start_scheduled \in [Lanes -> BOOLEAN] /\ closed \in [Lanes -> BOOLEAN]
    /\ payload \in [Lanes -> Requests \cup {EMPTY}]
    /\ posted \subseteq Workers
    /\ requests \in 0..MaxRequests
    /\ newest \in [Lanes -> Requests \cup {EMPTY}] /\ answered \in [Lanes -> Requests \cup {EMPTY}]

Init ==
    /\ GateInit
    /\ pending = [l \in Lanes |-> EMPTY]
    /\ start_scheduled = [l \in Lanes |-> FALSE] /\ closed = [l \in Lanes |-> FALSE]
    /\ payload = [l \in Lanes |-> EMPTY]
    /\ posted = {} /\ requests = 0
    /\ newest = [l \in Lanes |-> EMPTY] /\ answered = [l \in Lanes |-> EMPTY]

-----------------------------------------------------------------------------
(* The lane *)

has_pending(l) == pending[l] # EMPTY
MutOnlyScheduled(l) == start_scheduled[l]

is_busy(l) == start_scheduled[l] \/ is_running(l)

start(l, p) == start_worker(l) /\ payload' = [payload EXCEPT ![l] = p]

MutDropsWhenBusy(l) ==
    /\ ~ closed[l] /\ requests < MaxRequests
    /\ requests' = requests + 1
    /\ newest' = [newest EXCEPT ![l] = requests']
    /\ \/ is_busy(l) /\ UNCHANGED <<gateVars, payload>>
       \/ ~ is_busy(l) /\ start(l, requests')
    /\ UNCHANGED <<pending, start_scheduled, closed, posted, answered>>

request(l) ==
    /\ ~ closed[l] /\ requests < MaxRequests
    /\ requests' = requests + 1
    /\ newest' = [newest EXCEPT ![l] = requests']
    /\ \/ /\ is_busy(l)
          /\ pending' = [pending EXCEPT ![l] = requests']
          /\ UNCHANGED <<gateVars, payload>>
       \/ /\ ~ is_busy(l)
          /\ has_pending(l) => "gap" \in Windows
          /\ start(l, requests')
          /\ UNCHANGED pending
    /\ UNCHANGED <<start_scheduled, closed, posted, answered>>

is_fresh(w) == LET l == owner[w]
               IN  worker[l] = w /\ ~ closed[l] /\ ~ has_pending(l)

(* _handle_result and _handle_failed.                                        *)
handle_result(w) ==
    /\ w \in posted
    /\ posted' = posted \ {w}
    /\ answered' = IF is_fresh(w) THEN [answered EXCEPT ![owner[w]] = payload[owner[w]]] ELSE answered
    /\ UNCHANGED <<gateVars, pending, start_scheduled, closed, payload, requests, newest>>

MutForgetsPending(w) ==
    /\ w \notin posted
    /\ finish_worker(w)
    /\ UNCHANGED <<start_scheduled, pending, closed, payload, posted, requests, newest, answered>>

(* _handle_finished follows the end of the lane's own worker.                *)
handle_finished(w) ==
    /\ w \notin posted
    /\ finish_worker(w)
    /\ start_scheduled' =
           [l \in Lanes |-> \/ start_scheduled[l]
                            \/ l = owner[w] /\ worker[l] = w /\ ~ closed[l] /\ has_pending(l)]
    /\ UNCHANGED <<pending, closed, payload, posted, requests, newest, answered>>

(* Clears the pending payload to None and not to _EMPTY. *)
MutClearsToNone(l) ==
    /\ start_scheduled[l]
    /\ start_scheduled' = [start_scheduled EXCEPT ![l] = FALSE]
    /\ pending' = [pending EXCEPT ![l] = MaxRequests + 1]
    /\ IF closed[l] \/ ~ has_pending(l) THEN UNCHANGED <<gateVars, payload>> ELSE start(l, pending[l])
    /\ UNCHANGED <<closed, posted, requests, newest, answered>>

run_pending(l) ==
    /\ start_scheduled[l]
    /\ start_scheduled' = [start_scheduled EXCEPT ![l] = FALSE]
    /\ pending' = [pending EXCEPT ![l] = EMPTY]
    /\ IF closed[l] \/ ~ has_pending(l) THEN UNCHANGED <<gateVars, payload>> ELSE start(l, pending[l])
    /\ UNCHANGED <<closed, posted, requests, newest, answered>>

(* close: the runtime is stopped and cancelled.                              *)
close(l) ==
    /\ ~ closed[l]
    /\ closed' = [closed EXCEPT ![l] = TRUE]
    /\ payload' = [payload EXCEPT ![l] = EMPTY]
    /\ pending' = [pending EXCEPT ![l] = EMPTY]
    /\ start_scheduled' = [start_scheduled EXCEPT ![l] = FALSE]
    /\ cancel(l)
    /\ UNCHANGED <<posted, requests, newest, answered>>

emits(w) ==
    /\ owner[w] \in Lanes /\ Emits(w)
    /\ posted' = posted \cup {w}
    /\ UNCHANGED <<pending, start_scheduled, closed, payload, requests, newest, answered>>

-----------------------------------------------------------------------------

page_workers == {w \in 1..made : owner[w] \notin Lanes}

Pages == \E r \in Runtimes \ Lanes :
             /\ \/ Cardinality(page_workers) < MaxWorkers - MaxRequests /\ start_worker(r)
                \/ cancel(r) \/ stop(r)
             /\ UNCHANGED laneVars
Vanishes == \E w \in Workers : owner[w] \notin Lanes /\ PageDeleted(w) /\ UNCHANGED laneVars

(* What happens in any case: the event loop delivers what is posted to it,   *)
(* its timers fire, and the job of a lane ends (its calls have time limits). *)
Delivered(w) == handle_result(w) \/ handle_finished(w) \/ (release_ticket(w) /\ UNCHANGED laneVars)
Time == (TimerDue \/ PumpTimer \/ \E w \in Workers : Ages(w)) /\ UNCHANGED laneVars
Job(w) == \/ emits(w)
          \/ owner[w] \in Lanes /\ gate.thread[w] = "emits" /\ Ends(w) /\ UNCHANGED laneVars

Program ==
    \/ Time
    \/ \E w \in Workers : Delivered(w) \/ Job(w)
    \/ \E l \in Lanes : run_pending(l)

(* The worker of a page without a lane may end or never end.                 *)
PageJob(w) == owner[w] \notin Lanes /\ Ends(w) /\ UNCHANGED laneVars

Next ==
    \/ Program
    \/ Pages \/ Vanishes
    \/ \E l \in Lanes : request(l) \/ close(l)
    \/ \E w \in Workers : PageJob(w)

Spec == Init /\ [][Next]_vars

(* The program goes on as long as it can, in any order.                      *)
LiveSpec == Spec /\ WF_vars(Program)

-----------------------------------------------------------------------------

(* "One thing at a time": two workers of a lane never run together.          *)
OneAtATime ==
    \A v, w \in Workers : v # w /\ owner[v] = owner[w] /\ owner[v] \in Lanes
                          => ~ (isRunning(gate, v) /\ isRunning(gate, w))

AtRest(l) == /\ ~ has_pending(l) /\ ~ start_scheduled[l] /\ worker[l] = NoWorker
             /\ \A w \in posted : owner[w] # l

(* "The last request wins": what an open lane has come to rest with is the   *)
(* answer to the last request made to it.                                    *)
LastRequestWins == \A l \in Lanes : ~ closed[l] /\ AtRest(l) => answered[l] = newest[l]

(* A lane comes to rest, whatever the workers of the other pages do to the   *)
(* slots: what is pending is started and every answer is given.              *)
LaneSettles == \A l \in Lanes : <>[]AtRest(l)
=============================================================================
