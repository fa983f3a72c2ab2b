------------------------- MODULE UpstreamConnections -------------------------
(***************************************************************************)
(* telegram_proxy/proxy/upstream_runtime.py: the connections of Telegram    *)
(* that go through an external SOCKS server, with the ends of them in       *)
(* session.py and wss_proxy.py.  All run in one event loop; each holds what *)
(* select_attempt told it across its awaits, while the verdicts of the      *)
(* others change the active server.                                         *)
(*                                                                          *)
(* A connection of kind "session" gives its verdict with the first answer,  *)
(* one of kind "raw" (HTTP, or a stream that is not Telegram's) when it is  *)
(* over.  Faults names what a run lets happen: "leave", the client goes     *)
(* before the verdict; "refuse", the server forbids the target; "timeout",  *)
(* the wait for a slot lasts too long.  Windows may hold "same": the user   *)
(* selects the very server that is active as a fallback, while connections  *)
(* through others live.                                                     *)
(***************************************************************************)
EXTENDS UpstreamState, FiniteSets

CONSTANTS Sessions,            \* bound: the connections there are at a time
          Kinds, Faults, Windows,
          Choices,             \* the lists of servers a user may set up
          ConnectLimit, MAX_QUEUED_CONNECTIONS

ASSUME UpstreamConnectionsAssumption ==
    /\ Kinds \subseteq {"session", "raw"}
    /\ Faults \subseteq {"leave", "refuse", "timeout"}
    /\ Windows \subseteq {"same"}
    /\ Choices \subseteq Lists
    /\ {ConnectLimit, MAX_QUEUED_CONNECTIONS} \subseteq Nat \ {0}

VARIABLES
    upstream,   \* the state of the controller
    session,    \* each connection: where it is, and the attempt it holds
    waiting,    \* the connections that wait for a slot, in their order
    answering,  \* external: the servers that let connect and answer
    by_user,    \* history: the last change of the active server was the user's
    reign       \* history: for how long the active one has been active

vars == <<upstream, session, waiting, answering, by_user, reign>>

Rest == [at |-> "none", kind |-> "none", server |-> NoServer, is_probe |-> FALSE,
         primary_probe |-> FALSE, current |-> FALSE, proven |-> FALSE, got |-> FALSE,
         cancelled |-> FALSE]

Records == [at : {"none", "queued", "connect", "opened", "relay", "judged"},
            kind : Kinds \cup {"none"}, server : Servers \cup {NoServer},
            is_probe : BOOLEAN, primary_probe : BOOLEAN, current : BOOLEAN,
            proven : BOOLEAN, got : BOOLEAN, cancelled : BOOLEAN]

at(s) == session[s].at
runs(s) == ~ session[s].cancelled
listed(s) == at(s) \in {"queued", "connect", "opened", "relay"}   \* _tasks
slots_used == {s \in Sessions : at(s) = "connect"}
locked == Cardinality(slots_used) >= ConnectLimit \/ waiting # <<>>

TypeOK ==
    /\ upstream \in Controllers
    /\ session \in [Sessions -> Records]
    /\ waiting \in Seq(Sessions)
    /\ answering \subseteq Servers
    /\ by_user \in BOOLEAN
    /\ reign \in 0..CONNECT_FAILURE_OBSERVATION_WINDOW

Init ==
    /\ \E list \in Choices : upstream = replace_config(list)
    /\ session = [s \in Sessions |-> Rest]
    /\ waiting = <<>>
    /\ answering = Servers
    /\ by_user = TRUE
    /\ reign = 0

MutCutsProven(u, own, cut_proven) ==   \* mutant: an automatic change cuts what carries data
    [t \in Sessions |->
        IF u.active = upstream.active THEN session[t]
        ELSE [session[t] EXCEPT !.current = t \in own,
                                !.cancelled = @ \/ (t \notin own /\ listed(t))]]

MutKeepsProven(u, own, cut_proven) ==   \* mutant: the user's change does not cut it
    [t \in Sessions |->
        IF u.active = upstream.active THEN session[t]
        ELSE [session[t] EXCEPT !.current = t \in own,
                  !.cancelled = @ \/ (t \notin own /\ listed(t) /\ ~ session[t].proven)]]

(* _handle_transition: when the active server changes, the connections of the *)
(* former ones are cancelled, except the one whose verdict changed it: all of *)
(* them if the user changed it, otherwise those that have no data yet.        *)
is_cut(t, own, cut_proven) ==
    t \notin own /\ listed(t)
    /\ (cut_proven \/ (session[t].current /\ ~ session[t].proven))

handled(u, own, cut_proven) ==
    [t \in Sessions |->
        IF u.active = upstream.active THEN session[t]
        ELSE [session[t] EXCEPT !.current = t \in own,
                                !.cancelled = @ \/ is_cut(t, own, cut_proven)]]

(* The verdict of s makes u of the controller; s goes on as the record next.  *)
verdict(s, u, next) ==
    /\ upstream' = u
    /\ session' = [handled(u, {s}, FALSE) EXCEPT ![s] = next]
    /\ by_user' = (by_user /\ u.active = upstream.active)
    /\ reign' = IF u.active = upstream.active THEN reign ELSE 0
    /\ UNCHANGED answering

MutKeepsTrial(s) == verdict(s, upstream, Rest)   \* mutant: the trial is not given back

(* release, and the end of open_connection: an attempt without a verdict      *)
(* gives its trial back.                                                      *)
leaves(s) == verdict(s, abandon_attempt(upstream, session[s]), Rest)

goes(s, next) ==
    /\ session' = [session EXCEPT ![s] = next]
    /\ UNCHANGED <<upstream, answering, by_user, reign>>

(* open_connection up to the handshake.  Without a server, or with the queue  *)
(* full, the session goes on along another route and nothing has changed.     *)
open_connection(s, kind) ==
    LET attempt == select_attempt(upstream) IN
    /\ at(s) = "none"
    /\ attempt.server # NoServer
    /\ locked => Len(waiting) < MAX_QUEUED_CONNECTIONS
    /\ upstream' = probing(upstream, attempt)
    /\ session' = [session EXCEPT ![s] =
           [Rest EXCEPT !.at = IF locked THEN "queued" ELSE "connect", !.kind = kind,
                        !.server = attempt.server, !.is_probe = attempt.is_probe,
                        !.primary_probe = attempt.primary_probe, !.current = TRUE]]
    /\ waiting' = IF locked THEN Append(waiting, s) ELSE waiting
    /\ UNCHANGED <<answering, by_user, reign>>

GetSlot(s) ==
    /\ at(s) = "queued" /\ runs(s) /\ waiting # <<>> /\ s = Head(waiting)
    /\ Cardinality(slots_used) < ConnectLimit
    /\ waiting' = Tail(waiting)
    /\ goes(s, [session[s] EXCEPT !.at = "connect"])

out_of_queue(s) ==
    \E i \in DOMAIN waiting :
        /\ waiting[i] = s
        /\ waiting' = SubSeq(waiting, 1, i - 1) \o SubSeq(waiting, i + 1, Len(waiting))

LoseSlot(s) ==
    /\ "timeout" \in Faults /\ at(s) = "queued" /\ runs(s)
    /\ out_of_queue(s)
    /\ leaves(s)

ConnectFails(s) ==
    /\ at(s) = "connect" /\ runs(s) /\ session[s].server \notin answering
    /\ verdict(s, record_connect_failure(upstream, session[s]), Rest)
    /\ UNCHANGED waiting

ConnectRefused(s) ==
    /\ "refuse" \in Faults /\ at(s) = "connect" /\ runs(s)
    /\ session[s].server \in answering
    /\ leaves(s)
    /\ UNCHANGED waiting

(* A server may let connect and then stay silent.                             *)
Connects(s) ==
    /\ at(s) = "connect" /\ runs(s)
    /\ IF session[s].current THEN goes(s, [session[s] EXCEPT !.at = "opened"])
       ELSE leaves(s)
    /\ UNCHANGED waiting

judging(s) == at(s) = "opened" /\ runs(s) /\ session[s].kind = "session"

relaying(s) == [session[s] EXCEPT !.at = "relay", !.proven = TRUE, !.got = TRUE]
Answered(s) ==
    /\ judging(s) /\ session[s].server \in answering
    /\ verdict(s, record_recv_ok(upstream, session[s]), relaying(s))
    /\ UNCHANGED waiting

Silent(s) ==
    /\ judging(s) /\ session[s].server \notin answering
    /\ verdict(s, record_zero_recv(upstream, session[s]), Rest)
    /\ UNCHANGED waiting

(* _ClientGone: with nothing sent the attempt is given up, otherwise it is    *)
(* watched to the end of its time by a task of its own, which no change of    *)
(* the server cancels.                                                        *)
ClientLeaves(s) ==
    /\ "leave" \in Faults /\ judging(s)
    /\ leaves(s) \/ goes(s, [session[s] EXCEPT !.at = "judged"])
    /\ UNCHANGED waiting

verdict_at_end(s, answered) ==
    verdict(s, IF answered THEN record_recv_ok(upstream, session[s])
               ELSE record_zero_recv(upstream, session[s]), Rest)

JudgeAbandoned(s) ==
    /\ at(s) = "judged"
    /\ verdict_at_end(s, session[s].server \in answering)
    /\ UNCHANGED waiting

RawData(s) ==
    /\ at(s) = "opened" /\ runs(s) /\ session[s].kind = "raw" /\ ~ session[s].got
    /\ session[s].server \in answering
    /\ goes(s, [session[s] EXCEPT !.got = TRUE])
    /\ UNCHANGED waiting

RawEnds(s) ==
    /\ at(s) = "opened" /\ runs(s) /\ session[s].kind = "raw"
    /\ session[s].got \/ session[s].server \notin answering \/ "leave" \in Faults
    /\ verdict_at_end(s, session[s].got)
    /\ UNCHANGED waiting

RelayEnds(s) ==
    /\ at(s) = "relay" /\ runs(s)
    /\ goes(s, Rest)
    /\ UNCHANGED waiting

Cancelled(s) ==
    /\ ~ runs(s)
    /\ IF at(s) = "queued" THEN out_of_queue(s) ELSE UNCHANGED waiting
    /\ IF at(s) = "relay" THEN goes(s, Rest) ELSE leaves(s)

strangers(list) == {s \in Sessions : listed(s) /\ runs(s)
                        /\ (list = <<>> \/ session[s].server # list[1])}
apply_config(list) ==
    LET u == replace_config(list) IN
    /\ "same" \in Windows \/ u.active # upstream.active \/ strangers(list) = {}
    /\ upstream' = u
    /\ session' = handled(u, {}, TRUE)
    /\ by_user' = TRUE
    /\ reign' = 0
    /\ UNCHANGED <<waiting, answering>>

Tick ==
    /\ upstream' = pass_time(upstream)
    /\ reign' = lower(reign + 1, CONNECT_FAILURE_OBSERVATION_WINDOW)
    /\ UNCHANGED <<session, waiting, answering, by_user>>

ServerChanges(e) ==
    /\ answering' = IF e \in answering THEN answering \ {e} ELSE answering \cup {e}
    /\ UNCHANGED <<upstream, session, waiting, by_user, reign>>

Begin(s) == \E kind \in Kinds : open_connection(s, kind)

(* The steps of a connection that do not wait for a client to end it.         *)
Proceeds(s) ==
    \/ GetSlot(s) \/ ConnectFails(s) \/ Connects(s) \/ Cancelled(s)
    \/ Answered(s) \/ Silent(s) \/ JudgeAbandoned(s) \/ RawData(s)

(* A connection that ends before the server is judged by it.                  *)
BreaksOff(s) == LoseSlot(s) \/ ConnectRefused(s) \/ ClientLeaves(s)

Ends(s) == RawEnds(s) \/ RelayEnds(s)

Next ==
    \/ \E s \in Sessions : Begin(s) \/ Proceeds(s) \/ Ends(s)
    \/ \E s \in Sessions : BreaksOff(s)
    \/ \E list \in Choices : apply_config(list)
    \/ \E e \in Servers : ServerChanges(e)
    \/ Tick

Spec == Init /\ [][Next]_vars

(* The event loop runs every task that may go on, time passes, Telegram keeps *)
(* opening connections, and each of them ends at some time.                   *)
LiveSpec ==
    /\ Spec
    /\ \A s \in Sessions : WF_vars(Proceeds(s) \/ Ends(s))
    /\ WF_vars(\E s \in Sessions : Begin(s))
    /\ WF_vars(Tick)

-----------------------------------------------------------------------------

unjudged(s) == at(s) \in {"queued", "connect", "opened", "judged"}
on_trial(s) == unjudged(s) /\ session[s].is_probe
               /\ attempt_is_current(upstream, session[s])

(* While the controller waits for the outcome of a trial (_probe_key), there  *)
(* is one connection, and only one, that will report it: a trial nobody       *)
(* reports would keep every further one from starting, and two would judge    *)
(* the server twice.                                                          *)
ProbeIsHeld ==
    upstream.probe # NoServer =>
        \E s \in Sessions : on_trial(s) /\ \A t \in Sessions : on_trial(t) => t = s

justified(u) ==
    \A i \in DOMAIN u.endpoints :
        (\A j \in 1..i : u.endpoints[j] # u.active) =>
            u.health[u.endpoints[i]].failure_round > 0

(* A server serves only while every server the user put before it has failed  *)
(* and has not answered since, and none serves only while that holds of all:  *)
(* a verdict that comes after a change of the server clears nobody.           *)
FallbackJustified == justified(upstream)

(* No connection lives on through a server that was given up, unless data     *)
(* came through it and the change was automatic (upstream_runtime.py:79).     *)
NoneLeftBehind ==
    \A s \in Sessions : listed(s) /\ runs(s) =>
        \/ session[s].server \in {upstream.active, upstream.probe}
        \/ session[s].proven /\ ~ by_user

(* A connection through which data came is cut only by the user's choice of   *)
(* another server (upstream_runtime.py:79).                                   *)
AutomaticKeepsData ==
    [][\A s \in Sessions : session[s].got /\ runs(s) /\ session'[s].cancelled => by_user']_vars

(* An active server is dropped only after a time of observation in which it   *)
(* was the active one (upstream_controller.py:14).                            *)
ObservedBeforeDropped ==
    [][upstream.active # NoServer /\ upstream'.active # upstream.active
       /\ upstream'.health[upstream.active].unavailable > 0
          => reign = CONNECT_FAILURE_OBSERVATION_WINDOW]_vars

(* A trial ends: the server is judged, or the trial is given back.            *)
ProbeEnds == upstream.probe # NoServer ~> upstream.probe = NoServer

(* The selected server, once it answers for good and connections are no longer *)
(* broken off before its verdict, is used again.                              *)
PrimaryReturns ==
    /\ <>[](selected(upstream) \in answering)
    /\ <>[][~ \E s \in Sessions : BreaksOff(s)]_vars
    => []<>(upstream.active = selected(upstream))
=============================================================================
