---------------------------- MODULE UpstreamState ----------------------------
(***************************************************************************)
(* telegram_proxy/proxy/upstream_controller.py: which of the external SOCKS *)
(* servers carries the traffic.  UpstreamStateController has no task of its *)
(* own; here each of its methods is an operator from its state to the next. *)
(*                                                                          *)
(* Two things are kept relative, so that neither grows.  Moments are ages,  *)
(* which pass_time moves on together.  An attempt does not carry the        *)
(* generation it was made in but whether that is still the present one.     *)
(***************************************************************************)
EXTENDS Naturals, Sequences, Functions

CONSTANTS Servers, NoServer,
          CONNECT_FAILURE_WINDOW, CONNECT_FAILURE_LIMIT,
          CONNECT_FAILURE_OBSERVATION_WINDOW,
          ZERO_RECV_LIMIT, ZERO_RECV_OBSERVATION_WINDOW,
          RETRY_DELAYS

ASSUME UpstreamStateAssumption ==
    /\ NoServer \notin Servers
    /\ {CONNECT_FAILURE_LIMIT, ZERO_RECV_LIMIT} \subseteq Nat \ {0}
    /\ {CONNECT_FAILURE_WINDOW, ZERO_RECV_OBSERVATION_WINDOW} \subseteq Nat
    /\ CONNECT_FAILURE_OBSERVATION_WINDOW \in 0..CONNECT_FAILURE_WINDOW
    /\ RETRY_DELAYS \in Seq(Nat \ {0}) /\ RETRY_DELAYS # <<>>

Ages == 0..CONNECT_FAILURE_WINDOW
Counts == [Ages -> 0..CONNECT_FAILURE_LIMIT]
NoFailures == [a \in Ages |-> 0]
Rounds == 0..Len(RETRY_DELAYS)
Lists == {list \in Seq(Servers) : \A i, j \in DOMAIN list : list[i] = list[j] => i = j}

(* How many failures to connect there are of each age, the connections that   *)
(* brought no data and the time since the first of them, the penalties in a   *)
(* row, and the rest of the last one.  Each count stops at the number the     *)
(* code compares it with.                                                     *)
Healths == [connect_failures : Counts,
            zero_recv_count : 0..ZERO_RECV_LIMIT,
            zero_recv_started : 0..ZERO_RECV_OBSERVATION_WINDOW,
            failure_round : Rounds, unavailable : Nat]

Healthy == [connect_failures |-> NoFailures, zero_recv_count |-> 0,
            zero_recv_started |-> 0, failure_round |-> 0, unavailable |-> 0]

Controllers == [endpoints : Lists, active : Servers \cup {NoServer},
                probe : Servers \cup {NoServer}, health : [Servers -> Healths]]

lower(m, n) == IF m < n THEN m ELSE n
younger(n) == IF n = 0 THEN 0 ELSE n - 1

selected(u) == IF u.endpoints = <<>> THEN NoServer ELSE u.endpoints[1]

replace_config(list) ==
    [endpoints |-> list, active |-> IF list = <<>> THEN NoServer ELSE list[1],
     probe |-> NoServer, health |-> [e \in Servers |-> Healthy]]

available(u, e) == e # NoServer /\ u.health[e].unavailable = 0

first_available(u, exclude) ==
    LET open == {i \in DOMAIN u.endpoints :
                    u.endpoints[i] # exclude /\ available(u, u.endpoints[i])}
    IN IF open = {} THEN NoServer
       ELSE u.endpoints[CHOOSE i \in open : \A j \in open : i <= j]

(* The server the next connection goes to: the selected one for a trial, the  *)
(* active one, or a trial of the first that may be tried.  None if a trial of *)
(* another connection has to be awaited, or every server is under a penalty.  *)
MutTriesTwice(u) ==   \* mutant: a second trial beside the first
    u.active # NoServer /\ u.active # selected(u) /\ available(u, selected(u))
tries_selected(u) ==
    u.active # NoServer /\ u.active # selected(u) /\ u.probe = NoServer
    /\ available(u, selected(u))

select_attempt(u) ==
    IF tries_selected(u) \/ (u.active = NoServer /\ u.probe = NoServer)
    THEN LET e == IF tries_selected(u) THEN selected(u) ELSE first_available(u, NoServer)
         IN [server |-> e, is_probe |-> TRUE, primary_probe |-> e = selected(u)]
    ELSE [server |-> u.active, is_probe |-> FALSE, primary_probe |-> FALSE]

probing(u, attempt) == IF attempt.is_probe THEN [u EXCEPT !.probe = attempt.server] ELSE u

attempt_is_current(u, attempt) ==
    attempt.current /\ attempt.server = IF attempt.is_probe THEN u.probe ELSE u.active

clear_probe(u) == [u EXCEPT !.probe = NoServer]
switch_active(u, e) == [u EXCEPT !.active = e, !.probe = NoServer]

penalized(h) ==
    LET round == lower(h.failure_round + 1, Len(RETRY_DELAYS))
    IN [Healthy EXCEPT !.failure_round = round, !.unavailable = RETRY_DELAYS[round]]
penalize(u, e) == [u EXCEPT !.health[e] = penalized(@)]

fail_active(u) == switch_active(penalize(u, u.active), first_available(penalize(u, u.active), u.active))

abandon_attempt(u, attempt) ==
    IF attempt.is_probe /\ attempt_is_current(u, attempt) THEN clear_probe(u) ELSE u

(* A verdict against a server: a trial that failed ends with a penalty, the   *)
(* active server is only dropped when h, which counts the failure in, shows   *)
(* enough of them over the time of observation.                               *)
blame(u, attempt, h, enough) ==
    IF ~ attempt_is_current(u, attempt) THEN u
    ELSE CASE attempt.is_probe -> clear_probe(penalize(u, attempt.server))
           [] ~ attempt.is_probe /\ enough -> fail_active(u)
           [] OTHER -> [u EXCEPT !.health[attempt.server] = h]

some_old(failures) ==
    \E a \in Ages : a >= CONNECT_FAILURE_OBSERVATION_WINDOW /\ failures[a] > 0

many(failures) == FoldFunction(+, 0, failures) >= CONNECT_FAILURE_LIMIT

MutCountsOn(u, attempt) ==   \* mutant: a failure too many
    LET h == [u.health[attempt.server] EXCEPT !.connect_failures[0] = @ + 1]
    IN blame(u, attempt, h, many(h.connect_failures) /\ some_old(h.connect_failures))

record_connect_failure(u, attempt) ==
    LET h == [u.health[attempt.server] EXCEPT
                !.connect_failures[0] = lower(@ + 1, CONNECT_FAILURE_LIMIT)]
    IN blame(u, attempt, h, many(h.connect_failures) /\ some_old(h.connect_failures))

record_zero_recv(u, attempt) ==
    LET h == [u.health[attempt.server] EXCEPT !.zero_recv_count = lower(@ + 1, ZERO_RECV_LIMIT)]
    IN blame(u, attempt, h, /\ h.zero_recv_count = ZERO_RECV_LIMIT
                            /\ h.zero_recv_started = ZERO_RECV_OBSERVATION_WINDOW)

MutClearsFirst(u, attempt) ==   \* mutant: a late answer clears the server too
    LET v == [u EXCEPT !.health[attempt.server] = Healthy]
    IN IF ~ attempt_is_current(u, attempt) THEN v
       ELSE IF attempt.is_probe THEN switch_active(v, attempt.server) ELSE v

MutNoReturn(u, attempt) ==   \* mutant: a good trial of the selected server changes nothing
    LET v == [u EXCEPT !.health[attempt.server] = Healthy]
    IN CASE ~ attempt_is_current(u, attempt) -> u
         [] attempt_is_current(u, attempt) /\ attempt.is_probe /\ u.active = NoServer ->
               switch_active(v, attempt.server)
         [] OTHER -> abandon_attempt(v, attempt)

(* Data clears the server, and a trial they answer makes it the active one.   *)
record_recv_ok(u, attempt) ==
    LET v == [u EXCEPT !.health[attempt.server] = Healthy]
    IN IF ~ attempt_is_current(u, attempt) THEN u
       ELSE CASE ~ attempt.is_probe -> v
              [] attempt.is_probe /\ (u.active = NoServer \/ attempt.primary_probe) ->
                    switch_active(v, attempt.server)
              [] OTHER -> clear_probe(v)

(* A unit of time: the failures to connect that leave the window are dropped, *)
(* as the next one would drop them.                                           *)
older(failures) == [a \in Ages |-> IF a = 0 THEN 0 ELSE failures[a - 1]]
aged(h) ==
    [h EXCEPT
        !.connect_failures = older(@),
        !.zero_recv_started = IF h.zero_recv_count = 0 THEN 0
                              ELSE lower(@ + 1, ZERO_RECV_OBSERVATION_WINDOW),
        !.unavailable = younger(@)]
pass_time(u) == [u EXCEPT !.health = [e \in Servers |-> aged(u.health[e])]]
=============================================================================
