--------------------------- MODULE UpstreamProofs ---------------------------
(* That a trial is always held by one connection, that a fallback serves only *)
(* while every server before it has failed, and that no connection is left on *)
(* a server that was given up, for any servers, lists, limits, delays and     *)
(* number of connections.  A first part shows what the controller makes of a  *)
(* verdict; a second one follows the connections, of which all but one stand  *)
(* still in every step.                                                       *)
EXTENDS UpstreamConnections, SequenceTheorems, WellFoundedInduction, TLAPS

-----------------------------------------------------------------------------
(* The state of the controller *)

\* A server under a penalty has failed.
Penalties(u) == \A e \in Servers :
    u.health[e].unavailable > 0 => u.health[e].failure_round > 0

\* There is a trial only of the selected server, or while none is active.
TrialNeeded(u) == u.probe # NoServer =>
    /\ u.probe # u.active /\ u.active # selected(u)
    /\ u.active # NoServer => u.probe = selected(u)

Control(u) == u \in Controllers /\ justified(u) /\ Penalties(u) /\ TrialNeeded(u)

\* What select_attempt said of a trial still holds while the trial is current.
Informed(u, attempt) ==
    /\ attempt.server \in Servers
    /\ attempt.is_probe \in BOOLEAN /\ attempt.current \in BOOLEAN
    /\ attempt_is_current(u, attempt) /\ attempt.is_probe =>
          (attempt.primary_probe <=> attempt.server = selected(u))

current_trial(u, attempt) == attempt_is_current(u, attempt) /\ attempt.is_probe

\* All that is needed of what a verdict makes of the controller.
Outcome(u, v, attempt) ==
    /\ Control(v)
    /\ v.endpoints = u.endpoints
    /\ current_trial(u, attempt) => v.probe = NoServer
    /\ v.active = u.active /\ ~ current_trial(u, attempt) => v.probe = u.probe
    /\ v.active # u.active => v.probe = NoServer /\ attempt_is_current(u, attempt)

LEMMA HealthyType == Healthy \in Healths
  <1>1. NoFailures \in Counts
    BY UpstreamStateAssumption DEF NoFailures, Counts
  <1>2. 0 \in 0..ZERO_RECV_LIMIT /\ 0 \in 0..ZERO_RECV_OBSERVATION_WINDOW
    BY UpstreamStateAssumption
  <1>3. 0 \in Rounds
    BY UpstreamStateAssumption, LenProperties DEF Rounds
  <1> QED
    BY <1>1, <1>2, <1>3 DEF Healthy, Healths

LEMMA PenalizedType ==
    ASSUME NEW h \in Healths
    PROVE  penalized(h) \in Healths /\ penalized(h).failure_round > 0
  <1> DEFINE round == lower(h.failure_round + 1, Len(RETRY_DELAYS))
  <1>1. Len(RETRY_DELAYS) \in Nat \ {0}
    BY UpstreamStateAssumption, EmptySeq, LenProperties
  <1>2. round \in 1..Len(RETRY_DELAYS) /\ round \in Rounds /\ round > 0
    BY <1>1 DEF Healths, Rounds, lower
  <1>3. RETRY_DELAYS[round] \in Nat
    BY <1>2, ElementOfSeq, UpstreamStateAssumption
  <1>4. penalized(h) = [Healthy EXCEPT !.failure_round = round, !.unavailable = RETRY_DELAYS[round]]
    BY DEF penalized
  <1> HIDE DEF round
  <1> QED
    BY <1>2, <1>3, <1>4, HealthyType DEF Healths

LEMMA AgedType ==
    ASSUME NEW h \in Healths
    PROVE  /\ aged(h) \in Healths
           /\ aged(h).failure_round = h.failure_round
           /\ aged(h).unavailable > 0 => h.unavailable > 0
  <1>1. ASSUME NEW f \in Counts PROVE older(f) \in Counts
    BY UpstreamStateAssumption DEF Counts, Ages, older
  <1> DEFINE started == IF h.zero_recv_count = 0 THEN 0
                        ELSE lower(h.zero_recv_started + 1, ZERO_RECV_OBSERVATION_WINDOW)
  <1>2. started \in 0..ZERO_RECV_OBSERVATION_WINDOW
    BY UpstreamStateAssumption DEF Healths, lower
  <1>3. younger(h.unavailable) \in Nat /\ (younger(h.unavailable) > 0 => h.unavailable > 0)
    BY DEF Healths, younger
  <1>4. older(h.connect_failures) \in Counts
    BY <1>1 DEF Healths
  <1>5. aged(h) = [h EXCEPT !.connect_failures = older(h.connect_failures),
                            !.zero_recv_started = started,
                            !.unavailable = younger(h.unavailable)]
    BY DEF aged, Healths
  <1> HIDE DEF started
  <1> QED
    BY <1>2, <1>3, <1>4, <1>5 DEF Healths

LEMMA Smallest ==
    ASSUME NEW T \in SUBSET Nat, T # {}
    PROVE  \E k \in T : \A j \in T : k <= j
  <1>1. PICK k \in T : \A j \in T : ~ (<<j, k>> \in OpToRel(<, Nat))
    BY WFMin, NatLessThanWellFounded
  <1>2. ASSUME NEW j \in T, j < k PROVE FALSE
    <2>1. <<j, k>> \in Nat \X Nat /\ <<j, k>>[1] < <<j, k>>[2]
      BY <1>2
    <2>2. <<j, k>> \in OpToRel(<, Nat)
      BY <2>1, Zenon DEF OpToRel
    <2> QED
      BY <1>1, <2>2
  <1> QED
    BY <1>2

\* The first server that may be tried has only penalized ones before it.
LEMMA FirstAvailable ==
    ASSUME NEW u \in Controllers, NEW x, NEW e, e = first_available(u, x)
    PROVE  /\ e \in Servers \cup {NoServer}
           /\ e # NoServer => e # x /\ \E i \in DOMAIN u.endpoints : u.endpoints[i] = e
           /\ \A i \in DOMAIN u.endpoints : (\A j \in 1..i : u.endpoints[j] # e) =>
                 u.endpoints[i] = x \/ u.health[u.endpoints[i]].unavailable > 0
  <1> DEFINE open == {i \in DOMAIN u.endpoints :
                         u.endpoints[i] # x /\ available(u, u.endpoints[i])}
  <1>1. /\ u.endpoints \in Seq(Servers) /\ DOMAIN u.endpoints = 1..Len(u.endpoints)
        /\ Len(u.endpoints) \in Nat
        /\ \A i \in DOMAIN u.endpoints : u.endpoints[i] \in Servers
    BY LenProperties, ElementOfSeq DEF Controllers, Lists
  <1>2. \A i \in DOMAIN u.endpoints : u.health[u.endpoints[i]].unavailable \in Nat
    BY <1>1 DEF Controllers, Healths
  <1>3. CASE open = {}
    BY <1>1, <1>2, <1>3, UpstreamStateAssumption DEF first_available, available
  <1>4. CASE open # {}
    <2>1. open \subseteq Nat
      BY <1>1
    <2>2. \E k \in open : \A j \in open : k <= j
      BY <2>1, <1>4, Smallest
    <2>3. PICK k \in open : e = u.endpoints[k] /\ \A j \in open : k <= j
      BY <2>2, <1>4 DEF first_available
    <2>4. ASSUME NEW i \in DOMAIN u.endpoints, \A j \in 1..i : u.endpoints[j] # e
          PROVE  u.endpoints[i] = x \/ u.health[u.endpoints[i]].unavailable > 0
      <3>1. i \notin open
        BY <2>3, <2>4, <2>1, <1>1
      <3> QED
        BY <3>1, <1>1, <1>2, UpstreamStateAssumption DEF available
    <2> QED
      BY <2>3, <2>4, <1>1
  <1> QED
    BY <1>3, <1>4

-----------------------------------------------------------------------------
(* The operations of the controller *)

\* The health of one server, and nothing else, is replaced.
Replaced(u, v, e, h) ==
    /\ v \in Controllers
    /\ v.endpoints = u.endpoints /\ v.active = u.active /\ v.probe = u.probe
    /\ v.health[e] = h
    /\ \A f \in Servers : f # e => v.health[f] = u.health[f]

LEMMA Replacing ==
    ASSUME NEW u \in Controllers, NEW e \in Servers, NEW h \in Healths
    PROVE  Replaced(u, [u EXCEPT !.health[e] = h], e, h)
  <1> DEFINE g == [u.health EXCEPT ![e] = h]
  <1>1. [u EXCEPT !.health[e] = h] = [u EXCEPT !.health = g]
    BY DEF Controllers
  <1>2. /\ u.health \in [Servers -> Healths]
        /\ g \in [Servers -> Healths] /\ g[e] = h
        /\ \A f \in Servers : f # e => g[f] = u.health[f]
    BY DEF Controllers
  <1> HIDE DEF g
  <1> QED
    BY <1>1, <1>2 DEF Controllers, Replaced

LEMMA Penalizing ==
    ASSUME NEW u \in Controllers, NEW e \in Servers
    PROVE  /\ Replaced(u, penalize(u, e), e, penalized(u.health[e]))
           /\ penalized(u.health[e]).failure_round > 0
  <1>1. u.health[e] \in Healths
    BY DEF Controllers
  <1>2. penalize(u, e) = [u EXCEPT !.health[e] = penalized(u.health[e])]
    BY DEF penalize, Controllers
  <1> QED
    BY <1>1, <1>2, PenalizedType, Replacing

LEMMA Switching ==
    ASSUME NEW u \in Controllers, NEW e \in Servers \cup {NoServer}
    PROVE  /\ switch_active(u, e) \in Controllers
           /\ switch_active(u, e).endpoints = u.endpoints
           /\ switch_active(u, e).health = u.health
           /\ switch_active(u, e).active = e
           /\ switch_active(u, e).probe = NoServer
           /\ clear_probe(u) \in Controllers
           /\ clear_probe(u).endpoints = u.endpoints
           /\ clear_probe(u).health = u.health
           /\ clear_probe(u).active = u.active
           /\ clear_probe(u).probe = NoServer
  BY DEF switch_active, clear_probe, Controllers

\* The rounds decide who is justified: what does not lower one harms nobody.
LEMMA StillJustified ==
    ASSUME NEW u \in Controllers, NEW v \in Controllers, justified(u),
           v.endpoints = u.endpoints, v.active = u.active,
           \A f \in Servers : f # u.active /\ u.health[f].failure_round > 0
                                 => v.health[f].failure_round > 0
    PROVE  justified(v)
  <1>1. \A i \in DOMAIN u.endpoints : u.endpoints[i] \in Servers /\ i \in 1..i
    BY LenProperties, ElementOfSeq DEF Controllers, Lists
  <1> QED
    BY <1>1 DEF justified

LEMMA Abandoned ==
    ASSUME NEW u, NEW attempt, Control(u), Informed(u, attempt)
    PROVE  Outcome(u, abandon_attempt(u, attempt), attempt)
  <1>1. CASE current_trial(u, attempt)
    <2>1. abandon_attempt(u, attempt) = clear_probe(u)
      BY <1>1 DEF abandon_attempt, current_trial
    <2>2. justified(clear_probe(u))
      BY Switching, StillJustified DEF Control
    <2> QED
      BY <1>1, <2>1, <2>2, Switching DEF Outcome, Control, Penalties, TrialNeeded
  <1>2. CASE ~ current_trial(u, attempt)
    BY <1>2 DEF abandon_attempt, current_trial, Outcome
  <1> QED
    BY <1>1, <1>2

LEMMA Failed ==
    ASSUME NEW u, Control(u), u.active \in Servers
    PROVE  LET v == fail_active(u) IN
           Control(v) /\ v.endpoints = u.endpoints /\ v.active # u.active /\ v.probe = NoServer
  <1> DEFINE w == penalize(u, u.active)
             e == first_available(w, u.active)
             v == fail_active(u)
  <1>1. /\ Replaced(u, w, u.active, penalized(u.health[u.active]))
        /\ w.health[u.active].failure_round > 0
        /\ w \in Controllers /\ w.endpoints = u.endpoints
    BY Penalizing DEF Control, Replaced
  <1>2. Penalties(w)
    BY <1>1 DEF Control, Penalties, Replaced
  <1>3. /\ e \in Servers \cup {NoServer} /\ e # u.active
        /\ \A i \in DOMAIN w.endpoints : (\A j \in 1..i : w.endpoints[j] # e) =>
              w.endpoints[i] = u.active \/ w.health[w.endpoints[i]].unavailable > 0
    <2>1. e = first_available(w, u.active)
      OBVIOUS
    <2> HIDE DEF e, w
    <2> QED
      BY <1>1, <2>1, FirstAvailable, UpstreamStateAssumption
  <1>4. v = switch_active(w, e)
    BY DEF fail_active
  <1> HIDE DEF w, e, v
  <1>5. \A i \in DOMAIN w.endpoints : w.endpoints[i] \in Servers
    BY <1>1, LenProperties, ElementOfSeq DEF Controllers, Lists
  <1>6. /\ v \in Controllers /\ v.endpoints = w.endpoints /\ v.health = w.health
        /\ v.active = e /\ v.probe = NoServer
    BY <1>1, <1>3, <1>4, Switching
  <1>7. justified(v)
    BY <1>1, <1>2, <1>3, <1>5, <1>6 DEF justified, Penalties
  <1>8. Penalties(v) /\ TrialNeeded(v)
    BY <1>2, <1>6 DEF Penalties, TrialNeeded
  <1> QED
    BY <1>1, <1>3, <1>6, <1>7, <1>8 DEF Control, v

\* The outcome of a verdict against a server; h counts the failure in.
LEMMA Blamed ==
    ASSUME NEW u, NEW attempt, NEW h \in Healths, NEW enough \in BOOLEAN,
           Control(u), Informed(u, attempt),
           h.failure_round = u.health[attempt.server].failure_round,
           h.unavailable = u.health[attempt.server].unavailable
    PROVE  Outcome(u, blame(u, attempt, h, enough), attempt)
  <1> DEFINE v == blame(u, attempt, h, enough)
  <1>1. CASE ~ attempt_is_current(u, attempt)
    BY <1>1 DEF blame, Outcome, current_trial
  <1>2. CASE attempt_is_current(u, attempt) /\ attempt.is_probe
    <2> DEFINE w == penalize(u, attempt.server)
    <2>1. v = clear_probe(w)
      BY <1>2 DEF blame
    <2>2. /\ Replaced(u, w, attempt.server, penalized(u.health[attempt.server]))
          /\ w.health[attempt.server].failure_round > 0
      BY Penalizing DEF Control, Informed, Replaced
    <2> HIDE DEF w, v
    <2>3. /\ v \in Controllers /\ v.endpoints = u.endpoints /\ v.active = u.active
          /\ v.probe = NoServer /\ v.health = w.health
      BY <2>1, <2>2, Switching DEF Replaced
    <2>4. justified(v)
      BY <2>2, <2>3, StillJustified DEF Control, Replaced
    <2>5. Penalties(v) /\ TrialNeeded(v)
      BY <2>2, <2>3 DEF Control, Penalties, TrialNeeded, Replaced
    <2>6. Outcome(u, v, attempt)
      BY <1>2, <2>3, <2>4, <2>5 DEF Outcome, Control, current_trial
    <2> QED
      BY <2>6 DEF v
  <1>3. CASE attempt_is_current(u, attempt) /\ ~ attempt.is_probe /\ enough
    <2>1. v = fail_active(u) /\ u.active \in Servers
      BY <1>3 DEF blame, Informed, attempt_is_current
    <2> QED
      BY <1>3, <2>1, Failed DEF Outcome, current_trial
  <1>4. CASE attempt_is_current(u, attempt) /\ ~ attempt.is_probe /\ ~ enough
    <2>1. v = [u EXCEPT !.health[attempt.server] = h]
      BY <1>4 DEF blame
    <2>2. Replaced(u, v, attempt.server, h)
      BY <2>1, Replacing DEF Control, Informed
    <2> HIDE DEF v
    <2>3. justified(v)
      BY <2>2, StillJustified DEF Control, Replaced
    <2>4. Penalties(v) /\ TrialNeeded(v)
      BY <2>2 DEF Control, Penalties, TrialNeeded, Replaced, selected
    <2> QED
      BY <1>4, <2>2, <2>3, <2>4 DEF Outcome, Control, Replaced, current_trial, v
  <1> QED
    BY <1>1, <1>2, <1>3, <1>4

LEMMA LowerType ==
    ASSUME NEW m \in Nat, NEW n \in Nat
    PROVE  lower(m, n) \in 0..n
  BY DEF lower

LEMMA ConnectFailure ==
    ASSUME NEW u, NEW attempt, Control(u), Informed(u, attempt)
    PROVE  Outcome(u, record_connect_failure(u, attempt), attempt)
  <1> DEFINE g == u.health[attempt.server]
             c == lower(g.connect_failures[0] + 1, CONNECT_FAILURE_LIMIT)
             f == [g.connect_failures EXCEPT ![0] = c]
             h == [g EXCEPT !.connect_failures = f]
  <1>1. g \in Healths
    BY DEF Control, Controllers, Informed
  <1>2. f \in Counts
    <2>1. g.connect_failures \in Counts
      BY <1>1 DEF Healths
    <2>2. 0 \in Ages
      BY UpstreamStateAssumption DEF Ages
    <2>3. CONNECT_FAILURE_LIMIT \in Nat /\ g.connect_failures[0] \in 0..CONNECT_FAILURE_LIMIT
      <3>1. CONNECT_FAILURE_LIMIT \in Nat
        BY UpstreamStateAssumption
      <3> HIDE DEF g
      <3>2. g.connect_failures[0] \in 0..CONNECT_FAILURE_LIMIT
        BY <2>1, <2>2 DEF Counts
      <3> QED
        BY <3>1, <3>2
    <2>4. c \in 0..CONNECT_FAILURE_LIMIT
      <3> HIDE DEF g
      <3>1. g.connect_failures[0] + 1 \in Nat
        BY <2>3
      <3> QED
        BY <2>3, <3>1, LowerType
    <2> HIDE DEF c
    <2> QED
      BY <2>1, <2>4 DEF Counts
  <1>3. record_connect_failure(u, attempt)
          = blame(u, attempt, h, many(h.connect_failures) /\ some_old(h.connect_failures))
    BY <1>1 DEF record_connect_failure, Healths
  <1> HIDE DEF f, g
  <1>4. h \in Healths /\ h.failure_round = g.failure_round /\ h.unavailable = g.unavailable
    BY <1>1, <1>2 DEF Healths
  <1> HIDE DEF h
  <1>5. (many(h.connect_failures) /\ some_old(h.connect_failures)) \in BOOLEAN
    BY DEF many, some_old
  <1> QED
    BY <1>3, <1>4, <1>5, Blamed DEF g

LEMMA ZeroRecv ==
    ASSUME NEW u, NEW attempt, Control(u), Informed(u, attempt)
    PROVE  Outcome(u, record_zero_recv(u, attempt), attempt)
  <1> DEFINE g == u.health[attempt.server]
             c == lower(g.zero_recv_count + 1, ZERO_RECV_LIMIT)
             h == [g EXCEPT !.zero_recv_count = c]
             enough == /\ h.zero_recv_count = ZERO_RECV_LIMIT
                       /\ h.zero_recv_started = ZERO_RECV_OBSERVATION_WINDOW
  <1>1. g \in Healths
    BY DEF Control, Controllers, Informed
  <1>2. c \in 0..ZERO_RECV_LIMIT
    <2>1. g.zero_recv_count + 1 \in Nat /\ ZERO_RECV_LIMIT \in Nat
      BY <1>1, UpstreamStateAssumption DEF Healths
    <2> QED
      BY <2>1, LowerType
  <1>3. record_zero_recv(u, attempt) = blame(u, attempt, h, enough)
    BY <1>1 DEF record_zero_recv, Healths
  <1> HIDE DEF g, c
  <1>4. h \in Healths /\ h.failure_round = g.failure_round /\ h.unavailable = g.unavailable
    BY <1>1, <1>2 DEF Healths
  <1>5. enough \in BOOLEAN
    OBVIOUS
  <1> HIDE DEF h, enough
  <1> QED
    BY <1>3, <1>4, <1>5, Blamed DEF g

\* An answer clears its own server only, which is the active one or becomes it.
LEMMA RecvOk ==
    ASSUME NEW u, NEW attempt, Control(u), Informed(u, attempt)
    PROVE  /\ Outcome(u, record_recv_ok(u, attempt), attempt)
           /\ attempt_is_current(u, attempt) =>
                record_recv_ok(u, attempt).active = attempt.server
  <1> DEFINE w == [u EXCEPT !.health[attempt.server] = Healthy]
             v == record_recv_ok(u, attempt)
  <1>1. CASE ~ attempt_is_current(u, attempt)
    BY <1>1 DEF record_recv_ok, Outcome, current_trial
  <1>2. Replaced(u, w, attempt.server, Healthy)
    BY Replacing, HealthyType DEF Control, Informed
  <1>3. Penalties(w)
    BY <1>2 DEF Control, Penalties, Replaced, Healthy
  <1>4. CASE attempt_is_current(u, attempt) /\ ~ attempt.is_probe
    <2>1. v = w
      BY <1>4 DEF record_recv_ok
    <2> HIDE DEF w, v
    <2>2. attempt.server = u.active
      BY <1>4 DEF attempt_is_current
    <2>3. justified(w)
      BY <1>2, <2>2, StillJustified DEF Control, Replaced
    <2>4. TrialNeeded(w)
      BY <1>2 DEF Control, TrialNeeded, Replaced, selected
    <2>5. Outcome(u, w, attempt) /\ w.active = attempt.server
      BY <1>2, <1>3, <1>4, <2>2, <2>3, <2>4 DEF Outcome, Control, Replaced, current_trial
    <2> QED
      BY <2>1, <2>5 DEF v
  <1>5. CASE attempt_is_current(u, attempt) /\ attempt.is_probe
    <2>1. /\ u.probe = attempt.server /\ attempt.server \in Servers
          /\ attempt.primary_probe <=> attempt.server = selected(u)
      BY <1>5 DEF attempt_is_current, Informed
    <2>2. u.active = NoServer \/ attempt.primary_probe
      BY <2>1, UpstreamStateAssumption DEF Control, TrialNeeded
    <2>3. v = switch_active(w, attempt.server)
      BY <1>5, <2>2 DEF record_recv_ok
    <2> HIDE DEF w, v
    <2>4. attempt.server # u.active
      BY <2>1, UpstreamStateAssumption DEF Control, TrialNeeded
    <2>5. w \in Controllers /\ w.endpoints = u.endpoints
      BY <1>2 DEF Replaced
    <2>6. /\ v \in Controllers /\ v.endpoints = u.endpoints /\ v.health = w.health
          /\ v.active = attempt.server /\ v.probe = NoServer /\ v.active # u.active
      BY <2>1, <2>3, <2>4, <2>5, Switching
    <2>7. justified(v)
      <3> SUFFICES ASSUME NEW i \in DOMAIN u.endpoints,
                          \A j \in 1..i : u.endpoints[j] # attempt.server
                   PROVE  w.health[u.endpoints[i]].failure_round > 0
        BY <2>6 DEF justified
      <3>1. \A j \in 1..i : u.endpoints[j] \in Servers
        BY LenProperties, ElementOfSeq DEF Control, Controllers, Lists
      <3>2. i \in 1..i /\ 1 \in 1..i /\ u.endpoints # <<>>
        BY LenProperties, EmptySeq DEF Control, Controllers, Lists
      <3>3. attempt.server # selected(u)
        BY <3>2 DEF selected
      <3>4. u.active = NoServer
        BY <2>1, <2>2, <3>3
      <3>5. u.health[u.endpoints[i]].failure_round > 0
        BY <3>1, <3>4, UpstreamStateAssumption DEF Control, justified
      <3> QED
        BY <1>2, <3>1, <3>2, <3>5 DEF Replaced
    <2>8. Penalties(v) /\ TrialNeeded(v)
      BY <1>3, <2>6 DEF Penalties, TrialNeeded
    <2>9. Outcome(u, v, attempt) /\ v.active = attempt.server
      BY <1>5, <2>6, <2>7, <2>8 DEF Outcome, Control
    <2> QED
      BY <2>9 DEF v
  <1> QED
    BY <1>1, <1>4, <1>5

\* The user's choice.
LEMMA ReplacedConfig ==
    ASSUME NEW list \in Lists
    PROVE  LET u == replace_config(list) IN
           /\ Control(u) /\ u.probe = NoServer /\ u.active = selected(u)
           /\ u.active = IF list = <<>> THEN NoServer ELSE list[1]
  <1> DEFINE u == replace_config(list)
  <1>1. /\ list \in Seq(Servers) /\ Len(list) \in Nat /\ DOMAIN list = 1..Len(list)
        /\ list # <<>> => list[1] \in Servers
    BY LenProperties, ElementOfSeq, EmptySeq DEF Lists
  <1>2. u \in Controllers
    BY <1>1, HealthyType DEF replace_config, Controllers
  <1>3. justified(u)
    BY <1>1 DEF replace_config, justified
  <1>4. Penalties(u) /\ TrialNeeded(u)
    BY DEF replace_config, Penalties, TrialNeeded, Healthy
  <1> QED
    BY <1>2, <1>3, <1>4 DEF Control, replace_config, selected

LEMMA TimePassed ==
    ASSUME NEW u, Control(u)
    PROVE  /\ Control(pass_time(u))
           /\ pass_time(u).endpoints = u.endpoints
           /\ pass_time(u).active = u.active /\ pass_time(u).probe = u.probe
  <1> DEFINE g == [e \in Servers |-> aged(u.health[e])]
             v == pass_time(u)
  <1>1. /\ g \in [Servers -> Healths]
        /\ \A e \in Servers : /\ g[e].failure_round = u.health[e].failure_round
                              /\ g[e].unavailable > 0 => u.health[e].unavailable > 0
    BY AgedType DEF Control, Controllers
  <1>2. v = [u EXCEPT !.health = g]
    BY DEF pass_time
  <1> HIDE DEF g, v
  <1>3. /\ v \in Controllers /\ v.endpoints = u.endpoints /\ v.active = u.active
        /\ v.probe = u.probe /\ v.health = g
    BY <1>1, <1>2 DEF Control, Controllers
  <1>4. justified(v)
    BY <1>1, <1>3, StillJustified DEF Control
  <1>5. Penalties(v) /\ TrialNeeded(v)
    BY <1>1, <1>3 DEF Control, Penalties, TrialNeeded, selected
  <1>6. Control(v)
    BY <1>3, <1>4, <1>5 DEF Control
  <1> QED
    BY <1>3, <1>6 DEF v

\* What the next connection is told.
LEMMA Selected ==
    ASSUME NEW u, Control(u), select_attempt(u).server # NoServer
    PROVE  LET a == select_attempt(u)
               v == probing(u, a)
           IN /\ Control(v)
              /\ v.endpoints = u.endpoints /\ v.active = u.active
              /\ a.server \in Servers /\ a.is_probe \in BOOLEAN /\ a.primary_probe \in BOOLEAN
              /\ a.is_probe => /\ u.probe = NoServer /\ u.active # selected(u)
                               /\ v.probe = a.server
                               /\ a.primary_probe <=> a.server = selected(v)
              /\ ~ a.is_probe => v = u /\ a.server = u.active
  <1> DEFINE a == select_attempt(u)
             v == probing(u, a)
             e == IF tries_selected(u) THEN selected(u) ELSE first_available(u, NoServer)
  <1>0. u \in Controllers /\ u.active \in Servers \cup {NoServer}
    BY DEF Control, Controllers
  <1>1. CASE tries_selected(u) \/ (u.active = NoServer /\ u.probe = NoServer)
    <2>1. a = [server |-> e, is_probe |-> TRUE, primary_probe |-> e = selected(u)]
      BY <1>1 DEF select_attempt
    <2>2. e # NoServer /\ u.probe = NoServer
      BY <1>1, <2>1 DEF tries_selected
    <2>3. /\ e \in Servers /\ u.endpoints # <<>> /\ selected(u) \in Servers
      <3>1. e = selected(u) \/ \E i \in DOMAIN u.endpoints : u.endpoints[i] = e
        BY <1>0, <2>2, FirstAvailable
      <3>2. e = selected(u) => u.endpoints # <<>>
        BY <2>2 DEF selected
      <3>3. u.endpoints # <<>>
        BY <3>1, <3>2, EmptySeq, LenProperties
      <3>4. selected(u) \in Servers
        BY <1>0, <3>3, EmptySeq, LenProperties, ElementOfSeq DEF selected, Controllers, Lists
      <3> QED
        BY <1>0, <3>1, <3>3, <3>4, LenProperties, ElementOfSeq DEF Controllers, Lists
    <2>4. /\ u.active # selected(u) /\ e # u.active
          /\ u.active # NoServer => e = selected(u)
      BY <1>1, <2>3, UpstreamStateAssumption DEF tries_selected
    <2>5. v = [u EXCEPT !.probe = e]
      BY <2>1 DEF probing
    <2> HIDE DEF e, v, a
    <2>6. /\ v \in Controllers /\ v.endpoints = u.endpoints /\ v.active = u.active
          /\ v.probe = e /\ v.health = u.health /\ selected(v) = selected(u)
      BY <1>0, <2>3, <2>5 DEF Controllers, selected
    <2>7. Control(v)
      BY <2>4, <2>6, StillJustified DEF Control, Penalties, TrialNeeded
    <2>8. a.server = e /\ a.is_probe = TRUE /\ a.primary_probe = (e = selected(u))
      BY <2>1
    <2>9. /\ Control(v) /\ v.endpoints = u.endpoints /\ v.active = u.active
          /\ a.server \in Servers /\ a.is_probe \in BOOLEAN /\ a.primary_probe \in BOOLEAN
          /\ a.is_probe /\ u.probe = NoServer /\ u.active # selected(u)
          /\ v.probe = a.server
          /\ a.primary_probe <=> a.server = selected(v)
      BY <2>2, <2>3, <2>4, <2>6, <2>7, <2>8
    <2> QED
      BY <2>9 DEF a, v
  <1>2. CASE ~ (tries_selected(u) \/ (u.active = NoServer /\ u.probe = NoServer))
    <2>1. a = [server |-> u.active, is_probe |-> FALSE, primary_probe |-> FALSE] /\ v = u
      BY <1>2 DEF select_attempt, probing
    <2> QED
      BY <1>0, <2>1
  <1> QED
    BY <1>1, <1>2

-----------------------------------------------------------------------------
(* The inductive invariant *)

\* A connection knows its server; only what is listed is cancelled.
Known == \A s \in Sessions :
    /\ at(s) # "none" => session[s].server \in Servers
    /\ ~ runs(s) => listed(s)
    /\ session[s].proven <=> at(s) = "relay"

\* A connection that may report on a trial.
holds(s) == unjudged(s) /\ session[s].is_probe /\ session[s].current

\* What it reports on is the trial of the controller, unless the user has just
\* selected the active server, and then no trial can begin.
TrialInv ==
    /\ \A s \in Sessions : holds(s) =>
          \/ session[s].server = upstream.probe
          \/ upstream.probe = NoServer /\ upstream.active = selected(upstream)
    /\ \A s, t \in Sessions : holds(s) /\ holds(t) => s = t
    /\ upstream.probe # NoServer =>
          \E s \in Sessions : holds(s) /\ session[s].server = upstream.probe
    /\ \A s \in Sessions : holds(s) /\ session[s].server = upstream.probe =>
          (session[s].primary_probe <=> session[s].server = selected(upstream))

Inv == TypeOK /\ Control(upstream) /\ Known /\ TrialInv

LEMMA RestType == Rest \in Records /\ Rest.at = "none" /\ ~ Rest.cancelled /\ ~ Rest.proven
  BY DEF Rest, Records

LEMMA WellInformed ==
    ASSUME Inv, NEW s \in Sessions, unjudged(s)
    PROVE  Informed(upstream, session[s])
  <1>1. session[s].server \in Servers /\ session[s] \in Records
    BY DEF Inv, Known, TypeOK, unjudged, at
  <1>2. ASSUME attempt_is_current(upstream, session[s]), session[s].is_probe
        PROVE  holds(s) /\ session[s].server = upstream.probe
    BY <1>2 DEF attempt_is_current, holds
  <1> QED
    BY <1>1, <1>2 DEF Informed, Records, Inv, TrialInv

LEMMA Marked ==
    ASSUME NEW r \in Records, NEW b \in BOOLEAN, NEW c \in BOOLEAN
    PROVE  LET x == [r EXCEPT !.current = b, !.cancelled = c] IN
           /\ x \in Records
           /\ x.at = r.at /\ x.server = r.server /\ x.is_probe = r.is_probe
           /\ x.primary_probe = r.primary_probe /\ x.proven = r.proven
           /\ x.current = b /\ x.cancelled = c
  BY DEF Records

\* What a change of the active server by others makes of t.
overtaken(t, own, cut_proven) ==
    [session[t] EXCEPT !.current = FALSE,
                       !.cancelled = session[t].cancelled \/ is_cut(t, own, cut_proven)]

LEMMA Overtaken ==
    ASSUME TypeOK, NEW t \in Sessions, NEW own \in SUBSET Sessions, NEW cut_proven \in BOOLEAN
    PROVE  LET x == overtaken(t, own, cut_proven) IN
           /\ x \in Records
           /\ x.at = session[t].at /\ x.server = session[t].server
           /\ x.is_probe = session[t].is_probe /\ x.proven = session[t].proven
           /\ x.primary_probe = session[t].primary_probe
           /\ ~ x.current
           /\ x.cancelled <=> session[t].cancelled \/ is_cut(t, own, cut_proven)
  <1> DEFINE c == session[t].cancelled \/ is_cut(t, own, cut_proven)
  <1>1. session[t] \in Records /\ c \in BOOLEAN
    BY DEF TypeOK
  <1>2. overtaken(t, own, cut_proven) = [session[t] EXCEPT !.current = FALSE, !.cancelled = c]
    BY DEF overtaken
  <1>3. c <=> session[t].cancelled \/ is_cut(t, own, cut_proven)
    OBVIOUS
  <1> HIDE DEF c
  <1> QED
    BY <1>1, <1>2, <1>3 DEF Records

LEMMA HandledBy ==
    ASSUME TypeOK, NEW v, NEW own \in SUBSET Sessions, NEW cut_proven \in BOOLEAN,
           NEW t \in Sessions
    PROVE  /\ v.active = upstream.active => handled(v, own, cut_proven)[t] = session[t]
           /\ v.active # upstream.active /\ t \notin own =>
                 handled(v, own, cut_proven)[t] = overtaken(t, own, cut_proven)
           /\ handled(v, own, cut_proven)[t] \in Records
  <1> DEFINE c == session[t].cancelled \/ is_cut(t, own, cut_proven)
             mine == t \in own
             x == [session[t] EXCEPT !.current = mine, !.cancelled = c]
  <1>1. session[t] \in Records /\ c \in BOOLEAN /\ mine \in BOOLEAN
    BY DEF TypeOK
  <1>2. x \in Records
    BY <1>1, Marked
  <1>3. handled(v, own, cut_proven)[t] = IF v.active = upstream.active THEN session[t] ELSE x
    BY Zenon DEF handled
  <1>4. t \notin own => x = overtaken(t, own, cut_proven)
    <2>1. CASE mine = FALSE
      BY <2>1, Zenon DEF overtaken
    <2> QED
      BY <2>1, <1>1
  <1> HIDE DEF x, mine, c
  <1> QED
    BY <1>1, <1>2, <1>3, <1>4

\* A change of the active server, by s, leaves nobody else current.
LEMMA Handled ==
    ASSUME TypeOK, NEW s \in Sessions, NEW v, NEW next \in Records, verdict(s, v, next)
    PROVE  /\ session' \in [Sessions -> Records] /\ session'[s] = next
           /\ \A t \in Sessions : t # s =>
                 session'[t] = IF v.active = upstream.active THEN session[t]
                               ELSE overtaken(t, {s}, FALSE)
  <1> DEFINE h == handled(v, {s}, FALSE)
  <1>1. session' = [h EXCEPT ![s] = next]
    BY DEF verdict
  <1>2. \A t \in Sessions :
          /\ v.active = upstream.active => h[t] = session[t]
          /\ v.active # upstream.active /\ t \notin {s} => h[t] = overtaken(t, {s}, FALSE)
          /\ h[t] \in Records
    BY HandledBy
  <1>3. h = [t \in Sessions |-> h[t]]
    BY DEF handled
  <1> HIDE DEF h
  <1>4. h \in [Sessions -> Records]
    BY <1>2, <1>3
  <1> QED
    BY <1>1, <1>2, <1>4

\* A verdict preserves the invariant.
LEMMA Judged ==
    ASSUME Inv, NEW s \in Sessions, unjudged(s), NEW v, Outcome(upstream, v, session[s]),
           NEW next \in Records, verdict(s, v, next), waiting' \in Seq(Sessions),
           next.at \in {"none", "relay"}, next.at = "relay" => next.server \in Servers,
           ~ next.cancelled, next.proven <=> next.at = "relay"
    PROVE  Inv'
  <1> TypeOK /\ Known /\ TrialInv
    BY DEF Inv
  <1>1. /\ upstream' = v /\ Control(v) /\ v \in Controllers
        /\ session' \in [Sessions -> Records] /\ session'[s] = next
        /\ \A t \in Sessions : t # s =>
                 session'[t] = IF v.active = upstream.active THEN session[t]
                               ELSE overtaken(t, {s}, FALSE)
    BY Handled DEF verdict, Outcome, Control
  <1>2. TypeOK'
    <2>1. by_user' \in BOOLEAN /\ reign' \in 0..CONNECT_FAILURE_OBSERVATION_WINDOW
      BY UpstreamStateAssumption DEF verdict, TypeOK
    <2> QED
      BY <1>1, <2>1 DEF TypeOK, verdict
  <1>3. ASSUME NEW t \in Sessions, t # s
        PROVE  /\ session'[t].at = session[t].at /\ session'[t].server = session[t].server
               /\ session'[t].proven = session[t].proven
               /\ session'[t].is_probe = session[t].is_probe
               /\ session'[t].primary_probe = session[t].primary_probe
               /\ session'[t].cancelled => session[t].cancelled \/ listed(t)
               /\ session'[t].current => session[t].current /\ v.active = upstream.active
               /\ v.active = upstream.active => session'[t].current = session[t].current
    <2>1. CASE v.active = upstream.active
      <3>1. session'[t] = session[t]
        BY <1>1, <1>3, <2>1
      <3> QED
        BY <2>1, <3>1
    <2>2. CASE v.active # upstream.active
      <3>1. session'[t] = overtaken(t, {s}, FALSE)
        BY <1>1, <1>3, <2>2
      <3>2. is_cut(t, {s}, FALSE) => listed(t)
        BY DEF is_cut
      <3> DEFINE own == {s}
                 no == FALSE
      <3>3. own \in SUBSET Sessions /\ no \in BOOLEAN
        OBVIOUS
      <3> HIDE DEF own, no
      <3>4. LET x == overtaken(t, own, no) IN
            /\ x.at = session[t].at /\ x.server = session[t].server
            /\ x.is_probe = session[t].is_probe /\ x.proven = session[t].proven
            /\ x.primary_probe = session[t].primary_probe /\ ~ x.current
            /\ x.cancelled <=> session[t].cancelled \/ is_cut(t, own, no)
        BY <3>3, Overtaken
      <3> QED
        BY <2>2, <3>1, <3>2, <3>4 DEF own, no
    <2> QED
      BY <2>1, <2>2
  <1>4. Known'
    <2>1. ASSUME NEW t \in Sessions, t # s
          PROVE  /\ session'[t].at # "none" => session'[t].server \in Servers
                 /\ session'[t].cancelled =>
                       session'[t].at \in {"queued", "connect", "opened", "relay"}
                 /\ session'[t].proven <=> session'[t].at = "relay"
      BY <1>3, <2>1 DEF Known, at, runs, listed
    <2> QED
      BY <1>1, <2>1 DEF Known, at, runs, listed
  <1>5. \A t \in Sessions : holds(t)' => t # s /\ holds(t) /\ v.active = upstream.active
    BY <1>1, <1>3 DEF holds, unjudged, at
  <1>6. \A t \in Sessions : t # s /\ holds(t) /\ v.active = upstream.active => holds(t)'
    BY <1>1, <1>3 DEF holds, unjudged, at
  <1>7. CASE current_trial(upstream, session[s])
    <2>1. holds(s) /\ v.probe = NoServer
      BY <1>7 DEF current_trial, attempt_is_current, holds, Outcome
    <2>2. \A t \in Sessions : ~ holds(t)'
      BY <1>5, <2>1 DEF TrialInv
    <2> QED
      BY <1>1, <1>2, <1>4, <2>1, <2>2 DEF Inv, TrialInv
  <1>8. CASE ~ current_trial(upstream, session[s]) /\ v.active = upstream.active
    <2>1. v.probe = upstream.probe /\ selected(v) = selected(upstream)
      BY <1>8 DEF Outcome, selected
    <2>2. ASSUME v.probe # NoServer
          PROVE  \E t \in Sessions : holds(t)' /\ session'[t].server = v.probe
      <3>1. PICK t \in Sessions : holds(t) /\ session[t].server = upstream.probe
        BY <2>1, <2>2 DEF TrialInv
      <3>2. t # s
        BY <1>8, <3>1 DEF holds, current_trial, attempt_is_current
      <3> QED
        BY <1>3, <1>6, <1>8, <2>1, <3>1, <3>2
    <2> QED
      BY <1>1, <1>2, <1>3, <1>4, <1>5, <1>8, <2>1, <2>2 DEF Inv, TrialInv
  <1>9. CASE ~ current_trial(upstream, session[s]) /\ v.active # upstream.active
    <2>1. v.probe = NoServer /\ \A t \in Sessions : ~ holds(t)'
      BY <1>5, <1>9 DEF Outcome
    <2> QED
      BY <1>1, <1>2, <1>4, <2>1 DEF Inv, TrialInv
  <1> QED
    BY <1>7, <1>8, <1>9

\* So does a move of a connection that keeps what it would report, or keeps to
\* have nothing to report.
LEMMA Moved ==
    ASSUME Inv, NEW s \in Sessions, NEW next \in Records, goes(s, next),
           waiting' \in Seq(Sessions),
           next.at # "none" => next.server \in Servers,
           ~ next.cancelled, next.proven <=> next.at = "relay",
           (next.at \in {"queued", "connect", "opened", "judged"} /\ next.is_probe /\ next.current)
              <=> holds(s),
           holds(s) => /\ next.server = session[s].server
                       /\ next.primary_probe = session[s].primary_probe
    PROVE  Inv'
  <1> TypeOK /\ Known /\ TrialInv /\ Control(upstream)
    BY DEF Inv
  <1>1. /\ session' \in [Sessions -> Records] /\ session'[s] = next
        /\ \A t \in Sessions : t # s => session'[t] = session[t]
        /\ upstream' = upstream
    BY DEF goes, TypeOK
  <1>2. TypeOK'
    BY <1>1 DEF TypeOK, goes
  <1>3. Known'
    <2>1. ASSUME NEW t \in Sessions, t # s
          PROVE  /\ session'[t].at # "none" => session'[t].server \in Servers
                 /\ session'[t].cancelled =>
                       session'[t].at \in {"queued", "connect", "opened", "relay"}
                 /\ session'[t].proven <=> session'[t].at = "relay"
      BY <1>1, <2>1 DEF Known, at, runs, listed
    <2> QED
      BY <1>1, <2>1 DEF Known, at, runs, listed
  <1>4. ASSUME NEW t \in Sessions
        PROVE  /\ holds(t)' <=> holds(t)
               /\ holds(t) => /\ session'[t].server = session[t].server
                              /\ session'[t].primary_probe = session[t].primary_probe
    <2>1. CASE t = s
      BY <1>1, <2>1 DEF holds, unjudged, at
    <2>2. CASE t # s
      BY <1>1, <2>2 DEF holds, unjudged, at
    <2> QED
      BY <2>1, <2>2
  <1>5. TrialInv'
    BY <1>1, <1>4 DEF TrialInv
  <1> QED
    BY <1>1, <1>2, <1>3, <1>5 DEF Inv

LEMMA LeftQueue ==
    ASSUME TypeOK, NEW s \in Sessions, out_of_queue(s)
    PROVE  waiting' \in Seq(Sessions)
  <1>1. PICK i \in DOMAIN waiting :
           waiting' = SubSeq(waiting, 1, i - 1) \o SubSeq(waiting, i + 1, Len(waiting))
    BY DEF out_of_queue
  <1>2. /\ Len(waiting) \in Nat /\ i \in 1..Len(waiting)
        /\ \A j \in 1..Len(waiting) : waiting[j] \in Sessions
    BY LenProperties, ElementOfSeq DEF TypeOK
  <1>3. SubSeq(waiting, 1, i - 1) \in Seq(Sessions)
    BY <1>2, SubSeqProperties
  <1>4. SubSeq(waiting, i + 1, Len(waiting)) \in Seq(Sessions)
    BY <1>2, SubSeqProperties
  <1> QED
    BY <1>1, <1>3, <1>4, ConcatProperties

LEMMA GivenUp ==
    ASSUME Inv, NEW s \in Sessions, unjudged(s), leaves(s), waiting' \in Seq(Sessions)
    PROVE  Inv'
  <1> DEFINE v == abandon_attempt(upstream, session[s])
  <1>1. Outcome(upstream, v, session[s])
    BY WellInformed, Abandoned DEF Inv
  <1>2. verdict(s, v, Rest)
    BY DEF leaves
  <1> HIDE DEF v
  <1> QED
    BY <1>1, <1>2, RestType, Judged

LEMMA JudgedAtEnd ==
    ASSUME Inv, NEW s \in Sessions, unjudged(s), NEW answered \in BOOLEAN,
           verdict_at_end(s, answered), waiting' \in Seq(Sessions)
    PROVE  Inv'
  <1> DEFINE v == IF answered THEN record_recv_ok(upstream, session[s])
                  ELSE record_zero_recv(upstream, session[s])
  <1>1. Outcome(upstream, v, session[s])
    BY WellInformed, RecvOk, ZeroRecv DEF Inv
  <1>2. verdict(s, v, Rest)
    BY DEF verdict_at_end
  <1> HIDE DEF v
  <1> QED
    BY <1>1, <1>2, RestType, Judged

-----------------------------------------------------------------------------
(* The steps of a connection *)

\* The record of a connection changed in what it waits for, or in got.
LEMMA MovedOn ==
    ASSUME NEW r \in Records, NEW a \in {"connect", "opened", "judged"}
    PROVE  /\ [r EXCEPT !.at = a] \in Records
           /\ [r EXCEPT !.got = TRUE] \in Records
           /\ r.server \in Servers =>
                 [r EXCEPT !.at = "relay", !.proven = TRUE, !.got = TRUE] \in Records
  BY DEF Records

LEMMA BeginStep ==
    ASSUME Inv, NEW s \in Sessions, NEW kind \in Kinds, open_connection(s, kind)
    PROVE  Inv'
  <1> TypeOK /\ Known /\ TrialInv /\ Control(upstream)
    BY DEF Inv
  <1> DEFINE a == select_attempt(upstream)
             v == probing(upstream, a)
             w == IF locked THEN "queued" ELSE "connect"
             next == [Rest EXCEPT !.at = w, !.kind = kind, !.server = a.server,
                                  !.is_probe = a.is_probe,
                                  !.primary_probe = a.primary_probe, !.current = TRUE]
  <1>1. /\ at(s) = "none" /\ a.server # NoServer /\ upstream' = v
        /\ session' = [session EXCEPT ![s] = next]
        /\ waiting' = IF locked THEN Append(waiting, s) ELSE waiting
        /\ UNCHANGED <<answering, by_user, reign>>
    BY DEF open_connection
  <1>2. /\ Control(v) /\ v.endpoints = upstream.endpoints /\ v.active = upstream.active
        /\ a.server \in Servers /\ a.is_probe \in BOOLEAN /\ a.primary_probe \in BOOLEAN
        /\ a.is_probe => /\ upstream.probe = NoServer /\ upstream.active # selected(upstream)
                         /\ v.probe = a.server
                         /\ a.primary_probe <=> a.server = selected(v)
        /\ ~ a.is_probe => v = upstream /\ a.server = upstream.active
    BY <1>1, Selected
  <1>3. w \in {"queued", "connect"}
    OBVIOUS
  <1> HIDE DEF a, v, w
  <1>4. /\ next \in Records /\ next.at = w /\ next.server = a.server /\ ~ next.cancelled
        /\ ~ next.proven /\ next.is_probe = a.is_probe /\ next.current = TRUE
        /\ next.primary_probe = a.primary_probe
    BY <1>2, <1>3 DEF Rest, Records
  <1> HIDE DEF next
  <1>5. /\ session' \in [Sessions -> Records] /\ session'[s] = next
        /\ \A t \in Sessions : t # s => session'[t] = session[t]
    BY <1>1, <1>4 DEF TypeOK
  <1>6. waiting' \in Seq(Sessions)
    BY <1>1, AppendProperties DEF TypeOK
  <1>7. TypeOK'
    BY <1>1, <1>2, <1>5, <1>6 DEF TypeOK, Control
  <1>8. Known'
    <2>1. ASSUME NEW t \in Sessions, t # s
          PROVE  /\ session'[t].at # "none" => session'[t].server \in Servers
                 /\ session'[t].cancelled =>
                       session'[t].at \in {"queued", "connect", "opened", "relay"}
                 /\ session'[t].proven <=> session'[t].at = "relay"
      BY <1>5, <2>1 DEF Known, at, runs, listed
    <2> QED
      BY <1>2, <1>3, <1>4, <1>5, <2>1 DEF Known, at, runs, listed
  <1>9. /\ ~ holds(s) /\ (holds(s)' <=> a.is_probe)
        /\ \A t \in Sessions : t # s => (holds(t)' <=> holds(t))
    BY <1>1, <1>3, <1>4, <1>5 DEF holds, unjudged, at
  <1>10. CASE a.is_probe
    <2>1. \A t \in Sessions : ~ holds(t)
      BY <1>2, <1>10, UpstreamStateAssumption DEF TrialInv, Known, holds, unjudged
    <2>2. TrialInv'
      BY <1>1, <1>2, <1>4, <1>5, <1>9, <1>10, <2>1 DEF TrialInv
    <2> QED
      BY <1>1, <1>2, <1>7, <1>8, <2>2 DEF Inv
  <1>11. CASE ~ a.is_probe
    <2>1. upstream' = upstream
      BY <1>1, <1>2, <1>11
    <2>2. TrialInv'
      BY <1>5, <1>9, <1>11, <2>1 DEF TrialInv
    <2> QED
      BY <1>7, <1>8, <2>1, <2>2 DEF Inv
  <1> QED
    BY <1>2, <1>10, <1>11

LEMMA ProceedsStep ==
    ASSUME Inv, NEW s \in Sessions, Proceeds(s)
    PROVE  Inv'
  <1> TypeOK /\ Known /\ TrialInv /\ Control(upstream)
    BY DEF Inv
  <1>1. /\ session[s] \in Records /\ waiting \in Seq(Sessions)
        /\ at(s) # "none" => session[s].server \in Servers
        /\ ~ runs(s) => listed(s)
        /\ session[s].proven <=> at(s) = "relay"
    BY DEF TypeOK, Known
  <1>2. CASE GetSlot(s)
    <2> DEFINE next == [session[s] EXCEPT !.at = "connect"]
    <2>1. at(s) = "queued" /\ runs(s) /\ goes(s, next)
          /\ waiting # <<>> /\ waiting' = Tail(waiting)
      BY <1>2 DEF GetSlot
    <2>2. waiting' \in Seq(Sessions)
      BY <1>1, <2>1, HeadTailProperties
    <2>3. /\ next \in Records /\ next.at = "connect" /\ next.server = session[s].server
          /\ next.proven = session[s].proven /\ next.cancelled = session[s].cancelled
          /\ next.is_probe = session[s].is_probe /\ next.current = session[s].current
          /\ next.primary_probe = session[s].primary_probe
      BY <1>1 DEF Records
    <2> HIDE DEF next
    <2> QED
      BY <1>1, <2>1, <2>2, <2>3, Moved DEF holds, unjudged, at, runs
  <1>3. CASE ConnectFails(s)
    <2>1. unjudged(s) /\ waiting' = waiting
      BY <1>3 DEF ConnectFails, unjudged
    <2> DEFINE v == record_connect_failure(upstream, session[s])
    <2>2. verdict(s, v, Rest) /\ Outcome(upstream, v, session[s])
      BY <1>3, <2>1, WellInformed, ConnectFailure DEF ConnectFails
    <2> HIDE DEF v
    <2> QED
      BY <1>1, <2>1, <2>2, RestType, Judged
  <1>4. CASE Connects(s)
    <2>1. at(s) = "connect" /\ runs(s) /\ waiting' = waiting /\ unjudged(s)
      BY <1>4 DEF Connects, unjudged
    <2>2. CASE session[s].current
      <3> DEFINE next == [session[s] EXCEPT !.at = "opened"]
      <3>1. goes(s, next)
        BY <1>4, <2>2 DEF Connects
      <3>2. /\ next \in Records /\ next.at = "opened" /\ next.server = session[s].server
            /\ next.proven = session[s].proven /\ next.cancelled = session[s].cancelled
            /\ next.is_probe = session[s].is_probe /\ next.current = session[s].current
            /\ next.primary_probe = session[s].primary_probe
        BY <1>1 DEF Records
      <3> HIDE DEF next
      <3> QED
        BY <1>1, <2>1, <3>1, <3>2, Moved DEF holds, unjudged, at, runs
    <2>3. CASE ~ session[s].current
      BY <1>1, <1>4, <2>1, <2>3, GivenUp DEF Connects
    <2> QED
      BY <2>2, <2>3
  <1>5. CASE Cancelled(s)
    <2>1. waiting' \in Seq(Sessions)
      BY <1>1, <1>5, LeftQueue DEF Cancelled
    <2>2. CASE at(s) = "relay"
      <3>1. goes(s, Rest) /\ ~ holds(s)
        BY <1>5, <2>2 DEF Cancelled, holds, unjudged
      <3> QED
        BY <2>1, <3>1, RestType, Moved
    <2>3. CASE at(s) # "relay"
      <3>1. unjudged(s) /\ leaves(s)
        BY <1>1, <1>5, <2>3 DEF Cancelled, listed, unjudged
      <3> QED
        BY <2>1, <3>1, GivenUp
    <2> QED
      BY <2>2, <2>3
  <1>6. CASE Answered(s)
    <2>1. at(s) = "opened" /\ runs(s) /\ unjudged(s) /\ waiting' = waiting
      BY <1>6 DEF Answered, judging, unjudged
    <2> DEFINE v == record_recv_ok(upstream, session[s])
               next == relaying(s)
    <2>2. verdict(s, v, next) /\ Outcome(upstream, v, session[s])
      BY <1>6, <2>1, WellInformed, RecvOk DEF Answered
    <2>3. /\ next \in Records /\ next.at = "relay" /\ next.server = session[s].server
          /\ next.proven = TRUE /\ next.cancelled = session[s].cancelled
      BY <1>1 DEF relaying, Records
    <2> HIDE DEF v, next
    <2> QED
      BY <1>1, <2>1, <2>2, <2>3, Judged DEF runs
  <1>7. CASE Silent(s)
    <2>1. unjudged(s) /\ waiting' = waiting
      BY <1>7 DEF Silent, judging, unjudged
    <2> DEFINE v == record_zero_recv(upstream, session[s])
    <2>2. verdict(s, v, Rest) /\ Outcome(upstream, v, session[s])
      BY <1>7, <2>1, WellInformed, ZeroRecv DEF Silent
    <2> HIDE DEF v
    <2> QED
      BY <1>1, <2>1, <2>2, RestType, Judged
  <1>8. CASE JudgeAbandoned(s)
    <2>1. unjudged(s) /\ waiting' = waiting
      BY <1>8 DEF JudgeAbandoned, unjudged
    <2> DEFINE answered == session[s].server \in answering
    <2>2. verdict_at_end(s, answered) /\ answered \in BOOLEAN
      BY <1>8 DEF JudgeAbandoned
    <2> HIDE DEF answered
    <2> QED
      BY <1>1, <2>1, <2>2, JudgedAtEnd
  <1>9. CASE RawData(s)
    <2> DEFINE next == [session[s] EXCEPT !.got = TRUE]
    <2>1. at(s) = "opened" /\ runs(s) /\ waiting' = waiting /\ goes(s, next)
      BY <1>9 DEF RawData
    <2>2. /\ next \in Records /\ next.at = session[s].at /\ next.server = session[s].server
          /\ next.proven = session[s].proven /\ next.cancelled = session[s].cancelled
          /\ next.is_probe = session[s].is_probe /\ next.current = session[s].current
          /\ next.primary_probe = session[s].primary_probe
      BY <1>1 DEF Records
    <2> HIDE DEF next
    <2> QED
      BY <1>1, <2>1, <2>2, Moved DEF holds, unjudged, at, runs
  <1> QED
    BY <1>2, <1>3, <1>4, <1>5, <1>6, <1>7, <1>8, <1>9 DEF Proceeds

LEMMA OtherStep ==
    ASSUME Inv, NEW s \in Sessions,
           Ends(s) \/ LoseSlot(s) \/ ConnectRefused(s) \/ ClientLeaves(s)
    PROVE  Inv'
  <1> TypeOK /\ Known /\ TrialInv /\ Control(upstream)
    BY DEF Inv
  <1>1. /\ session[s] \in Records /\ waiting \in Seq(Sessions)
        /\ at(s) # "none" => session[s].server \in Servers
        /\ session[s].proven <=> at(s) = "relay"
    BY DEF TypeOK, Known
  <1>2. CASE RawEnds(s)
    <2> DEFINE got == session[s].got
    <2>1. unjudged(s) /\ waiting' = waiting /\ verdict_at_end(s, got)
      BY <1>2 DEF RawEnds, unjudged
    <2>2. got \in BOOLEAN
      BY <1>1 DEF Records
    <2> HIDE DEF got
    <2> QED
      BY <1>1, <2>1, <2>2, JudgedAtEnd
  <1>3. CASE RelayEnds(s)
    <2>1. goes(s, Rest) /\ ~ holds(s) /\ waiting' = waiting
      BY <1>3 DEF RelayEnds, holds, unjudged
    <2> QED
      BY <1>1, <2>1, RestType, Moved
  <1>4. CASE LoseSlot(s)
    <2>1. unjudged(s) /\ leaves(s) /\ waiting' \in Seq(Sessions)
      BY <1>4, LeftQueue DEF LoseSlot, unjudged
    <2> QED
      BY <2>1, GivenUp
  <1>5. CASE ConnectRefused(s)
    <2>1. unjudged(s) /\ leaves(s) /\ waiting' = waiting
      BY <1>5 DEF ConnectRefused, unjudged
    <2> QED
      BY <1>1, <2>1, GivenUp
  <1>6. CASE ClientLeaves(s)
    <2> DEFINE next == [session[s] EXCEPT !.at = "judged"]
    <2>1. /\ at(s) = "opened" /\ runs(s) /\ unjudged(s) /\ waiting' = waiting
          /\ leaves(s) \/ goes(s, next)
      BY <1>6 DEF ClientLeaves, judging, unjudged
    <2>2. /\ next \in Records /\ next.at = "judged" /\ next.server = session[s].server
          /\ next.proven = session[s].proven /\ next.cancelled = session[s].cancelled
          /\ next.is_probe = session[s].is_probe /\ next.current = session[s].current
          /\ next.primary_probe = session[s].primary_probe
      BY <1>1 DEF Records
    <2> HIDE DEF next
    <2>3. CASE leaves(s)
      BY <1>1, <2>1, <2>3, GivenUp
    <2>4. CASE goes(s, next)
      BY <1>1, <2>1, <2>2, <2>4, Moved DEF holds, unjudged, at, runs
    <2> QED
      BY <2>1, <2>3, <2>4
  <1> QED
    BY <1>2, <1>3, <1>4, <1>5, <1>6 DEF Ends

-----------------------------------------------------------------------------
(* The steps around the connections *)

LEMMA ApplyStep ==
    ASSUME Inv, NEW list \in Choices, apply_config(list)
    PROVE  Inv'
  <1> TypeOK /\ Known /\ TrialInv /\ Control(upstream)
    BY DEF Inv
  <1> DEFINE u == replace_config(list)
             none == {}
             yes == TRUE
             h == handled(u, none, yes)
  <1>1. /\ upstream' = u /\ session' = h /\ by_user' = TRUE /\ reign' = 0
        /\ UNCHANGED <<waiting, answering>>
    BY DEF apply_config
  <1>2. Control(u) /\ u.probe = NoServer /\ u.active = selected(u)
    BY UpstreamConnectionsAssumption, ReplacedConfig
  <1>3. none \in SUBSET Sessions /\ yes \in BOOLEAN
    OBVIOUS
  <1>4. h = [t \in Sessions |-> h[t]] /\ \A t \in Sessions : t \notin none
    BY DEF handled
  <1>5. \A t \in Sessions : is_cut(t, none, yes) => listed(t)
    BY DEF is_cut
  <1> HIDE DEF u, h, none, yes
  <1>6. ASSUME NEW t \in Sessions
        PROVE  /\ h[t] \in Records /\ h[t].at = session[t].at /\ h[t].server = session[t].server
               /\ h[t].is_probe = session[t].is_probe /\ h[t].proven = session[t].proven
               /\ h[t].cancelled => session[t].cancelled \/ listed(t)
               /\ h[t].current => session[t].current
    <2>1. CASE u.active = upstream.active
      <3>1. h[t] = session[t]
        BY <1>3, <2>1, HandledBy DEF h
      <3> QED
        BY <3>1 DEF TypeOK
    <2>2. CASE u.active # upstream.active
      <3>1. h[t] = overtaken(t, none, yes)
        BY <1>3, <1>4, <2>2, HandledBy DEF h
      <3>2. LET x == overtaken(t, none, yes) IN
            /\ x \in Records
            /\ x.at = session[t].at /\ x.server = session[t].server
            /\ x.is_probe = session[t].is_probe /\ x.proven = session[t].proven
            /\ ~ x.current
            /\ x.cancelled <=> session[t].cancelled \/ is_cut(t, none, yes)
        BY <1>3, Overtaken
      <3> QED
        BY <1>5, <3>1, <3>2
    <2> QED
      BY <2>1, <2>2
  <1>7. session' \in [Sessions -> Records] /\ \A t \in Sessions : session'[t] = h[t]
    BY <1>1, <1>4, <1>6
  <1>8. TypeOK'
    BY <1>1, <1>2, <1>7, UpstreamStateAssumption DEF TypeOK, Control
  <1>9. Known'
    <2>1. ASSUME NEW t \in Sessions
          PROVE  /\ session'[t].at # "none" => session'[t].server \in Servers
                 /\ session'[t].cancelled =>
                       session'[t].at \in {"queued", "connect", "opened", "relay"}
                 /\ session'[t].proven <=> session'[t].at = "relay"
      BY <1>6, <1>7 DEF Known, at, runs, listed
    <2> QED
      BY <2>1 DEF Known, at, runs, listed
  <1>10. ASSUME NEW t \in Sessions, holds(t)'
         PROVE  holds(t) /\ session'[t].server \in Servers
    BY <1>6, <1>7, <1>9, <1>10 DEF holds, unjudged, at, Known
  <1>11. TrialInv'
    BY <1>1, <1>2, <1>10, UpstreamStateAssumption DEF TrialInv
  <1> QED
    BY <1>1, <1>2, <1>8, <1>9, <1>11 DEF Inv

LEMMA TickStep ==
    ASSUME Inv, Tick
    PROVE  Inv'
  <1> TypeOK /\ Known /\ TrialInv /\ Control(upstream)
    BY DEF Inv
  <1> DEFINE v == pass_time(upstream)
  <1>1. /\ Control(v) /\ v.endpoints = upstream.endpoints
        /\ v.active = upstream.active /\ v.probe = upstream.probe
    BY TimePassed
  <1>2. /\ upstream' = v /\ UNCHANGED <<session, waiting, answering, by_user>>
        /\ reign' = lower(reign + 1, CONNECT_FAILURE_OBSERVATION_WINDOW)
    BY DEF Tick
  <1> HIDE DEF v
  <1>3. reign' \in 0..CONNECT_FAILURE_OBSERVATION_WINDOW
    BY <1>2, UpstreamStateAssumption DEF TypeOK, lower
  <1>4. TypeOK'
    BY <1>1, <1>2, <1>3 DEF TypeOK, Control
  <1>5. Known' /\ \A s \in Sessions : holds(s)' <=> holds(s)
    BY <1>2 DEF Known, holds, unjudged, at, runs, listed
  <1>6. TrialInv'
    BY <1>1, <1>2, <1>5 DEF TrialInv, selected
  <1> QED
    BY <1>1, <1>2, <1>4, <1>5, <1>6 DEF Inv

LEMMA ServerStep ==
    ASSUME Inv, UNCHANGED <<upstream, session, waiting, by_user, reign>>,
           answering' \subseteq Servers
    PROVE  Inv'
  <1>1. TypeOK' /\ Known' /\ Control(upstream)'
    BY DEF Inv, TypeOK, Known, at, runs, listed
  <1>2. TrialInv'
    BY DEF Inv, TrialInv, holds, unjudged, at
  <1> QED
    BY <1>1, <1>2 DEF Inv

-----------------------------------------------------------------------------
(* The theorems *)

LEMMA Begins == Init => Inv
  <1> SUFFICES ASSUME Init PROVE Inv
    OBVIOUS
  <1>1. PICK list \in Choices : upstream = replace_config(list)
    BY DEF Init
  <1>2. /\ session = [s \in Sessions |-> Rest] /\ waiting = <<>> /\ answering = Servers
        /\ by_user = TRUE /\ reign = 0
    BY DEF Init
  <1>3. Control(upstream) /\ upstream.probe = NoServer
    BY <1>1, UpstreamConnectionsAssumption, ReplacedConfig
  <1>4. waiting \in Seq(Sessions)
    BY <1>2, EmptySeq
  <1>5. TypeOK
    BY <1>2, <1>3, <1>4, RestType, UpstreamStateAssumption DEF TypeOK, Control
  <1>6. Known /\ \A s \in Sessions : ~ holds(s)
    BY <1>2, RestType DEF Known, holds, unjudged, at, runs, listed
  <1>7. TrialInv
    BY <1>3, <1>6 DEF TrialInv
  <1> QED
    BY <1>3, <1>5, <1>6, <1>7 DEF Inv

LEMMA Preserved == Inv /\ [Next]_vars => Inv'
  <1> SUFFICES ASSUME Inv, [Next]_vars PROVE Inv'
    OBVIOUS
  <1>1. CASE \E s \in Sessions : Begin(s) \/ Proceeds(s) \/ Ends(s)
    BY <1>1, BeginStep, ProceedsStep, OtherStep DEF Begin
  <1>2. CASE \E s \in Sessions : BreaksOff(s)
    BY <1>2, OtherStep DEF BreaksOff
  <1>3. CASE \E list \in Choices : apply_config(list)
    BY <1>3, ApplyStep
  <1>4. CASE \E e \in Servers : ServerChanges(e)
    BY <1>4, ServerStep DEF ServerChanges, Inv, TypeOK
  <1>5. CASE Tick
    BY <1>5, TickStep
  <1>6. CASE UNCHANGED vars
    BY <1>6, ServerStep DEF vars, Inv, TypeOK
  <1> QED
    BY <1>1, <1>2, <1>3, <1>4, <1>5, <1>6 DEF Next

LEMMA Invariant == Spec => []Inv
  BY Begins, Preserved, PTL DEF Spec

\* The state has its type.
THEOREM TypeCorrect == Spec => []TypeOK
  <1>1. Inv => TypeOK
    BY DEF Inv
  <1> QED
    BY <1>1, Invariant, PTL

\* While the controller waits for a trial, one connection reports on it and no
\* second one does (upstream_controller.py, _probe_key).
THEOREM ProbeAlwaysHeld == Spec => []ProbeIsHeld
  <1>1. ASSUME Inv PROVE ProbeIsHeld
    <2> SUFFICES ASSUME upstream.probe # NoServer
                 PROVE  \E s \in Sessions : on_trial(s) /\ \A t \in Sessions : on_trial(t) => t = s
      BY DEF ProbeIsHeld
    <2>1. \A t \in Sessions :
             on_trial(t) <=> holds(t) /\ session[t].server = upstream.probe
      BY DEF on_trial, holds, attempt_is_current
    <2>2. PICK s \in Sessions : holds(s) /\ session[s].server = upstream.probe
      BY <1>1 DEF Inv, TrialInv
    <2> QED
      BY <1>1, <2>1, <2>2 DEF Inv, TrialInv
  <1> QED
    BY <1>1, Invariant, PTL

\* A fallback serves only while every server before it has failed, and no server
\* only while all have.
THEOREM FallbackAlwaysJustified == Spec => []FallbackJustified
  <1>1. Inv => FallbackJustified
    BY DEF Inv, Control, FallbackJustified
  <1> QED
    BY <1>1, Invariant, PTL

-----------------------------------------------------------------------------
(* None left behind, unless the user selects the server that is active *)

\* A listed connection without data holds a current attempt; one with data goes
\* through the active server when that was the user's choice.
Followed(u, user, r) == r.at \in {"queued", "connect", "opened", "relay"} /\ ~ r.cancelled =>
    /\ ~ r.proven => attempt_is_current(u, r)
    /\ r.proven /\ user => r.server = u.active

LeftInv == \A s \in Sessions : Followed(upstream, by_user, session[s])

LEMMA JudgedLeft ==
    ASSUME Inv, LeftInv, NEW s \in Sessions, unjudged(s),
           NEW v, Outcome(upstream, v, session[s]),
           NEW next \in Records, verdict(s, v, next),
           next.at = "relay" => next.proven /\ (v.active = upstream.active => next.server = v.active),
           next.at \in {"none", "relay"}
    PROVE  LeftInv'
  <1> TypeOK /\ Known /\ TrialInv
    BY DEF Inv
  <1>1. /\ upstream' = v /\ by_user' = (by_user /\ v.active = upstream.active)
        /\ session'[s] = next
        /\ \A t \in Sessions : t # s =>
                 session'[t] = IF v.active = upstream.active THEN session[t]
                               ELSE overtaken(t, {s}, FALSE)
    BY Handled DEF verdict
  <1>2. Followed(v, by_user', next)
    BY <1>1 DEF Followed
  <1>3. ASSUME NEW t \in Sessions, t # s
        PROVE  Followed(v, by_user', session'[t])
    <2>1. CASE v.active = upstream.active
      <3>1. session'[t] = session[t] /\ by_user' = by_user
        BY <1>1, <1>3, <2>1 DEF TypeOK
      <3>2. CASE current_trial(upstream, session[s])
        <4>1. holds(s)
          BY <3>2 DEF current_trial, attempt_is_current, holds
        <4>2. ASSUME listed(t), runs(t), ~ session[t].proven, session[t].is_probe
              PROVE  FALSE
          <5>1. holds(t)
            BY <4>2 DEF LeftInv, Followed, attempt_is_current, listed, runs, at, holds,
                        unjudged, Known
          <5> QED
            BY <1>3, <4>1, <5>1 DEF TrialInv
        <4> QED
          BY <2>1, <3>1, <4>2 DEF LeftInv, Followed, attempt_is_current, listed, runs, at
      <3>3. CASE ~ current_trial(upstream, session[s])
        <4>1. v.probe = upstream.probe
          BY <2>1, <3>3 DEF Outcome
        <4> QED
          BY <2>1, <3>1, <4>1 DEF LeftInv, Followed, attempt_is_current
      <3> QED
        BY <3>2, <3>3
    <2>2. CASE v.active # upstream.active
      <3> DEFINE own == {s}
                 no == FALSE
      <3>1. own \in SUBSET Sessions /\ no \in BOOLEAN /\ t \notin own /\ ~ no
        BY <1>3
      <3>2. session'[t] = overtaken(t, own, no) /\ ~ by_user'
        BY <1>1, <1>3, <2>2
      <3> HIDE DEF own, no
      <3>3. LET x == overtaken(t, own, no) IN
            /\ x.at = session[t].at /\ x.proven = session[t].proven
            /\ x.cancelled <=> session[t].cancelled \/ is_cut(t, own, no)
        BY <3>1, Overtaken
      <3>4. ASSUME listed(t), runs(t), ~ session[t].proven PROVE is_cut(t, own, no)
        BY <3>1, <3>4 DEF LeftInv, Followed, attempt_is_current, listed, runs, at, is_cut
      <3> QED
        BY <3>2, <3>3, <3>4 DEF Followed, listed, runs, at
    <2> QED
      BY <2>1, <2>2
  <1> QED
    BY <1>1, <1>2, <1>3 DEF LeftInv

LEMMA MovedLeft ==
    ASSUME Inv, LeftInv, NEW s \in Sessions, NEW next, goes(s, next),
           Followed(upstream, by_user, next)
    PROVE  LeftInv'
  <1>1. /\ session'[s] = next /\ \A t \in Sessions : t # s => session'[t] = session[t]
        /\ upstream' = upstream /\ by_user' = by_user
    BY DEF goes, Inv, TypeOK
  <1>2. \A t \in Sessions : Followed(upstream, by_user, session'[t])
    BY <1>1 DEF LeftInv
  <1> QED
    BY <1>1, <1>2 DEF LeftInv

LEMMA GivenUpLeft ==
    ASSUME Inv, LeftInv, NEW s \in Sessions, unjudged(s), leaves(s)
    PROVE  LeftInv'
  <1> DEFINE v == abandon_attempt(upstream, session[s])
  <1>1. Outcome(upstream, v, session[s])
    BY WellInformed, Abandoned DEF Inv
  <1>2. verdict(s, v, Rest)
    BY DEF leaves
  <1> HIDE DEF v
  <1> QED
    BY <1>1, <1>2, RestType, JudgedLeft

LEMMA AtEndLeft ==
    ASSUME Inv, LeftInv, NEW s \in Sessions, unjudged(s), NEW answered \in BOOLEAN,
           verdict_at_end(s, answered)
    PROVE  LeftInv'
  <1> DEFINE v == IF answered THEN record_recv_ok(upstream, session[s])
                  ELSE record_zero_recv(upstream, session[s])
  <1>1. Outcome(upstream, v, session[s])
    BY WellInformed, RecvOk, ZeroRecv DEF Inv
  <1>2. verdict(s, v, Rest)
    BY DEF verdict_at_end
  <1> HIDE DEF v
  <1> QED
    BY <1>1, <1>2, RestType, JudgedLeft

LEMMA BeginLeft ==
    ASSUME Inv, LeftInv, NEW s \in Sessions, NEW kind \in Kinds, open_connection(s, kind)
    PROVE  LeftInv'
  <1> TypeOK /\ Known /\ TrialInv /\ Control(upstream)
    BY DEF Inv
  <1> DEFINE a == select_attempt(upstream)
             v == probing(upstream, a)
             w == IF locked THEN "queued" ELSE "connect"
             next == [Rest EXCEPT !.at = w, !.kind = kind, !.server = a.server,
                                  !.is_probe = a.is_probe,
                                  !.primary_probe = a.primary_probe, !.current = TRUE]
  <1>1. /\ a.server # NoServer /\ upstream' = v /\ session' = [session EXCEPT ![s] = next]
        /\ by_user' = by_user
    BY DEF open_connection
  <1>2. /\ v.active = upstream.active
        /\ a.is_probe => upstream.probe = NoServer /\ v.probe = a.server
        /\ ~ a.is_probe => v = upstream /\ a.server = upstream.active
    BY <1>1, Selected
  <1> HIDE DEF a, v, w
  <1>3. /\ next.server = a.server /\ ~ next.proven /\ next.is_probe = a.is_probe
        /\ next.current = TRUE
    BY DEF Rest
  <1> HIDE DEF next
  <1>4. session'[s] = next /\ \A t \in Sessions : t # s => session'[t] = session[t]
    BY <1>1 DEF TypeOK
  <1>5. Followed(v, by_user, next)
    BY <1>2, <1>3 DEF Followed, attempt_is_current
  <1>6. ASSUME NEW t \in Sessions PROVE Followed(v, by_user, session[t])
    <2>1. session[t].at # "none" => session[t].server # NoServer
      BY UpstreamStateAssumption DEF Known, at
    <2>2. Followed(upstream, by_user, session[t])
      BY DEF LeftInv
    <2> QED
      BY <1>2, <2>1, <2>2 DEF Followed, attempt_is_current
  <1>7. \A t \in Sessions : Followed(v, by_user, session'[t])
    BY <1>4, <1>5, <1>6
  <1> QED
    BY <1>1, <1>7 DEF LeftInv

LEMMA ProceedsLeft ==
    ASSUME Inv, LeftInv, NEW s \in Sessions, Proceeds(s)
    PROVE  LeftInv'
  <1> TypeOK /\ Known /\ TrialInv /\ Control(upstream)
    BY DEF Inv
  <1>1. /\ session[s] \in Records
        /\ ~ runs(s) => listed(s)
        /\ session[s].proven <=> at(s) = "relay"
        /\ Followed(upstream, by_user, session[s])
    BY DEF TypeOK, Known, LeftInv
  <1>2. CASE GetSlot(s)
    <2> DEFINE next == [session[s] EXCEPT !.at = "connect"]
    <2>1. at(s) = "queued" /\ runs(s) /\ goes(s, next)
      BY <1>2 DEF GetSlot
    <2>2. /\ next.server = session[s].server /\ next.proven = session[s].proven
          /\ next.is_probe = session[s].is_probe /\ next.current = session[s].current
      BY <1>1 DEF Records
    <2> HIDE DEF next
    <2>3. Followed(upstream, by_user, next)
      BY <1>1, <2>1, <2>2 DEF Followed, attempt_is_current, at, runs
    <2> QED
      BY <2>1, <2>3, MovedLeft
  <1>3. CASE ConnectFails(s)
    <2>1. unjudged(s)
      BY <1>3 DEF ConnectFails, unjudged
    <2> DEFINE v == record_connect_failure(upstream, session[s])
    <2>2. verdict(s, v, Rest) /\ Outcome(upstream, v, session[s])
      BY <1>3, <2>1, WellInformed, ConnectFailure DEF ConnectFails
    <2> HIDE DEF v
    <2> QED
      BY <2>1, <2>2, RestType, JudgedLeft
  <1>4. CASE Connects(s)
    <2>1. at(s) = "connect" /\ runs(s) /\ unjudged(s)
      BY <1>4 DEF Connects, unjudged
    <2>2. CASE session[s].current
      <3> DEFINE next == [session[s] EXCEPT !.at = "opened"]
      <3>1. goes(s, next)
        BY <1>4, <2>2 DEF Connects
      <3>2. /\ next.server = session[s].server /\ next.proven = session[s].proven
            /\ next.is_probe = session[s].is_probe /\ next.current = session[s].current
        BY <1>1 DEF Records
      <3> HIDE DEF next
      <3>3. Followed(upstream, by_user, next)
        BY <1>1, <2>1, <3>2 DEF Followed, attempt_is_current, at, runs
      <3> QED
        BY <3>1, <3>3, MovedLeft
    <2>3. CASE ~ session[s].current
      BY <1>4, <2>1, <2>3, GivenUpLeft DEF Connects
    <2> QED
      BY <2>2, <2>3
  <1>5. CASE Cancelled(s)
    <2>1. CASE at(s) = "relay"
      <3>1. goes(s, Rest)
        BY <1>5, <2>1 DEF Cancelled
      <3> QED
        BY <3>1, RestType, MovedLeft DEF Followed
    <2>2. CASE at(s) # "relay"
      <3>1. unjudged(s) /\ leaves(s)
        BY <1>1, <1>5, <2>2 DEF Cancelled, listed, unjudged
      <3> QED
        BY <3>1, GivenUpLeft
    <2> QED
      BY <2>1, <2>2
  <1>6. CASE Answered(s)
    <2>1. at(s) = "opened" /\ runs(s) /\ unjudged(s) /\ session[s].server \in Servers
      BY <1>6 DEF Answered, judging, unjudged, Known
    <2> DEFINE v == record_recv_ok(upstream, session[s])
               next == relaying(s)
    <2>2. /\ verdict(s, v, next) /\ Outcome(upstream, v, session[s])
          /\ attempt_is_current(upstream, session[s]) => v.active = session[s].server
      BY <1>6, <2>1, WellInformed, RecvOk DEF Answered, Inv
    <2>3. /\ next \in Records /\ next.at = "relay" /\ next.server = session[s].server
          /\ next.proven = TRUE
      BY <1>1 DEF relaying, Records
    <2>4. attempt_is_current(upstream, session[s])
      BY <1>1, <2>1 DEF Followed, at, runs
    <2> HIDE DEF v, next
    <2> QED
      BY <2>1, <2>2, <2>3, <2>4, JudgedLeft
  <1>7. CASE Silent(s)
    <2>1. unjudged(s)
      BY <1>7 DEF Silent, judging, unjudged
    <2> DEFINE v == record_zero_recv(upstream, session[s])
    <2>2. verdict(s, v, Rest) /\ Outcome(upstream, v, session[s])
      BY <1>7, <2>1, WellInformed, ZeroRecv DEF Silent
    <2> HIDE DEF v
    <2> QED
      BY <2>1, <2>2, RestType, JudgedLeft
  <1>8. CASE JudgeAbandoned(s)
    <2>1. unjudged(s)
      BY <1>8 DEF JudgeAbandoned, unjudged
    <2> DEFINE answered == session[s].server \in answering
    <2>2. verdict_at_end(s, answered) /\ answered \in BOOLEAN
      BY <1>8 DEF JudgeAbandoned
    <2> HIDE DEF answered
    <2> QED
      BY <2>1, <2>2, AtEndLeft
  <1>9. CASE RawData(s)
    <2> DEFINE next == [session[s] EXCEPT !.got = TRUE]
    <2>1. at(s) = "opened" /\ runs(s) /\ goes(s, next)
      BY <1>9 DEF RawData
    <2>2. /\ next.server = session[s].server /\ next.proven = session[s].proven
          /\ next.is_probe = session[s].is_probe /\ next.current = session[s].current
      BY <1>1 DEF Records
    <2> HIDE DEF next
    <2>3. Followed(upstream, by_user, next)
      BY <1>1, <2>1, <2>2 DEF Followed, attempt_is_current, at, runs
    <2> QED
      BY <2>1, <2>3, MovedLeft
  <1> QED
    BY <1>2, <1>3, <1>4, <1>5, <1>6, <1>7, <1>8, <1>9 DEF Proceeds

LEMMA OtherLeft ==
    ASSUME Inv, LeftInv, NEW s \in Sessions,
           Ends(s) \/ LoseSlot(s) \/ ConnectRefused(s) \/ ClientLeaves(s)
    PROVE  LeftInv'
  <1>1. session[s] \in Records
    BY DEF Inv, TypeOK
  <1>2. CASE RawEnds(s)
    <2> DEFINE got == session[s].got
    <2>1. unjudged(s) /\ verdict_at_end(s, got)
      BY <1>2 DEF RawEnds, unjudged
    <2>2. got \in BOOLEAN
      BY <1>1 DEF Records
    <2> HIDE DEF got
    <2> QED
      BY <2>1, <2>2, AtEndLeft
  <1>3. CASE RelayEnds(s)
    BY <1>3, RestType, MovedLeft DEF RelayEnds, Followed
  <1>4. CASE LoseSlot(s)
    BY <1>4, GivenUpLeft DEF LoseSlot, unjudged
  <1>5. CASE ConnectRefused(s)
    BY <1>5, GivenUpLeft DEF ConnectRefused, unjudged
  <1>6. CASE ClientLeaves(s)
    <2> DEFINE next == [session[s] EXCEPT !.at = "judged"]
    <2>1. unjudged(s) /\ (leaves(s) \/ goes(s, next))
      BY <1>6 DEF ClientLeaves, judging, unjudged
    <2>2. next.at = "judged"
      BY <1>1 DEF Records
    <2> HIDE DEF next
    <2>3. Followed(upstream, by_user, next)
      BY <2>2 DEF Followed
    <2> QED
      BY <2>1, <2>3, GivenUpLeft, MovedLeft
  <1> QED
    BY <1>2, <1>3, <1>4, <1>5, <1>6 DEF Ends

LEMMA ApplyLeft ==
    ASSUME Windows = {}, Inv, LeftInv, NEW list \in Choices, apply_config(list)
    PROVE  LeftInv'
  <1> TypeOK /\ Known /\ Control(upstream)
    BY DEF Inv
  <1> DEFINE u == replace_config(list)
             none == {}
             yes == TRUE
             h == handled(u, none, yes)
  <1>1. /\ upstream' = u /\ session' = h /\ by_user' = TRUE
        /\ u.active # upstream.active \/ strangers(list) = {}
    BY DEF apply_config
  <1>2. u.active = IF list = <<>> THEN NoServer ELSE list[1]
    BY UpstreamConnectionsAssumption, ReplacedConfig
  <1>3. none \in SUBSET Sessions /\ yes \in BOOLEAN /\ yes /\ \A t \in Sessions : t \notin none
    OBVIOUS
  <1> HIDE DEF u, h, none, yes
  <1>4. ASSUME NEW t \in Sessions PROVE Followed(u, TRUE, h[t])
    <2>1. CASE u.active # upstream.active
      <3>1. h[t] = overtaken(t, none, yes)
        BY <1>3, <2>1, HandledBy DEF h
      <3>2. LET x == overtaken(t, none, yes) IN
            /\ x.at = session[t].at
            /\ x.cancelled <=> session[t].cancelled \/ is_cut(t, none, yes)
        BY <1>3, Overtaken
      <3>3. listed(t) => is_cut(t, none, yes)
        BY <1>3 DEF is_cut
      <3> QED
        BY <3>1, <3>2, <3>3 DEF Followed, listed, at
    <2>2. CASE u.active = upstream.active
      <3>1. h[t] = session[t]
        BY <1>3, <2>2, HandledBy DEF h
      <3>2. ASSUME listed(t), runs(t) PROVE session[t].server = u.active
        BY <1>1, <1>2, <2>2, <3>2 DEF strangers
      <3>3. ASSUME listed(t), runs(t), ~ session[t].proven
            PROVE  session[t].current /\ ~ session[t].is_probe
        <4>1. attempt_is_current(upstream, session[t])
          BY <3>3 DEF LeftInv, Followed, listed, runs, at
        <4>2. upstream.active \in Servers
          BY <2>2, <3>2, <3>3 DEF Known, listed
        <4> QED
          BY <2>2, <3>2, <3>3, <4>1, <4>2, UpstreamStateAssumption
          DEF attempt_is_current, Control, TrialNeeded
      <3> QED
        BY <3>1, <3>2, <3>3 DEF Followed, attempt_is_current, listed, runs, at
    <2> QED
      BY <2>1, <2>2
  <1> QED
    BY <1>1, <1>4 DEF LeftInv

LEMMA StillLeft ==
    ASSUME Inv, LeftInv, UNCHANGED <<session, by_user>>,
           upstream'.active = upstream.active, upstream'.probe = upstream.probe
    PROVE  LeftInv'
  BY DEF LeftInv, Followed, attempt_is_current

LEMMA PreservedLeft == Windows = {} /\ Inv /\ LeftInv /\ [Next]_vars => LeftInv'
  <1> SUFFICES ASSUME Windows = {}, Inv, LeftInv, [Next]_vars PROVE LeftInv'
    OBVIOUS
  <1>1. CASE \E s \in Sessions : Begin(s) \/ Proceeds(s) \/ Ends(s)
    BY <1>1, BeginLeft, ProceedsLeft, OtherLeft DEF Begin
  <1>2. CASE \E s \in Sessions : BreaksOff(s)
    BY <1>2, OtherLeft DEF BreaksOff
  <1>3. CASE \E list \in Choices : apply_config(list)
    BY <1>3, ApplyLeft
  <1>4. CASE \E e \in Servers : ServerChanges(e)
    BY <1>4, StillLeft DEF ServerChanges
  <1>5. CASE Tick
    BY <1>5, TimePassed, StillLeft DEF Tick, Inv
  <1>6. CASE UNCHANGED vars
    BY <1>6, StillLeft DEF vars
  <1> QED
    BY <1>1, <1>2, <1>3, <1>4, <1>5, <1>6 DEF Next

\* No connection lives on through a server that was given up, except after an
\* automatic change one that data came through: as long as the user does not
\* select the very server that is active as a fallback.
THEOREM NobodyLeftBehind == Windows = {} /\ Spec => []NoneLeftBehind
  <1> SUFFICES ASSUME Windows = {} PROVE Spec => []NoneLeftBehind
    OBVIOUS
  <1>1. Init => LeftInv
    BY RestType DEF Init, LeftInv, Followed
  <1>2. Inv /\ LeftInv /\ [Next]_vars => LeftInv'
    BY PreservedLeft
  <1>3. Inv /\ LeftInv => NoneLeftBehind
    BY DEF Inv, TypeOK, LeftInv, Followed, attempt_is_current, NoneLeftBehind, listed, runs, at
  <1> QED
    BY <1>1, <1>2, <1>3, Invariant, PTL DEF Spec

-----------------------------------------------------------------------------
(* What carries data *)

\* Data of a session that is not cancelled is data of a proven one.
KeptInv == \A s \in Sessions : session[s].got => session[s].proven

Keeps == \A t \in Sessions : session[t].got /\ runs(t) /\ session'[t].cancelled => by_user'

LEMMA VerdictKeeps ==
    ASSUME Inv, KeptInv, NEW s \in Sessions, NEW v, NEW next \in Records, verdict(s, v, next),
           ~ next.cancelled, next.got => next.proven
    PROVE  KeptInv' /\ Keeps
  <1>1. /\ session'[s] = next
        /\ \A t \in Sessions : t # s =>
                 session'[t] = IF v.active = upstream.active THEN session[t]
                               ELSE overtaken(t, {s}, FALSE)
    BY Handled DEF Inv
  <1>2. ASSUME NEW t \in Sessions, t # s
        PROVE  /\ session'[t].got => session'[t].proven
               /\ session[t].got /\ runs(t) => ~ session'[t].cancelled
    <2>1. CASE session'[t] = session[t]
      BY <2>1 DEF KeptInv, runs
    <2>2. CASE session'[t] = overtaken(t, {s}, FALSE)
      <3> DEFINE own == {s}
                 no == FALSE
      <3>1. own \in SUBSET Sessions /\ no \in BOOLEAN /\ ~ no
        OBVIOUS
      <3>2. session'[t] = overtaken(t, own, no)
        BY <2>2
      <3> HIDE DEF own, no
      <3>3. LET x == overtaken(t, own, no) IN
            /\ x.proven = session[t].proven
            /\ x.cancelled <=> session[t].cancelled \/ is_cut(t, own, no)
        BY <3>1, Overtaken DEF Inv
      <3>4. overtaken(t, own, no).got = session[t].got
        BY DEF overtaken, Inv, TypeOK, Records
      <3> QED
        BY <3>1, <3>2, <3>3, <3>4 DEF KeptInv, is_cut, runs
    <2> QED
      BY <1>1, <1>2, <2>1, <2>2
  <1>3. \A t \in Sessions : /\ session'[t].got => session'[t].proven
                            /\ session[t].got /\ runs(t) => ~ session'[t].cancelled
    BY <1>1, <1>2
  <1> QED
    BY <1>3 DEF KeptInv, Keeps

LEMMA MoveKeeps ==
    ASSUME Inv, KeptInv, NEW s \in Sessions, NEW next,
           session' = [session EXCEPT ![s] = next],
           next.cancelled => session[s].cancelled, next.got => next.proven
    PROVE  KeptInv' /\ Keeps
  <1>1. session'[s] = next /\ \A t \in Sessions : t # s => session'[t] = session[t]
    BY DEF Inv, TypeOK
  <1> QED
    BY <1>1 DEF KeptInv, Keeps, runs

LEMMA RestKeeps ==
    ASSUME Inv, KeptInv, NEW s \in Sessions,
           \/ leaves(s)
           \/ \E v : verdict(s, v, Rest)
           \/ goes(s, Rest)
    PROVE  KeptInv' /\ Keeps
  <1>1. Rest \in Records /\ ~ Rest.cancelled /\ ~ Rest.got
    BY RestType DEF Rest
  <1> QED
    BY <1>1, VerdictKeeps, MoveKeeps DEF leaves, goes

LEMMA StepKeeps ==
    ASSUME "raw" \notin Kinds, Inv, KeptInv, NEW s \in Sessions,
           Begin(s) \/ Proceeds(s) \/ Ends(s) \/ BreaksOff(s)
    PROVE  KeptInv' /\ Keeps
  <1>1. /\ session[s] \in Records /\ session[s].kind # "raw"
        /\ session[s].got => at(s) = "relay"
    BY DEF Inv, TypeOK, Records, Known, KeptInv
  <1>2. CASE Begin(s)
    <2>1. PICK kind \in Kinds : open_connection(s, kind)
      BY <1>2 DEF Begin
    <2> DEFINE a == select_attempt(upstream)
               w == IF locked THEN "queued" ELSE "connect"
               next == [Rest EXCEPT !.at = w, !.kind = kind, !.server = a.server,
                                    !.is_probe = a.is_probe,
                                    !.primary_probe = a.primary_probe, !.current = TRUE]
    <2>2. session' = [session EXCEPT ![s] = next]
      BY <2>1 DEF open_connection
    <2> HIDE DEF a, w
    <2>3. ~ next.got /\ ~ next.cancelled
      BY DEF Rest
    <2> HIDE DEF next
    <2> QED
      BY <2>2, <2>3, MoveKeeps
  <1>3. CASE GetSlot(s) \/ (Connects(s) /\ session[s].current) \/ (ClientLeaves(s) /\ ~ leaves(s))
    <2>1. PICK w \in {"connect", "opened", "judged"} : /\ goes(s, [session[s] EXCEPT !.at = w])
                                                       /\ at(s) # "relay"
      BY <1>3 DEF GetSlot, Connects, ClientLeaves, judging
    <2> DEFINE next == [session[s] EXCEPT !.at = w]
    <2>2. next.got = session[s].got /\ next.cancelled = session[s].cancelled
      BY <1>1 DEF Records
    <2>3. session' = [session EXCEPT ![s] = next]
      BY <2>1 DEF goes
    <2> HIDE DEF next
    <2> QED
      BY <1>1, <2>1, <2>2, <2>3, MoveKeeps
  <1>4. CASE Answered(s)
    <2> DEFINE next == relaying(s)
               v == record_recv_ok(upstream, session[s])
    <2>1. verdict(s, v, next) /\ runs(s)
      BY <1>4 DEF Answered, judging
    <2>2. next \in Records /\ next.proven /\ ~ next.cancelled
      BY <1>1, <2>1 DEF relaying, Records, runs
    <2> HIDE DEF next, v
    <2> QED
      BY <2>1, <2>2, VerdictKeeps
  <1>5. CASE ConnectFails(s) \/ Silent(s) \/ JudgeAbandoned(s) \/ RawEnds(s)
    <2>1. \E v : verdict(s, v, Rest)
      BY <1>5 DEF ConnectFails, Silent, JudgeAbandoned, RawEnds, verdict_at_end
    <2> QED
      BY <2>1, RestKeeps
  <1>6. CASE LoseSlot(s) \/ ConnectRefused(s) \/ (Connects(s) /\ ~ session[s].current)
             \/ leaves(s) \/ RelayEnds(s) \/ Cancelled(s)
    BY <1>6, RestKeeps DEF LoseSlot, ConnectRefused, Connects, RelayEnds, Cancelled
  <1>7. ~ RawData(s)
    BY <1>1 DEF RawData
  <1> QED
    BY <1>2, <1>3, <1>4, <1>5, <1>6, <1>7 DEF Proceeds, Ends, BreaksOff

LEMMA KeptStep == "raw" \notin Kinds /\ Inv /\ KeptInv /\ [Next]_vars => KeptInv' /\ [Keeps]_vars
  <1> SUFFICES ASSUME "raw" \notin Kinds, Inv, KeptInv, [Next]_vars
               PROVE  KeptInv' /\ [Keeps]_vars
    OBVIOUS
  <1>1. CASE \E s \in Sessions : Begin(s) \/ Proceeds(s) \/ Ends(s) \/ BreaksOff(s)
    BY <1>1, StepKeeps
  <1>2. CASE \E list \in Choices : apply_config(list)
    <2>1. PICK list \in Choices : apply_config(list)
      BY <1>2
    <2> DEFINE u == replace_config(list)
               none == {}
               yes == TRUE
    <2>2. none \in SUBSET Sessions /\ yes \in BOOLEAN /\ \A t \in Sessions : t \notin none
      OBVIOUS
    <2>3. session' = handled(u, none, yes) /\ by_user' = TRUE
      BY <2>1 DEF apply_config
    <2> HIDE DEF u, none, yes
    <2>4. \A t \in Sessions : session'[t] = session[t] \/ session'[t] = overtaken(t, none, yes)
      BY <2>2, <2>3, HandledBy DEF Inv
    <2>5. \A t \in Sessions : /\ overtaken(t, none, yes).got = session[t].got
                              /\ overtaken(t, none, yes).proven = session[t].proven
      BY DEF overtaken, Inv, TypeOK, Records
    <2> QED
      BY <2>3, <2>4, <2>5 DEF KeptInv, Keeps
  <1>3. CASE UNCHANGED session
    BY <1>3 DEF KeptInv, Keeps, runs
  <1> QED
    BY <1>1, <1>2, <1>3 DEF Next, Tick, ServerChanges, vars

\* Without raw connections, which note what they received only when they end, a
\* connection through which data came is cut by nothing but the user's choice
\* of another server (upstream_runtime.py).
THEOREM DataAlwaysKept == "raw" \notin Kinds /\ Spec => AutomaticKeepsData
  <1> SUFFICES ASSUME "raw" \notin Kinds PROVE Spec => AutomaticKeepsData
    OBVIOUS
  <1>1. Init => KeptInv
    BY DEF Init, KeptInv, Rest
  <1>2. Inv /\ KeptInv /\ [Next]_vars => KeptInv'
    BY KeptStep
  <1>3. Inv /\ KeptInv /\ [Next]_vars
        => [\A s \in Sessions : session[s].got /\ runs(s) /\ session'[s].cancelled => by_user']_vars
    BY KeptStep DEF Keeps
  <1> QED
    BY <1>1, <1>2, <1>3, Invariant, PTL DEF Spec, AutomaticKeepsData
=============================================================================
