------------------- MODULE PresetRuntimeCoordinatorProofs -------------------
(* That whenever nothing is under way the file of the selected preset is      *)
(* watched and the preset shown as the active one, and that no write of the   *)
(* program makes the engine read a preset again as changed from outside, for  *)
(* any presets and any numbers of writes, changes and attempts.               *)
EXTENDS PresetRuntimeCoordinator, SequenceTheorems, TLAPS

-----------------------------------------------------------------------------
(* The inductive invariant *)

Texts == 0..(MaxWrites + MaxChanges)
WatchTasks == [at : {"none", "resolves", "emitted", "ended"},
               for : Presets \cup {NoPreset}, path : Files \cup {NoPreset}]
Events == [path : Files, by : {"program", "other"}]

\* Every text was written by somebody.
FilesOK == SelectionTypeOK /\ \A f \in Files : content[f] <= changes + writes

CoordinatorOK ==
    /\ last_key \in Presets \cup {NoPreset} /\ projection \in Presets
    /\ publish_pending \in BOOLEAN /\ shown \in Presets
    /\ watch \in WatchTasks /\ pending_watch \in Presets \cup {NoPreset}
    /\ setup_pending \in BOOLEAN /\ restart \in BOOLEAN
    /\ watched \in Files \cup {NoPreset} /\ armed \in BOOLEAN
    /\ events \subseteq Events
    /\ rearm \in BOOLEAN /\ attempts \in 0..MaxAttempts /\ waits \in BOOLEAN
    /\ own \subseteq Presets
    /\ suppress \in Presets \cup {NoPreset} /\ pending_content \in Presets \cup {NoPreset}
    /\ asked \subseteq {"switched", "content", "external"}
    /\ engine \in [of : Files, text : Texts]
    /\ draft \subseteq Presets

TypeInv == FilesOK /\ CoordinatorOK

\* The last signal of the kinds in K is of v, or there is none and base is v.
LastIs(q, base, K, v) ==
    IF \E i \in 1..Len(q) : q[i].kind \in K
    THEN \E i \in 1..Len(q) : /\ q[i].kind \in K /\ q[i].preset = v
                              /\ \A j \in 1..Len(q) : j > i => q[j].kind \notin K
    ELSE base = v

Shows == {"fallback", "restored", "switched"}
Switches == {"restored", "switched"}

shown_of(s, f) == IF f = NoPreset THEN s ELSE Default

\* The signals on their way end with what is to be shown and with what was
\* sent; only the selected preset is sent or missing.
SignalInv ==
    /\ sent \in {NoPreset, selected}
    /\ fallback \in {NoPreset, selected} /\ fallback # Default
    /\ LastIs(signals, projection, Shows, shown_of(selected, fallback))
    /\ LastIs(signals, last_key, Switches, sent)
    /\ ~ publish_pending => shown = projection

content_signal(q) == \E i \in 1..Len(q) : q[i].kind = "content"

\* While a save waits to be handled no other program's change is under way,
\* and the preset in use stays.
OwnInv ==
    /\ \A e \in events : e.by = "other" =>
           /\ e.path.name \notin own /\ suppress = NoPreset
           /\ pending_content = NoPreset /\ ~ content_signal(signals)
    /\ pending_content # NoPreset => pending_content = effective

\* A signal on its way that will have preset s watched.
Coming(s, q, key) ==
    \E i \in 1..Len(q) :
        /\ q[i].kind \in Switches /\ q[i].preset = s
        /\ \/ q[i].kind = "restored" \/ key # s
           \/ \E j \in 1..Len(q) : j < i /\ q[j].kind \in Switches /\ q[j].preset # s

\* A save of preset s on its way, which will have it watched again.
ContentIn(s, q) == \E i \in 1..Len(q) : q[i].kind = "content" /\ q[i].preset = s
ContentComing(s, q, pending) == pending = s \/ ContentIn(s, q)

\* The built-in file under the copy a draft has made of it.
Drafted(f) == selected \in draft /\ f = builtin(selected)

\* What the watcher's worker, and those to follow it, will have watched.
Settles ==
    IF setup_pending \/ (watch.at = "none" /\ restart) THEN pending_watch \in {NoPreset, selected}
    ELSE IF watch.at = "resolves" THEN watch.for \in {NoPreset, selected}
    ELSE IF watch.path # NoPreset THEN watch.path = file(selected) \/ Drafted(watch.path)
    ELSE (watched = file(selected) /\ (armed \/ rearm \/ events # {})) \/ Drafted(watched)

Followed ==
    \/ Coming(selected, signals, last_key)
    \/ ContentComing(selected, signals, pending_content)
    \/ Settles

WatchInv ==
    /\ watch.at = "none" => watch = NoWatch /\ ~ setup_pending
    /\ watch.at = "resolves" => watch.path = NoPreset
    /\ ~ setup_pending /\ (watch.at # "none" \/ ~ restart) => pending_watch = NoPreset
    /\ selected \in exists => Followed

outside_event == \E e \in events : e.by = "other"

files_of(p) == {user(p), builtin(p)}

\* The removal of the watched preset waits for its return; and when its file is
\* back, something will look the selection up.
ReturnInv ==
    /\ selected \notin exists /\ watch.path \in files_of(selected) => watched = watch.path
    /\ selected \notin exists /\ watched \in files_of(selected) => waits \/ outside_event
    /\ selected \in exists /\ fallback # NoPreset =>
           \/ asked # {}
           \/ /\ watch = NoWatch /\ ~ restart
              /\ watched \in files_of(selected) /\ watched \in there
              /\ (waits /\ (rearm \/ events # {})) \/ outside_event

Inv == TypeInv /\ SignalInv /\ OwnInv /\ WatchInv /\ ReturnInv

-----------------------------------------------------------------------------
(* Signals on their way *)

LEMMA Appended ==
    ASSUME NEW q \in Seq(Signals), NEW x \in Signals
    PROVE  /\ Append(q, x) \in Seq(Signals) /\ Len(q) \in Nat
           /\ Len(Append(q, x)) = Len(q) + 1
           /\ \A i \in 1..Len(q) : Append(q, x)[i] = q[i]
           /\ Append(q, x)[Len(q) + 1] = x
  BY LenProperties

LEMMA LastAppended ==
    ASSUME NEW q \in Seq(Signals), NEW x \in Signals, NEW base, NEW K, NEW v, NEW u,
           LastIs(q, base, K, v), x.kind \notin K => u = v, x.kind \in K => u = x.preset
    PROVE  LastIs(Append(q, x), base, K, u)
  <1> DEFINE r == Append(q, x)
  <1>1. /\ Len(q) \in Nat /\ Len(r) = Len(q) + 1
        /\ \A i \in 1..Len(q) : r[i] = q[i]
        /\ r[Len(q) + 1] = x
    BY Appended
  <1> HIDE DEF r
  <1>2. CASE x.kind \in K
    <2>1. Len(q) + 1 \in 1..Len(r) /\ \A j \in 1..Len(r) : ~ (j > Len(q) + 1)
      BY <1>1
    <2>2. LastIs(r, base, K, u)
      BY <1>1, <1>2, <2>1 DEF LastIs
    <2> QED
      BY <2>2 DEF r
  <1>3. CASE x.kind \notin K
    <2>1. \A i \in 1..Len(r) : i \in 1..Len(q) \/ i = Len(q) + 1
      BY <1>1
    <2>2. \A i \in 1..Len(q) : i \in 1..Len(r)
      BY <1>1
    <2>3. CASE \E i \in 1..Len(q) : q[i].kind \in K
      <3>1. PICK i \in 1..Len(q) : /\ q[i].kind \in K /\ q[i].preset = v
                                   /\ \A j \in 1..Len(q) : j > i => q[j].kind \notin K
        BY <2>3 DEF LastIs
      <3>2. /\ i \in 1..Len(r) /\ r[i].kind \in K /\ r[i].preset = v
            /\ \A j \in 1..Len(r) : j > i => r[j].kind \notin K
        BY <1>1, <1>3, <2>1, <2>2, <3>1
      <3>3. LastIs(r, base, K, u)
        BY <1>3, <3>2 DEF LastIs
      <3> QED
        BY <3>3 DEF r
    <2>4. CASE ~ \E i \in 1..Len(q) : q[i].kind \in K
      <3>1. ~ \E i \in 1..Len(r) : r[i].kind \in K
        BY <1>1, <1>3, <2>1, <2>4
      <3>2. LastIs(r, base, K, u)
        BY <1>3, <2>4, <3>1 DEF LastIs
      <3> QED
        BY <3>2 DEF r
    <2> QED
      BY <2>3, <2>4
  <1> QED
    BY <1>2, <1>3

LEMMA Tailed ==
    ASSUME NEW q \in Seq(Signals), q # <<>>
    PROVE  /\ Tail(q) \in Seq(Signals) /\ Head(q) \in Signals /\ Head(q) = q[1]
           /\ Len(q) \in Nat \ {0} /\ Len(Tail(q)) = Len(q) - 1
           /\ \A i \in 1..Len(Tail(q)) : Tail(q)[i] = q[i + 1] /\ i + 1 \in 1..Len(q)
           /\ \A i \in 1..Len(q) : i = 1 \/ (i - 1 \in 1..Len(Tail(q)) /\ Tail(q)[i - 1] = q[i])
  <1>1. /\ Tail(q) \in Seq(Signals) /\ Head(q) \in Signals /\ Len(Tail(q)) = Len(q) - 1
        /\ \A i \in 1..Len(Tail(q)) : Tail(q)[i] = q[i + 1]
    BY HeadTailProperties
  <1>2. Len(q) \in Nat \ {0}
    BY EmptySeq
  <1>3. Head(q) = q[1]
    OBVIOUS
  <1> QED
    BY <1>1, <1>2, <1>3

LEMMA LastTailed ==
    ASSUME NEW q \in Seq(Signals), q # <<>>, NEW base, NEW K, NEW v, NEW b,
           LastIs(q, base, K, v),
           Head(q).kind \in K => b = Head(q).preset, Head(q).kind \notin K => b = base
    PROVE  LastIs(Tail(q), b, K, v)
  <1> DEFINE t == Tail(q)
  <1>1. /\ Head(q) = q[1]
        /\ Len(q) \in Nat \ {0} /\ Len(t) = Len(q) - 1
        /\ \A i \in 1..Len(t) : t[i] = q[i + 1] /\ i + 1 \in 1..Len(q)
        /\ \A i \in 1..Len(q) : i = 1 \/ (i - 1 \in 1..Len(t) /\ t[i - 1] = q[i])
    BY Tailed
  <1> HIDE DEF t
  <1>2. CASE \E i \in 1..Len(t) : t[i].kind \in K
    <2>1. \E i \in 1..Len(q) : q[i].kind \in K
      BY <1>1, <1>2
    <2>2. PICK i \in 1..Len(q) : /\ q[i].kind \in K /\ q[i].preset = v
                                 /\ \A j \in 1..Len(q) : j > i => q[j].kind \notin K
      BY <2>1 DEF LastIs
    <2>3. i # 1
      <3>1. PICK k \in 1..Len(t) : t[k].kind \in K
        BY <1>2
      <3>2. k + 1 \in 1..Len(q) /\ q[k + 1].kind \in K /\ k + 1 > 1
        BY <1>1, <3>1
      <3> QED
        BY <2>2, <3>2
    <2>4. i - 1 \in 1..Len(t) /\ t[i - 1].kind \in K /\ t[i - 1].preset = v
      BY <1>1, <2>2, <2>3
    <2>5. \A j \in 1..Len(t) : j > i - 1 => t[j].kind \notin K
      <3>1. ASSUME NEW j \in 1..Len(t), j > i - 1 PROVE t[j].kind \notin K
        <4>1. j + 1 \in 1..Len(q) /\ j + 1 > i /\ t[j] = q[j + 1]
          BY <1>1, <3>1
        <4> QED
          BY <2>2, <4>1
      <3> QED
        BY <3>1
    <2>6. LastIs(t, b, K, v)
      BY <1>2, <2>4, <2>5 DEF LastIs
    <2> QED
      BY <2>6 DEF t
  <1>3. CASE ~ \E i \in 1..Len(t) : t[i].kind \in K
    <2>1. \A i \in 1..Len(q) : q[i].kind \in K => i = 1
      BY <1>1, <1>3
    <2>2. 1 \in 1..Len(q)
      BY <1>1
    <2>3. b = v
      <3>1. CASE q[1].kind \in K
        BY <1>1, <2>1, <2>2, <3>1 DEF LastIs
      <3>2. CASE q[1].kind \notin K
        BY <1>1, <2>1, <3>2 DEF LastIs
      <3> QED
        BY <3>1, <3>2
    <2>4. LastIs(t, b, K, v)
      BY <1>3, <2>3 DEF LastIs
    <2> QED
      BY <2>4 DEF t
  <1> QED
    BY <1>2, <1>3

LEMMA ComingAppended ==
    ASSUME NEW q \in Seq(Signals), NEW x \in Signals, NEW s, NEW key, Coming(s, q, key)
    PROVE  Coming(s, Append(q, x), key)
  <1> DEFINE r == Append(q, x)
  <1>1. \A i \in 1..Len(q) : i \in 1..Len(r) /\ r[i] = q[i]
    BY Appended
  <1> HIDE DEF r
  <1>2. Coming(s, r, key)
    BY <1>1 DEF Coming
  <1> QED
    BY <1>2 DEF r

LEMMA ContentAppended ==
    ASSUME NEW q \in Seq(Signals), NEW x \in Signals
    PROVE  content_signal(Append(q, x)) <=> content_signal(q) \/ x.kind = "content"
  <1> DEFINE r == Append(q, x)
  <1>1. /\ \A i \in 1..Len(q) : i \in 1..Len(r) /\ r[i] = q[i]
        /\ \A i \in 1..Len(r) : i \in 1..Len(q) \/ i = Len(q) + 1
        /\ Len(q) + 1 \in 1..Len(r) /\ r[Len(q) + 1] = x
    BY Appended
  <1> HIDE DEF r
  <1>2. content_signal(r) <=> content_signal(q) \/ x.kind = "content"
    BY <1>1 DEF content_signal
  <1> QED
    BY <1>2 DEF r

LEMMA ContentInAppended ==
    ASSUME NEW q \in Seq(Signals), NEW x \in Signals, NEW s
    PROVE  ContentIn(s, Append(q, x)) <=> ContentIn(s, q) \/ (x.kind = "content" /\ x.preset = s)
  <1> DEFINE r == Append(q, x)
  <1>1. /\ \A i \in 1..Len(q) : i \in 1..Len(r) /\ r[i] = q[i]
        /\ \A i \in 1..Len(r) : i \in 1..Len(q) \/ i = Len(q) + 1
        /\ Len(q) + 1 \in 1..Len(r) /\ r[Len(q) + 1] = x
    BY Appended
  <1> HIDE DEF r
  <1>2. ContentIn(s, r) <=> ContentIn(s, q) \/ (x.kind = "content" /\ x.preset = s)
    BY <1>1 DEF ContentIn
  <1> QED
    BY <1>2 DEF r

\* The news follow what is on its way.
LEMMA NewsAppended ==
    ASSUME NEW q \in Seq(Signals), selected \in Presets
    PROVE  q \o news = IF restored THEN Append(Append(q, signal("restored", selected)),
                                               signal("switched", selected))
                       ELSE IF replaced THEN Append(q, signal("fallback", Default)) ELSE q
  <1>1. /\ signal("restored", selected) \in Signals /\ signal("switched", selected) \in Signals
        /\ signal("fallback", Default) \in Signals
    BY SelectionAssumption DEF signal, Signals
  <1>2. \A x \in Signals : q \o <<x>> = Append(q, x)
    BY AppendIsConcat
  <1>3. \A x, y \in Signals : q \o <<x, y>> = Append(Append(q, x), y)
    <2>1. ASSUME NEW x \in Signals, NEW y \in Signals PROVE q \o <<x, y>> = Append(Append(q, x), y)
      <3>1. <<x, y>> = <<x>> \o <<y>> /\ <<x>> \in Seq(Signals) /\ <<y>> \in Seq(Signals)
        <4>1. <<x>> \in Seq(Signals) /\ <<y>> \in Seq(Signals) /\ <<x, y>> = Append(<<x>>, y)
          OBVIOUS
        <4> QED
          BY <4>1, AppendIsConcat
      <3>2. q \o <<x, y>> = (q \o <<x>>) \o <<y>>
        BY <3>1, ConcatAssociative
      <3>3. q \o <<x>> \in Seq(Signals)
        BY <3>1, ConcatProperties
      <3> QED
        BY <1>2, <3>2, <3>3, AppendIsConcat
    <2> QED
      BY <2>1
  <1>4. q \o <<>> = q
    BY ConcatEmptySeq
  <1> QED
    BY <1>1, <1>2, <1>3, <1>4 DEF news

\* A look-up leaves the signals telling what is shown and what was sent.
LEMMA LooksUp ==
    ASSUME NEW q \in Seq(Signals), NEW b, NEW k,
           exists \subseteq Presets, selected \in Presets, Default \in exists,
           sent \in {NoPreset, selected}, fallback \in {NoPreset, selected}, fallback # Default,
           LastIs(q, b, Shows, shown_of(selected, fallback)), LastIs(q, k, Switches, sent)
    PROVE  LET n == q \o news
           IN  /\ n \in Seq(Signals)
               /\ LastIs(n, b, Shows, shown_of(selected, missing)) /\ LastIs(n, k, Switches, told)
               /\ told \in {NoPreset, selected}
               /\ missing \in {NoPreset, selected} /\ missing # Default
               /\ selected \in exists => missing = NoPreset
               /\ content_signal(n) <=> content_signal(q)
               /\ \A s, key : Coming(s, q, key) => Coming(s, n, key)
               /\ \A s : ContentIn(s, q) => ContentIn(s, n)
  <1> DEFINE rs == signal("restored", selected)
             sw == signal("switched", selected)
             fb == signal("fallback", Default)
  <1>1. /\ rs \in Signals /\ rs.kind = "restored" /\ rs.preset = selected
        /\ sw \in Signals /\ sw.kind = "switched" /\ sw.preset = selected
        /\ fb \in Signals /\ fb.kind = "fallback" /\ fb.preset = Default
    BY SelectionAssumption DEF signal, Signals
  <1> HIDE DEF rs, sw, fb
  <1>2. /\ told \in {NoPreset, selected}
        /\ missing \in {NoPreset, selected} /\ missing # Default
        /\ selected \in exists => missing = NoPreset
    BY SelectionAssumption DEF told, missing, restored, replaced
  <1>3. CASE restored
    <2> DEFINE a == Append(q, rs)
    <2>1. q \o news = Append(a, sw)
      BY <1>3, NewsAppended DEF rs, sw
    <2>2. a \in Seq(Signals)
      BY <1>1, Appended
    <2>3. LastIs(a, b, Shows, selected) /\ LastIs(a, k, Switches, selected)
      BY <1>1, LastAppended DEF Shows, Switches
    <2>4. content_signal(a) <=> content_signal(q)
      BY <1>1, ContentAppended
    <2>5. \A s, key : Coming(s, q, key) => Coming(s, a, key)
      BY <1>1, ComingAppended
    <2> HIDE DEF a
    <2>6. Append(a, sw) \in Seq(Signals)
      BY <1>1, <2>2, Appended
    <2>7. LastIs(Append(a, sw), b, Shows, selected) /\ LastIs(Append(a, sw), k, Switches, selected)
      BY <1>1, <2>2, <2>3, LastAppended DEF Shows, Switches
    <2>8. content_signal(Append(a, sw)) <=> content_signal(q)
      BY <1>1, <2>2, <2>4, ContentAppended
    <2>9. \A s, key : Coming(s, q, key) => Coming(s, Append(a, sw), key)
      BY <1>1, <2>2, <2>5, ComingAppended
    <2>10. missing = NoPreset /\ told = selected
      BY <1>3 DEF missing, told
    <2>11. \A s : ContentIn(s, q) => ContentIn(s, a)
      BY <1>1, ContentInAppended DEF a
    <2>12. \A s : ContentIn(s, q) => ContentIn(s, Append(a, sw))
      BY <1>1, <2>2, <2>11, ContentInAppended
    <2> QED
      BY <1>2, <2>1, <2>6, <2>7, <2>8, <2>9, <2>10, <2>12 DEF shown_of
  <1>4. CASE ~ restored /\ replaced
    <2>1. q \o news = Append(q, fb)
      BY <1>4, NewsAppended DEF fb
    <2>2. Append(q, fb) \in Seq(Signals)
      BY <1>1, Appended
    <2>3. LastIs(Append(q, fb), b, Shows, Default) /\ LastIs(Append(q, fb), k, Switches, sent)
      BY <1>1, LastAppended DEF Shows, Switches
    <2>4. content_signal(Append(q, fb)) <=> content_signal(q)
      BY <1>1, ContentAppended
    <2>5. \A s, key : Coming(s, q, key) => Coming(s, Append(q, fb), key)
      BY <1>1, ComingAppended
    <2>6. missing = selected /\ told = sent /\ selected # NoPreset
      BY <1>4, SelectionAssumption DEF missing, told
    <2>7. \A s : ContentIn(s, q) => ContentIn(s, Append(q, fb))
      BY <1>1, ContentInAppended
    <2> QED
      BY <1>2, <2>1, <2>2, <2>3, <2>4, <2>5, <2>6, <2>7 DEF shown_of
  <1>5. CASE ~ restored /\ ~ replaced
    <2>1. q \o news = q /\ missing = fallback /\ told = sent
      BY <1>5, NewsAppended DEF missing, told
    <2> QED
      BY <1>2, <2>1
  <1> QED
    BY <1>3, <1>4, <1>5


-----------------------------------------------------------------------------
(* Types *)

\* A preset and its files.
LEMMA FileFacts ==
    ASSUME NEW p \in Presets
    PROVE  /\ user(p) \in Files /\ builtin(p) \in Files /\ file(p) \in files_of(p)
           /\ user(p).name = p /\ builtin(p).name = p /\ user(p) # builtin(p)
           /\ p \in exists => file(p) \in there
           /\ NoPreset \notin files_of(p) /\ files_of(p) \subseteq Files
           /\ \A f \in Files : f.name = p <=> f \in files_of(p)
  <1>1. user(p) \in Files /\ builtin(p) \in Files /\ user(p).name = p /\ builtin(p).name = p
        /\ user(p).scope = "user" /\ builtin(p).scope = "builtin"
    BY DEF Files, user, builtin
  <1>2. \A f \in Files : f = [name |-> f.name, scope |-> f.scope] /\ f.scope \in {"user", "builtin"}
    BY DEF Files
  <1>3. \A f \in Files : f.name = p => f \in files_of(p)
    BY <1>2 DEF files_of, user, builtin
  <1> QED
    BY <1>1, <1>3, SelectionAssumption DEF files_of, file, exists

LEMMA PresetFacts ==
    ASSUME FilesOK
    PROVE  exists \subseteq Presets /\ Default \in exists /\ selected \in Presets
           /\ signals \in Seq(Signals)
  BY SelectionAssumption DEF FilesOK, SelectionTypeOK, exists

LEMMA NewsType ==
    ASSUME FilesOK, NEW q \in Seq(Signals)
    PROVE  /\ q \o news \in Seq(Signals) /\ effective \in Presets /\ file(effective) \in Files
           /\ missing \in Presets \cup {NoPreset} /\ told \in Presets \cup {NoPreset}
  <1>1. selected \in Presets /\ signal("restored", selected) \in Signals
        /\ signal("switched", selected) \in Signals /\ signal("fallback", Default) \in Signals
    BY SelectionAssumption DEF FilesOK, SelectionTypeOK, signal, Signals
  <1>2. q \o news \in Seq(Signals)
    BY <1>1, NewsAppended, Appended
  <1>3. effective \in Presets
    BY PresetFacts DEF effective
  <1>4. file(effective) \in Files
    BY <1>3, FileFacts
  <1> QED
    BY <1>1, <1>2, <1>3, <1>4, SelectionAssumption
       DEF FilesOK, SelectionTypeOK, missing, told, restored, replaced

LEMMA FilesKept ==
    ASSUME FilesOK, UNCHANGED selectionVars
    PROVE  FilesOK'
  BY DEF FilesOK, SelectionTypeOK, selectionVars, countVars

\* What a look-up keeps.
LEMMA LookUpType ==
    ASSUME FilesOK, ensure_selected_manifest
    PROVE  FilesOK'
  <1>1. /\ signals \o news \in Seq(Signals)
        /\ missing \in Presets \cup {NoPreset} /\ told \in Presets \cup {NoPreset}
    BY NewsType DEF FilesOK, SelectionTypeOK
  <1> QED
    BY <1>1 DEF FilesOK, SelectionTypeOK, ensure_selected_manifest, fileVars, countVars

LEMMA TextType ==
    ASSUME FilesOK, NEW f \in Files
    PROVE  content[f] \in Texts
  BY DEF FilesOK, SelectionTypeOK, Texts

LEMMA ScheduleType ==
    ASSUME CoordinatorOK, NEW p \in Presets, schedule_watch_setup(p)
    PROVE  /\ watch' \in WatchTasks /\ pending_watch' \in Presets \cup {NoPreset}
           /\ setup_pending' \in BOOLEAN /\ restart' \in BOOLEAN
  BY DEF CoordinatorOK, schedule_watch_setup, NoWatch, WatchTasks

LEMMA ArmedType ==
    ASSUME CoordinatorOK, NEW n \in 0..MaxAttempts, ensure_watch_armed(n)
    PROVE  armed' \in BOOLEAN /\ attempts' \in 0..MaxAttempts /\ rearm' \in BOOLEAN
  <1>1. MaxAttempts \in Nat
    BY CoordinatorAssumption
  <1>2. n \in Nat /\ n <= MaxAttempts
    BY <1>1
  <1>3. CASE watched \in there
    <2>1. armed' = TRUE /\ attempts' = 0 /\ rearm' = FALSE
      BY <1>3 DEF ensure_watch_armed
    <2>2. 0 \in 0..MaxAttempts
      BY <1>1
    <2> QED
      BY <2>1, <2>2
  <1>4. CASE watched \notin there /\ (watched = NoPreset \/ n >= MaxAttempts)
    BY <1>4 DEF ensure_watch_armed
  <1>5. CASE watched \notin there /\ ~ (watched = NoPreset \/ n >= MaxAttempts)
    <2>1. n + 1 \in 0..MaxAttempts
      BY <1>1, <1>2, <1>5
    <2> QED
      BY <1>5, <2>1 DEF ensure_watch_armed
  <1> QED
    BY <1>3, <1>4, <1>5

LEMMA SwitchType ==
    ASSUME CoordinatorOK, NEW p \in Presets, NEW key, switch_to(p, key)
    PROVE  /\ last_key' \in Presets \cup {NoPreset} /\ projection' \in Presets
           /\ publish_pending' \in BOOLEAN /\ shown' \in Presets
           /\ watch' \in WatchTasks /\ pending_watch' \in Presets \cup {NoPreset}
           /\ setup_pending' \in BOOLEAN /\ restart' \in BOOLEAN
           /\ asked' \subseteq {"switched", "content", "external"}
  BY ScheduleType DEF CoordinatorOK, switch_to, publish, publishVars, setupVars

LEMMA SignalType ==
    ASSUME TypeInv, HandleSignal
    PROVE  TypeInv'
  <1> DEFINE s == Head(signals)
  <1>1. /\ signals # <<>> /\ signals \in Seq(Signals) /\ Tail(signals) \in Seq(Signals) /\ s \in Signals
        /\ s.preset \in Presets
    BY Tailed DEF HandleSignal, TypeInv, FilesOK, SelectionTypeOK, Signals
  <1>2. /\ Tail(signals) \o news \in Seq(Signals) /\ Tail(signals) \o <<>> = Tail(signals)
        /\ missing \in Presets \cup {NoPreset} /\ told \in Presets \cup {NoPreset}
    BY <1>1, NewsType, ConcatEmptySeq DEF TypeInv
  <1>3. /\ signals' = Tail(signals) \o (IF s.kind = "content" THEN news ELSE <<>>)
        /\ UNCHANGED <<watcherVars, events, engine, draft>>
    BY DEF HandleSignal
  <1>4. signals' \in Seq(Signals)
    BY <1>1, <1>2, <1>3
  <1>5. CASE handle_preset_switched(s.preset) \/ handle_selection_restored(s.preset)
    <2>1. PICK key : switch_to(s.preset, key)
      BY <1>5 DEF handle_preset_switched, handle_selection_restored
    <2> HIDE DEF s
    <2>2. UNCHANGED <<there, content, selected, fallback, sent, changes, writes, own, suppress,
                      pending_content>>
      BY <2>1 DEF switch_to, fileVars, countVars, ownVars
    <2>3. FilesOK'
      BY <1>4, <2>2 DEF TypeInv, FilesOK, SelectionTypeOK
    <2>4. CoordinatorOK'
      BY <1>1, <1>3, <2>1, <2>2, SwitchType
         DEF TypeInv, CoordinatorOK, watcherVars
    <2> QED
      BY <2>3, <2>4 DEF TypeInv
  <1>6. CASE handle_selection_fallback(s.preset)
    <2> HIDE DEF s
    <2>1. FilesOK'
      BY <1>4, <1>6 DEF handle_selection_fallback, TypeInv, FilesOK, SelectionTypeOK, fileVars,
         countVars
    <2>2. CoordinatorOK'
      BY <1>1, <1>3, <1>6
         DEF handle_selection_fallback, publish, TypeInv, CoordinatorOK, watcherVars, setupVars, ownVars
    <2> QED
      BY <2>1, <2>2 DEF TypeInv
  <1>7. CASE handle_preset_content_changed(s.preset)
    <2> HIDE DEF s
    <2>1. FilesOK'
      BY <1>2, <1>4, <1>7
         DEF handle_preset_content_changed, TypeInv, FilesOK, SelectionTypeOK, fileVars,
                              countVars
    <2>2. CoordinatorOK'
      BY <1>1, <1>3, <1>7
         DEF handle_preset_content_changed, TypeInv, CoordinatorOK, watcherVars, publishVars, setupVars
    <2> QED
      BY <2>1, <2>2 DEF TypeInv
  <1> QED
    BY <1>5, <1>6, <1>7 DEF HandleSignal

LEMMA ProgramType ==
    ASSUME TypeInv, Program
    PROVE  TypeInv'
  <1> FilesOK /\ CoordinatorOK
    BY DEF TypeInv
  <1>1. CASE publish_active_preset_revision
    <2>1. CoordinatorOK'
      BY <1>1 DEF publish_active_preset_revision, CoordinatorOK, setupVars, watcherVars, ownVars,
         engineVars
    <2> QED
      BY <1>1, <2>1, FilesKept DEF publish_active_preset_revision, TypeInv
  <1>2. CASE apply_pending_preset_content_change
    <2>1. pending_content \in Presets
      BY <1>2 DEF apply_pending_preset_content_change, CoordinatorOK
    <2>2. /\ watch' \in WatchTasks /\ pending_watch' \in Presets \cup {NoPreset}
          /\ setup_pending' \in BOOLEAN /\ restart' \in BOOLEAN
      BY <1>2, <2>1, ScheduleType DEF apply_pending_preset_content_change
    <2>3. CoordinatorOK'
      BY <1>2, <2>1, <2>2
         DEF apply_pending_preset_content_change, CoordinatorOK, publishVars, watcherVars
    <2> QED
      BY <1>2, <2>3, FilesKept DEF apply_pending_preset_content_change, TypeInv
  <1>3. CASE resolve_path
    <2>1. watch' \in WatchTasks
      <3>1. file(effective) \in Files /\ \A p \in Presets : file(p) \in Files
        BY NewsType, FileFacts DEF FilesOK, SelectionTypeOK
      <3>2. watch.for # NoPreset => watch.for \in Presets
        BY DEF CoordinatorOK, WatchTasks
      <3> QED
        BY <1>3, <3>1, <3>2 DEF resolve_path, CoordinatorOK, WatchTasks
    <2>2. FilesOK'
      BY <1>3, LookUpType, FilesKept DEF resolve_path
    <2>3. CoordinatorOK'
      BY <1>3, <2>1 DEF resolve_path, CoordinatorOK, publishVars, watcherVars, ownVars, engineVars
    <2> QED
      BY <2>2, <2>3 DEF TypeInv
  <1>4. CASE WatchWorkerEnds \/ on_watch_worker_finished \/ start_watch_worker
    <2>1. watch' \in WatchTasks
      <3>1. CASE WatchWorkerEnds
        BY <3>1 DEF WatchWorkerEnds, CoordinatorOK, WatchTasks
      <3>2. CASE on_watch_worker_finished
        BY <3>2 DEF on_watch_worker_finished, NoWatch, WatchTasks
      <3>3. CASE start_watch_worker
        BY <3>3 DEF start_watch_worker, NoWatch, CoordinatorOK, WatchTasks
      <3> QED
        BY <1>4, <3>1, <3>2, <3>3
    <2>2. CoordinatorOK'
      BY <1>4, <2>1 DEF WatchWorkerEnds, on_watch_worker_finished, start_watch_worker, CoordinatorOK,
                publishVars, watcherVars, ownVars, engineVars
    <2>3. UNCHANGED selectionVars
      BY <1>4 DEF WatchWorkerEnds, on_watch_worker_finished, start_watch_worker
    <2> QED
      BY <2>2, <2>3, FilesKept DEF TypeInv
  <1>5. CASE on_watch_path_loaded
    <2>1. watch' \in WatchTasks /\ watch.path \in Files
      BY <1>5 DEF on_watch_path_loaded, CoordinatorOK, WatchTasks
    <2>2. /\ watched' \in Files \cup {NoPreset} /\ armed' \in BOOLEAN
          /\ attempts' \in 0..MaxAttempts /\ rearm' \in BOOLEAN /\ waits' \in BOOLEAN
      <3>1. 0 \in 0..MaxAttempts
        BY CoordinatorAssumption
      <3> QED
        <4>1. CASE UNCHANGED watcherVars
          BY <4>1 DEF watcherVars, CoordinatorOK
        <4>2. CASE apply_watch_path(watch.path)
          BY <2>1, <3>1, <4>2 DEF apply_watch_path, CoordinatorOK
        <4> QED
          BY <1>5, <4>1, <4>2 DEF on_watch_path_loaded
    <2>3. CoordinatorOK'
      BY <1>5, <2>1, <2>2 DEF on_watch_path_loaded, CoordinatorOK, publishVars, ownVars, engineVars
    <2> QED
      BY <1>5, <2>3, FilesKept DEF on_watch_path_loaded, TypeInv
  <1>6. CASE RearmTimer
    <2>1. armed' \in BOOLEAN /\ attempts' \in 0..MaxAttempts /\ rearm' \in BOOLEAN
      BY <1>6, ArmedType DEF RearmTimer, CoordinatorOK
    <2>2. waits' \in BOOLEAN /\ asked' \subseteq {"switched", "content", "external"}
      BY <1>6 DEF RearmTimer, CoordinatorOK
    <2>3. CoordinatorOK'
      BY <1>6, <2>1, <2>2 DEF RearmTimer, CoordinatorOK, publishVars, setupVars, ownVars
    <2> QED
      BY <1>6, <2>3, FilesKept DEF RearmTimer, TypeInv
  <1>7. CASE \E e \in events : on_active_preset_file_changed(e)
    <2>1. PICK e \in events : on_active_preset_file_changed(e)
      BY <1>7
    <2>2. armed' \in BOOLEAN /\ attempts' \in 0..MaxAttempts /\ rearm' \in BOOLEAN
      <3>1. 0 \in 0..MaxAttempts
        BY CoordinatorAssumption
      <3> QED
        BY <2>1, <3>1, ArmedType DEF on_active_preset_file_changed
    <2>3. /\ waits' \in BOOLEAN /\ asked' \subseteq {"switched", "content", "external"}
          /\ events' \subseteq Events
      BY <2>1 DEF on_active_preset_file_changed, CoordinatorOK
    <2>4. CoordinatorOK'
      BY <2>1, <2>2, <2>3
         DEF on_active_preset_file_changed, CoordinatorOK, publishVars, setupVars, ownVars
    <2> QED
      BY <2>1, <2>4, FilesKept DEF on_active_preset_file_changed, TypeInv
  <1>8. CASE EngineApplies
    <2>1. file(effective) \in Files
      BY NewsType DEF FilesOK, SelectionTypeOK
    <2>2. engine' \in [of : Files, text : Texts]
      BY <1>8, <2>1, TextType DEF EngineApplies
    <2>3. CoordinatorOK'
      BY <1>8, <2>2 DEF EngineApplies, CoordinatorOK, publishVars, setupVars, watcherVars, ownVars
    <2> QED
      BY <1>8, <2>3, LookUpType DEF EngineApplies, TypeInv
  <1>9. CASE SuppressExpires \/ \E p \in own : OwnWriteExpires(p)
    <2>1. CoordinatorOK' /\ UNCHANGED selectionVars
      BY <1>9 DEF SuppressExpires, OwnWriteExpires, CoordinatorOK, publishVars, setupVars,
         watcherVars, engineVars
    <2> QED
      BY <2>1, FilesKept DEF TypeInv
  <1> QED
    BY <1>1, <1>2, <1>3, <1>4, <1>5, <1>6, <1>7, <1>8, <1>9, SignalType DEF Program

LEMMA EnvironmentType ==
    ASSUME TypeInv, Environment
    PROVE  TypeInv'
  <1> FilesOK /\ CoordinatorOK
    BY DEF TypeInv
  <1>1. CASE PageLooksUp
    <2>1. CoordinatorOK'
      BY <1>1 DEF PageLooksUp, CoordinatorOK, publishVars, setupVars, watcherVars, ownVars, engineVars
    <2> QED
      BY <1>1, <2>1, LookUpType DEF PageLooksUp, TypeInv
  <1>2. ASSUME NEW p \in Presets, Selects(p)
        PROVE  TypeInv'
    <2>1. /\ signals \o news \in Seq(Signals) /\ told \in Presets \cup {NoPreset}
          /\ signal("switched", p) \in Signals
      BY NewsType DEF FilesOK, SelectionTypeOK, signal, Signals
    <2>2. signals \o news \o <<signal("switched", p)>> \in Seq(Signals)
      BY <2>1, AppendIsConcat, Appended
    <2>3. /\ signals' \in Seq(Signals) /\ sent' \in Presets \cup {NoPreset} /\ fallback' = NoPreset
          /\ selected' = p /\ UNCHANGED <<there, content, writes>> /\ changes < MaxChanges
          /\ changes' = changes + 1
      BY <1>2, <2>1, <2>2 DEF Selects, select_file_name, fileVars
    <2>4. SelectionTypeOK'
      BY <2>3, SelectionAssumption DEF FilesOK, SelectionTypeOK
    <2>5. \A f \in Files : content'[f] <= changes' + writes'
      BY <2>3, SelectionAssumption DEF FilesOK, SelectionTypeOK
    <2>6. CoordinatorOK'
      BY <1>2 DEF Selects, CoordinatorOK, publishVars, setupVars, watcherVars, ownVars, engineVars
    <2> QED
      BY <2>4, <2>5, <2>6 DEF TypeInv, FilesOK
  <1>3. ASSUME NEW p \in Presets, NEW b \in BOOLEAN, Saves(p, b)
        PROVE  TypeInv'
    <2>1. /\ signals \o news \in Seq(Signals) /\ told \in Presets \cup {NoPreset}
          /\ missing \in Presets \cup {NoPreset} /\ signal("content", p) \in Signals
      BY NewsType DEF FilesOK, SelectionTypeOK, signal, Signals
    <2>2. signals \o news \o <<signal("content", p)>> \in Seq(Signals)
      BY <2>1, AppendIsConcat, Appended
    <2>3. /\ signals' \in Seq(Signals) /\ fallback' \in Presets \cup {NoPreset}
          /\ sent' \in Presets \cup {NoPreset}
          /\ UNCHANGED <<selected, changes>> /\ writes < MaxWrites /\ writes' = writes + 1
          /\ content' = [content EXCEPT ![user(p)] = @ + 1] /\ there' = there \cup {user(p)}
      BY <1>3, <2>1, <2>2 DEF Saves, save_source_text, publish_content, FilesOK, SelectionTypeOK
    <2>4. \A f \in Files : content[f] \in Nat /\ content[f] <= changes + writes
      BY SelectionAssumption DEF FilesOK, SelectionTypeOK
    <2>5. \A f \in Files : content'[f] \in Nat /\ content'[f] <= changes' + writes'
      BY <2>3, <2>4, SelectionAssumption DEF FilesOK, SelectionTypeOK
    <2>6. SelectionTypeOK'
      <3>1. changes' \in 0..MaxChanges /\ writes' \in 0..MaxWrites
        BY <2>3, SelectionAssumption DEF FilesOK, SelectionTypeOK
      <3>2. \A f \in Files : content'[f] \in 0..(MaxWrites + MaxChanges)
        BY <2>5, <3>1, SelectionAssumption
      <3>3. content' \in [Files -> 0..(MaxWrites + MaxChanges)]
        BY <2>3, <3>2 DEF FilesOK, SelectionTypeOK
      <3>4. there' \subseteq Files /\ builtin(Default) \in there'
        BY <2>3, FileFacts DEF FilesOK, SelectionTypeOK
      <3>5. UNCHANGED selected
        BY <2>3
      <3> QED
        BY <2>3, <3>1, <3>3, <3>4, <3>5 DEF FilesOK, SelectionTypeOK
    <2>7. events' \subseteq Events
      BY <1>3, FileFacts DEF Saves, noticed, CoordinatorOK, Events
    <2>8. CoordinatorOK'
      BY <1>3, <2>7 DEF Saves, CoordinatorOK, publishVars, setupVars, watcherVars
    <2> QED
      BY <2>5, <2>6, <2>8 DEF TypeInv, FilesOK
  <1>4. ASSUME NEW f \in Files, ForeignEdit(f) \/ ForeignDelete(f) \/ ForeignReturn(f)
        PROVE  TypeInv'
    <2>1. /\ UNCHANGED <<selected, fallback, sent, signals, writes>> /\ changes < MaxChanges
          /\ changes' = changes + 1 /\ there' \subseteq Files /\ builtin(Default) \in there'
          /\ content' \in {content, [content EXCEPT ![f] = @ + 1]}
      BY <1>4 DEF ForeignEdit, ForeignDelete, ForeignReturn, foreign_change, FilesOK, SelectionTypeOK
    <2>2. \A g \in Files : content[g] \in Nat /\ content[g] <= changes + writes
      BY SelectionAssumption DEF FilesOK, SelectionTypeOK
    <2>3. \A g \in Files : content'[g] \in Nat /\ content'[g] <= changes' + writes'
      BY <2>1, <2>2, SelectionAssumption DEF FilesOK, SelectionTypeOK
    <2>4. SelectionTypeOK'
      <3>1. changes' \in 0..MaxChanges /\ writes' \in 0..MaxWrites
        BY <2>1, SelectionAssumption DEF FilesOK, SelectionTypeOK
      <3>2. \A g \in Files : content'[g] \in 0..(MaxWrites + MaxChanges)
        BY <2>3, <3>1, SelectionAssumption
      <3>3. content' \in [Files -> 0..(MaxWrites + MaxChanges)]
        BY <2>1, <3>2 DEF FilesOK, SelectionTypeOK
      <3> QED
        BY <2>1, <3>1, <3>3 DEF FilesOK, SelectionTypeOK
    <2>5. events' \subseteq Events
      BY <1>4 DEF ForeignEdit, ForeignDelete, ForeignReturn, noticed, CoordinatorOK, Events
    <2>6. armed' \in BOOLEAN
      BY <1>4 DEF ForeignEdit, ForeignDelete, ForeignReturn, watcherVars, CoordinatorOK
    <2>7. CoordinatorOK'
      BY <1>4, <2>5, <2>6 DEF ForeignEdit, ForeignDelete, ForeignReturn, CoordinatorOK, publishVars,
         setupVars, watcherVars, ownVars, engineVars
    <2> QED
      BY <2>3, <2>4, <2>7 DEF TypeInv, FilesOK
  <1>5. ASSUME NEW p \in Presets, Commits(p)
        PROVE  TypeInv'
    <2>1. /\ signals \o news \in Seq(Signals) /\ told \in Presets \cup {NoPreset}
          /\ missing \in Presets \cup {NoPreset} /\ signal("content", p) \in Signals
      BY NewsType DEF FilesOK, SelectionTypeOK, signal, Signals
    <2>2. signals \o news \o <<signal("content", p)>> \in Seq(Signals)
      BY <2>1, AppendIsConcat, Appended
    <2>3. FilesOK'
      BY <1>5, <2>1, <2>2 DEF Commits, commit_draft, publish_content, FilesOK, SelectionTypeOK,
         fileVars, countVars
    <2>4. CoordinatorOK'
      BY <1>5 DEF Commits, CoordinatorOK, publishVars, setupVars, watcherVars, ownVars
    <2> QED
      BY <2>3, <2>4 DEF TypeInv
  <1> QED
    BY <1>1, <1>2, <1>3, <1>4, <1>5 DEF Environment

LEMMA InitType ==
    ASSUME Init
    PROVE  TypeInv
  <1>1. 0 \in 0..MaxAttempts /\ 0 \in Texts /\ 0 \in 0..MaxChanges /\ 0 \in 0..MaxWrites
    BY SelectionAssumption, CoordinatorAssumption DEF Texts
  <1>2. SelectionTypeOK
    BY <1>1, SelectionAssumption DEF Init, SelectionInit, SelectionTypeOK, Texts
  <1>3. \A f \in Files : content[f] <= changes + writes
    <2>1. content = [f \in Files |-> 0] /\ changes = 0 /\ writes = 0
      BY DEF Init, SelectionInit
    <2>2. 0 <= changes + writes
      BY <2>1
    <2>3. \A f \in Files : content[f] = 0
      BY <2>1
    <2> QED
      BY <2>2, <2>3
  <1>4. CoordinatorOK
    BY <1>1, FileFacts DEF Init, SelectionInit, CoordinatorOK, NoWatch, WatchTasks, files_of
  <1> QED
    BY <1>2, <1>3, <1>4 DEF TypeInv, FilesOK

LEMMA TypeKept ==
    ASSUME TypeInv, [Next]_vars
    PROVE  TypeInv'
  <1>1. CASE UNCHANGED vars
    <2>1. UNCHANGED selectionVars
      BY <1>1 DEF vars
    <2>2. CoordinatorOK'
      BY <1>1 DEF vars, publishVars, setupVars, watcherVars, ownVars, engineVars, TypeInv, CoordinatorOK
    <2> QED
      BY <2>1, <2>2, FilesKept DEF TypeInv
  <1> QED
    BY <1>1, ProgramType, EnvironmentType DEF Next

\* The variables of the coordinator and of the selection keep their types; in
\* particular no preset is written oftener than the bounds allow and the
\* watcher is set again no more than PRESET_WATCH_REARM_MAX_ATTEMPTS times.
THEOREM TypeCorrect == Spec => []TypeOK
  <1>1. TypeInv => TypeOK
    BY DEF TypeInv, FilesOK, CoordinatorOK, TypeOK, Texts, WatchTasks, Events
  <1> QED
    BY <1>1, InitType, TypeKept, PTL DEF Spec

-----------------------------------------------------------------------------
(* What the steps keep of the signals *)

NoRace == {"own", "gap", "shadow", "late", "timer"} \cap Windows = {}

signalVars == <<signals, sent, selected, fallback, last_key, projection, publish_pending, shown>>

LEMMA SignalFrame ==
    ASSUME SignalInv, UNCHANGED signalVars
    PROVE  SignalInv'
  BY DEF SignalInv, signalVars

LEMMA ThereKept ==
    ASSUME UNCHANGED there
    PROVE  exists' = exists /\ \A p : file(p)' = file(p)
  BY DEF exists, file

LEMMA SelectedKept ==
    ASSUME UNCHANGED <<there, selected>>
    PROVE  UNCHANGED <<exists, file(selected)>>
  BY DEF exists, file

LEMMA OwnFrame ==
    ASSUME OwnInv, UNCHANGED <<signals, selected, there, suppress, pending_content>>,
           own' \subseteq own, events' \subseteq events
    PROVE  OwnInv'
  BY ThereKept DEF OwnInv, effective

LEMMA WatchFrame ==
    ASSUME WatchInv,
           UNCHANGED <<signals, selected, there, last_key, setupVars, watched, armed, rearm, events,
                       pending_content, draft>>
    PROVE  WatchInv'
  BY ThereKept DEF WatchInv, Followed, ContentComing, Settles, Drafted, setupVars

LEMMA FollowedKept ==
    ASSUME UNCHANGED <<signals, selected, there, last_key, pending_content>>,
           selected \in exists => Followed,
           selected \in exists /\ Settles => Settles'
    PROVE  selected' \in exists' => Followed'
  BY ThereKept DEF Followed, ContentComing

LEMMA ReturnFrame ==
    ASSUME ReturnInv,
           UNCHANGED <<selected, there, fallback, watch, restart, watched, waits, rearm, events,
                       asked>>
    PROVE  ReturnInv'
  BY ThereKept DEF ReturnInv, outside_event

\* A look-up keeps what the signals tell, and finds the selected file back.
LEMMA LookUpKeeps ==
    ASSUME TypeInv, SignalInv, OwnInv, ensure_selected_manifest,
           UNCHANGED <<last_key, projection, publish_pending, shown, events, ownVars>>
    PROVE  /\ SignalInv' /\ OwnInv'
           /\ UNCHANGED <<selected, there>>
           /\ selected \in exists => fallback' = NoPreset
           /\ \A s, key : Coming(s, signals, key) => Coming(s, signals', key)
           /\ \A s : ContentIn(s, signals) => ContentIn(s, signals')
  <1>1. /\ exists \subseteq Presets /\ selected \in Presets /\ Default \in exists
        /\ signals \in Seq(Signals)
    BY PresetFacts DEF TypeInv
  <1>2. /\ UNCHANGED <<selected, there>> /\ fallback' = missing /\ sent' = told
        /\ signals' = signals \o news
    BY DEF ensure_selected_manifest, fileVars
  <1>3. /\ LastIs(signals', projection, Shows, shown_of(selected, missing))
        /\ LastIs(signals', last_key, Switches, told)
        /\ told \in {NoPreset, selected}
        /\ missing \in {NoPreset, selected} /\ missing # Default
        /\ selected \in exists => missing = NoPreset
        /\ content_signal(signals') <=> content_signal(signals)
        /\ \A s, key : Coming(s, signals, key) => Coming(s, signals', key)
        /\ \A s : ContentIn(s, signals) => ContentIn(s, signals')
    BY <1>1, <1>2, LooksUp DEF SignalInv
  <1>4. SignalInv'
    BY <1>2, <1>3 DEF SignalInv
  <1>5. OwnInv'
    BY <1>2, <1>3, ThereKept DEF OwnInv, effective, ownVars
  <1> QED
    BY <1>2, <1>3, <1>4, <1>5

\* With the selected preset looked up the watcher will still have it.
LEMMA LookUpWatch ==
    ASSUME TypeInv, SignalInv, OwnInv, WatchInv, ReturnInv, ensure_selected_manifest,
           UNCHANGED <<last_key, publishVars, setupVars, watcherVars, events, ownVars, draft>>
    PROVE  WatchInv' /\ ReturnInv'
  <1>1. /\ UNCHANGED <<selected, exists>> /\ \A p : file(p)' = file(p)
        /\ UNCHANGED there
        /\ selected \in exists => fallback' = NoPreset
        /\ Coming(selected, signals, last_key) => Coming(selected, signals', last_key)
        /\ ContentIn(selected, signals) => ContentIn(selected, signals')
    BY LookUpKeeps, ThereKept DEF publishVars
  <1>2. UNCHANGED <<last_key, watch, pending_watch, setup_pending, restart, watched, armed, rearm,
                    waits, events, pending_content, draft>>
    BY DEF setupVars, watcherVars, ownVars
  <1>3. WatchInv'
    BY <1>1, <1>2 DEF WatchInv, Followed, ContentComing, Settles, Drafted
  <1>4. ReturnInv'
    BY <1>1, <1>2 DEF ReturnInv, outside_event
  <1> QED
    BY <1>3, <1>4

LEMMA ComingTailed ==
    ASSUME NEW q \in Seq(Signals), q # <<>>, NEW s, NEW key, Coming(s, q, key),
           \/ Head(q).kind \notin Switches
           \/ Head(q).kind = "switched" /\ Head(q).preset = s /\ key = s
    PROVE  Coming(s, Tail(q), key)
  <1> DEFINE t == Tail(q)
  <1>1. /\ Head(q) = q[1]
        /\ Len(q) \in Nat \ {0} /\ Len(t) = Len(q) - 1
        /\ \A i \in 1..Len(q) : i = 1 \/ (i - 1 \in 1..Len(t) /\ t[i - 1] = q[i])
    BY Tailed
  <1> HIDE DEF t
  <1>2. PICK i \in 1..Len(q) :
            /\ q[i].kind \in Switches /\ q[i].preset = s
            /\ \/ q[i].kind = "restored" \/ key # s
               \/ \E j \in 1..Len(q) : j < i /\ q[j].kind \in Switches /\ q[j].preset # s
    BY DEF Coming
  <1>3. i # 1
    <2>1. i = 1 => ~ \E j \in 1..Len(q) : j < i
      BY <1>1
    <2> QED
      BY <1>1, <1>2, <2>1
  <1>4. i - 1 \in 1..Len(t) /\ t[i - 1].kind \in Switches /\ t[i - 1].preset = s
    BY <1>1, <1>2, <1>3
  <1>5. CASE q[i].kind = "restored" \/ key # s
    <2>1. t[i - 1].kind = "restored" \/ key # s
      BY <1>1, <1>3, <1>5
    <2>2. Coming(s, t, key)
      BY <1>4, <2>1 DEF Coming
    <2> QED
      BY <2>2 DEF t
  <1>6. CASE \E j \in 1..Len(q) : j < i /\ q[j].kind \in Switches /\ q[j].preset # s
    <2>1. PICK j \in 1..Len(q) : j < i /\ q[j].kind \in Switches /\ q[j].preset # s
      BY <1>6
    <2>2. j # 1
      BY <1>1, <2>1
    <2>3. /\ j - 1 \in 1..Len(t) /\ j - 1 < i - 1
          /\ t[j - 1].kind \in Switches /\ t[j - 1].preset # s
      BY <1>1, <2>1, <2>2
    <2>4. Coming(s, t, key)
      BY <1>4, <2>3 DEF Coming
    <2> QED
      BY <2>4 DEF t
  <1> QED
    BY <1>2, <1>5, <1>6

\* A signal that differs from what was sent last will be followed by it.
LEMMA ComingSent ==
    ASSUME NEW q \in Seq(Signals), NEW key, NEW v, LastIs(q, key, Switches, v), key # v
    PROVE  v \in Presets /\ Coming(v, q, key)
  <1>1. PICK i \in 1..Len(q) : q[i].kind \in Switches /\ q[i].preset = v
    BY DEF LastIs
  <1>2. q[i] \in Signals
    BY ElementOfSeq
  <1> QED
    BY <1>1, <1>2 DEF Coming, Signals

\* A preset sent after another one will be watched.
LEMMA ComingSwitched ==
    ASSUME NEW q \in Seq(Signals), NEW p \in Presets, NEW key, NEW v,
           LastIs(q, key, Switches, v), v # p
    PROVE  Coming(p, Append(q, signal("switched", p)), key)
  <1> DEFINE x == signal("switched", p)
             r == Append(q, x)
  <1>1. x \in Signals /\ x.kind \in Switches /\ x.preset = p
    BY DEF signal, Signals, Switches
  <1> HIDE DEF x
  <1>2. /\ Len(q) \in Nat /\ Len(r) = Len(q) + 1
        /\ \A i \in 1..Len(q) : r[i] = q[i]
        /\ r[Len(q) + 1] = x
    BY <1>1, Appended
  <1> HIDE DEF r
  <1>3. Len(q) + 1 \in 1..Len(r)
    BY <1>2
  <1>4. CASE key # p
    <2>1. Coming(p, r, key)
      BY <1>1, <1>2, <1>3, <1>4 DEF Coming
    <2> QED
      BY <2>1 DEF r, x
  <1>5. CASE key = p
    <2>1. PICK j \in 1..Len(q) : q[j].kind \in Switches /\ q[j].preset = v
      BY <1>5 DEF LastIs
    <2>2. j \in 1..Len(r) /\ j < Len(q) + 1 /\ r[j].kind \in Switches /\ r[j].preset # p
      BY <1>2, <2>1
    <2>3. Coming(p, r, key)
      BY <1>1, <1>2, <1>3, <2>2 DEF Coming
    <2> QED
      BY <2>3 DEF r, x
  <1> QED
    BY <1>4, <1>5

LEMMA ContentTailed ==
    ASSUME NEW q \in Seq(Signals), q # <<>>
    PROVE  content_signal(Tail(q)) => content_signal(q)
  <1> DEFINE t == Tail(q)
  <1>1. \A i \in 1..Len(t) : t[i] = q[i + 1] /\ i + 1 \in 1..Len(q)
    BY Tailed
  <1> HIDE DEF t
  <1>2. content_signal(t) => content_signal(q)
    BY <1>1 DEF content_signal
  <1> QED
    BY <1>2 DEF t

LEMMA ContentInTailed ==
    ASSUME NEW q \in Seq(Signals), q # <<>>, NEW s, ContentIn(s, q),
           ~ (Head(q).kind = "content" /\ Head(q).preset = s)
    PROVE  ContentIn(s, Tail(q))
  <1> DEFINE t == Tail(q)
  <1>1. /\ Head(q) = q[1]
        /\ \A i \in 1..Len(q) : i = 1 \/ (i - 1 \in 1..Len(t) /\ t[i - 1] = q[i])
    BY Tailed
  <1> HIDE DEF t
  <1>2. PICK i \in 1..Len(q) : q[i].kind = "content" /\ q[i].preset = s
    BY DEF ContentIn
  <1>3. ContentIn(s, t)
    BY <1>1, <1>2 DEF ContentIn
  <1> QED
    BY <1>3 DEF t

LEMMA ContentWaits ==
    ASSUME TypeInv
    PROVE  content_waits <=> pending_content # NoPreset \/ content_signal(signals)
  <1>1. signals \in Seq(Signals) /\ DOMAIN signals = 1..Len(signals)
    BY LenProperties DEF TypeInv, FilesOK, SelectionTypeOK
  <1> QED
    BY <1>1 DEF content_waits, content_signal

-----------------------------------------------------------------------------
(* The handling of a signal *)

\* The watcher's worker is asked for a preset.
LEMMA Scheduled ==
    ASSUME TypeInv, NEW p \in Presets, schedule_watch_setup(p),
           watch.at = "resolves" => watch.path = NoPreset
    PROVE  /\ watch'.at = "none" => watch' = NoWatch /\ ~ setup_pending'
           /\ watch'.at = "resolves" => watch'.path = NoPreset
           /\ ~ setup_pending' /\ (watch'.at # "none" \/ ~ restart') => pending_watch' = NoPreset
           /\ watch'.path \in {NoPreset, watch.path}
           /\ setup_pending' => pending_watch' = p
           /\ ~ setup_pending' => watch'.at = "resolves" /\ watch'.for = p
  <1>1. CASE is_running
    BY <1>1 DEF schedule_watch_setup, is_running
  <1>2. CASE ~ is_running
    BY <1>2 DEF schedule_watch_setup, NoWatch
  <1> QED
    BY <1>1, <1>2

\* ... which settles what will be watched.
LEMMA ScheduledWatch ==
    ASSUME TypeInv, NEW p \in Presets, schedule_watch_setup(p), WatchInv,
           UNCHANGED <<selected, there>>, selected \in exists => p = selected
    PROVE  WatchInv'
  <1>1. /\ watch'.at = "none" => watch' = NoWatch /\ ~ setup_pending'
        /\ watch'.at = "resolves" => watch'.path = NoPreset
        /\ ~ setup_pending' /\ (watch'.at # "none" \/ ~ restart') => pending_watch' = NoPreset
        /\ setup_pending' => pending_watch' = p
        /\ ~ setup_pending' => watch'.at = "resolves" /\ watch'.for = p
    BY Scheduled DEF WatchInv
  <1>2. selected \in exists => Settles'
    BY <1>1 DEF Settles
  <1> QED
    BY <1>1, <1>2, ThereKept DEF WatchInv, Followed

LEMMA ScheduledReturn ==
    ASSUME TypeInv, NEW p \in Presets, schedule_watch_setup(p), WatchInv, ReturnInv,
           UNCHANGED <<selected, there, watched, waits, events>>, asked' # {}
    PROVE  ReturnInv'
  <1>1. watch'.path \in {NoPreset, watch.path}
    BY Scheduled DEF WatchInv
  <1>2. NoPreset \notin files_of(selected)
    BY PresetFacts, FileFacts DEF TypeInv
  <1> QED
    BY <1>1, <1>2, ThereKept DEF ReturnInv, outside_event

\* A signal of a switch.
LEMMA SwitchHandled ==
    ASSUME TypeInv, SignalInv, OwnInv, WatchInv, ReturnInv, signals # <<>>,
           signals' = Tail(signals), UNCHANGED <<watcherVars, events, engine, draft>>,
           NEW key, switch_to(Head(signals).preset, key),
           \/ Head(signals).kind = "switched" /\ key = last_key
           \/ Head(signals).kind = "restored" /\ key = NoPreset
    PROVE  SignalInv' /\ OwnInv' /\ WatchInv' /\ ReturnInv'
  <1> DEFINE s == Head(signals)
             p == s.preset
  <1>1. /\ signals \in Seq(Signals) /\ s \in Signals /\ p \in Presets /\ s.kind \in Switches
        /\ s.kind \in Shows
        /\ Tail(signals) \in Seq(Signals) /\ p # NoPreset /\ selected \in Presets
    <2>1. signals \in Seq(Signals) /\ selected \in Presets
      BY DEF TypeInv, FilesOK, SelectionTypeOK
    <2>2. s \in Signals /\ Tail(signals) \in Seq(Signals)
      BY <2>1, Tailed
    <2> QED
      BY <2>1, <2>2, SelectionAssumption DEF Signals, Switches, Shows
  <1>2. /\ LastIs(Tail(signals), p, Shows, shown_of(selected, fallback))
        /\ LastIs(Tail(signals), p, Switches, sent)
    BY <1>1, LastTailed DEF SignalInv
  <1>3. content_signal(Tail(signals)) => content_signal(signals)
    BY <1>1, ContentTailed
  <1>4. Coming(selected, signals,
  last_key) /\ s.kind = "switched" /\ p = selected /\ last_key = selected
            => Coming(selected, Tail(signals), last_key)
    BY <1>1, ComingTailed
  <1>5. p # selected => p # sent
    BY <1>1 DEF SignalInv
  <1>6. p # sent => Coming(sent, Tail(signals), p) /\ sent \in Presets
    BY <1>1, <1>2, ComingSent
  <1>13. ContentIn(selected, signals) => ContentIn(selected, Tail(signals))
    BY <1>1, ContentInTailed DEF Switches
  <1> HIDE DEF p, s
  <1>7. switch_to(p, key) /\ (\/ s.kind = "switched" /\ key = last_key
                              \/ s.kind = "restored" /\ key = NoPreset)
    BY DEF p, s
  <1>8. /\ UNCHANGED <<there, selected, fallback, sent, own, suppress, pending_content, watched,
                       armed, rearm, waits, events, draft>>
        /\ last_key' = p /\ projection' = p
        /\ \/ publish_pending' = TRUE /\ shown' = shown
           \/ UNCHANGED <<publish_pending, shown, projection>>
    BY <1>7 DEF switch_to, publish, publishVars, fileVars, ownVars, watcherVars
  <1>9. SignalInv'
    BY <1>2, <1>8 DEF SignalInv
  <1>10. OwnInv'
    BY <1>3, <1>8, ThereKept DEF OwnInv, effective
  <1>11. WatchInv'
    <2>1. CASE p # key /\ p = selected
      BY <1>1, <1>7, <1>8, <2>1, ScheduledWatch DEF switch_to
    <2>2. CASE p # selected
      <3>1. Coming(selected, signals', last_key')
        BY <1>1, <1>5, <1>6, <1>8, <2>2, SelectionAssumption DEF SignalInv
      <3>2. CASE p # key
        <4>1. /\ watch'.at = "none" => watch' = NoWatch /\ ~ setup_pending'
              /\ watch'.at = "resolves" => watch'.path = NoPreset
              /\ ~ setup_pending' /\ (watch'.at # "none" \/ ~ restart') => pending_watch' = NoPreset
          BY <1>1, <1>7, <3>2, Scheduled DEF WatchInv, switch_to
        <4> QED
          BY <1>8, <3>1, <4>1 DEF WatchInv, Followed
      <3>3. CASE p = key
        BY <1>7, <1>8, <3>1, <3>3 DEF WatchInv, Followed, switch_to, setupVars
      <3> QED
        BY <3>2, <3>3
    <2>3. CASE p = key /\ p = selected
      <3>1. s.kind = "switched" /\ last_key = selected
        BY <1>1, <1>7, <2>3
      <3>2. UNCHANGED setupVars
        BY <1>7, <2>3 DEF switch_to
      <3>3. Followed => Followed'
        BY <1>4, <1>8, <1>13, <2>3, <3>1, <3>2, ThereKept
           DEF Followed, ContentComing, Settles, Drafted, setupVars
      <3> QED
        BY <1>8, <3>2, <3>3, ThereKept DEF WatchInv, setupVars
    <2> QED
      BY <2>1, <2>2, <2>3
  <1>12. ReturnInv'
    <2>1. CASE p # key
      BY <1>1, <1>7, <1>8, <2>1, ScheduledReturn DEF switch_to
    <2>2. CASE p = key
      BY <1>7, <1>8, <2>2, ReturnFrame DEF switch_to, setupVars
    <2> QED
      BY <2>1, <2>2
  <1> QED
    BY <1>9, <1>10, <1>11, <1>12

LEMMA FallbackHandled ==
    ASSUME TypeInv, SignalInv, OwnInv, WatchInv, ReturnInv, signals # <<>>,
           signals' = Tail(signals), UNCHANGED <<watcherVars, events, engine, draft>>,
           handle_selection_fallback(Head(signals).preset), Head(signals).kind = "fallback"
    PROVE  SignalInv' /\ OwnInv' /\ WatchInv' /\ ReturnInv'
  <1> DEFINE s == Head(signals)
             p == s.preset
  <1>1. /\ signals \in Seq(Signals) /\ s \in Signals /\ s.kind \notin Switches /\ s.kind \in Shows
    BY Tailed DEF TypeInv, FilesOK, SelectionTypeOK, Switches, Shows
  <1>2. /\ LastIs(Tail(signals), p, Shows, shown_of(selected, fallback))
        /\ LastIs(Tail(signals), last_key, Switches, sent)
    BY <1>1, LastTailed DEF SignalInv
  <1>3. content_signal(Tail(signals)) => content_signal(signals)
    BY <1>1, ContentTailed
  <1>4. Coming(selected, signals, last_key) => Coming(selected, Tail(signals), last_key)
    BY <1>1, ComingTailed
  <1>5. handle_selection_fallback(p)
    OBVIOUS
  <1>11. ContentIn(selected, signals) => ContentIn(selected, Tail(signals))
    BY <1>1, ContentInTailed
  <1> HIDE DEF p, s
  <1>6. /\ UNCHANGED <<there, selected, fallback, sent, last_key, setupVars, asked, own, suppress,
                       pending_content>>
        /\ projection' = p /\ publish_pending' = TRUE /\ shown' = shown
        /\ UNCHANGED <<watched, armed, rearm, waits, events, draft>>
    BY <1>5 DEF handle_selection_fallback, publish, fileVars, ownVars, watcherVars
  <1>7. SignalInv'
    BY <1>2, <1>6 DEF SignalInv
  <1>8. OwnInv'
    BY <1>3, <1>6, ThereKept DEF OwnInv, effective
  <1>9. WatchInv'
    BY <1>4, <1>6, <1>11, ThereKept
       DEF WatchInv, Followed, ContentComing, Settles, Drafted, setupVars
  <1>10. ReturnInv'
    BY <1>6, ReturnFrame DEF setupVars
  <1> QED
    BY <1>7, <1>8, <1>9, <1>10

LEMMA ContentHandled ==
    ASSUME TypeInv, SignalInv, OwnInv, WatchInv, ReturnInv, signals # <<>>,
           signals' = Tail(signals) \o news, UNCHANGED <<watcherVars, events, engine, draft>>,
           handle_preset_content_changed(Head(signals).preset), Head(signals).kind = "content"
    PROVE  SignalInv' /\ OwnInv' /\ WatchInv' /\ ReturnInv'
  <1> DEFINE s == Head(signals)
             t == Tail(signals)
  <1>1. /\ signals \in Seq(Signals) /\ s.kind \notin Switches /\ s.kind \notin Shows
        /\ t \in Seq(Signals)
        /\ content_signal(signals) /\ exists \subseteq Presets /\ selected \in Presets
        /\ Default \in exists
    <2>1. /\ signals \in Seq(Signals) /\ exists \subseteq Presets /\ selected \in Presets
          /\ Default \in exists
      BY PresetFacts DEF TypeInv
    <2>2. t \in Seq(Signals) /\ s = signals[1] /\ Len(signals) \in Nat \ {0}
      BY <2>1, Tailed
    <2>3. 1 \in 1..Len(signals)
      BY <2>2
    <2> QED
      BY <2>1, <2>2, <2>3 DEF content_signal, Switches, Shows
  <1>2. /\ LastIs(t, projection, Shows, shown_of(selected, fallback))
        /\ LastIs(t, last_key, Switches, sent)
    BY <1>1, LastTailed DEF SignalInv
  <1>3. Coming(selected, signals, last_key) => Coming(selected, t, last_key)
    BY <1>1, ComingTailed
  <1>11. ContentIn(selected, signals) => ContentIn(selected, t) \/ s.preset = selected
    BY <1>1, ContentInTailed
  <1> HIDE DEF t
  <1>4. signals' = t \o news
    BY DEF t
  <1>5. /\ LastIs(signals', projection, Shows, shown_of(selected, missing))
        /\ LastIs(signals', last_key, Switches, told)
        /\ told \in {NoPreset, selected}
        /\ missing \in {NoPreset, selected} /\ missing # Default
        /\ selected \in exists => missing = NoPreset
        /\ \A v, key : Coming(v, t, key) => Coming(v, signals', key)
        /\ \A v : ContentIn(v, t) => ContentIn(v, signals')
    BY <1>1, <1>2, <1>4, LooksUp DEF SignalInv
  <1>6. /\ UNCHANGED <<there, selected, last_key, projection, publish_pending, shown, setupVars,
                       asked, own>>
        /\ fallback' = missing /\ sent' = told
        /\ UNCHANGED <<watched, armed, rearm, waits, events, draft>>
        /\ IF s.preset = effective THEN pending_content' = effective ELSE UNCHANGED pending_content
    BY DEF handle_preset_content_changed, fileVars, publishVars, watcherVars
  <1> HIDE DEF s
  <1>7. SignalInv'
    BY <1>5, <1>6 DEF SignalInv
  <1>8. OwnInv'
    BY <1>1, <1>6, ThereKept DEF OwnInv, effective
  <1>9. WatchInv'
    <2>1. selected \in exists /\ ContentComing(selected, signals, pending_content)
              => ContentComing(selected, signals', pending_content')
      BY <1>5, <1>6, <1>11 DEF ContentComing, effective
    <2> QED
      BY <1>3, <1>5, <1>6, <2>1, ThereKept DEF WatchInv, Followed, Settles, Drafted, setupVars
  <1>10. ReturnInv'
    BY <1>5, <1>6, ThereKept DEF ReturnInv, outside_event, setupVars
  <1> QED
    BY <1>7, <1>8, <1>9, <1>10

LEMMA SignalKeeps ==
    ASSUME Inv, HandleSignal
    PROVE  SignalInv' /\ OwnInv' /\ WatchInv' /\ ReturnInv'
  <1> DEFINE s == Head(signals)
  <1>1. Tail(signals) \o <<>> = Tail(signals)
    BY Tailed, ConcatEmptySeq DEF HandleSignal, Inv, TypeInv, FilesOK, SelectionTypeOK
  <1>2. /\ signals # <<>> /\ UNCHANGED <<watcherVars, events, engine, draft>>
        /\ s.kind = "content" => signals' = Tail(signals) \o news
        /\ s.kind # "content" => signals' = Tail(signals)
    BY <1>1 DEF HandleSignal
  <1>3. CASE s.kind = "switched" /\ handle_preset_switched(s.preset)
    BY <1>2, <1>3, SwitchHandled DEF handle_preset_switched, Inv
  <1>4. CASE s.kind = "restored" /\ handle_selection_restored(s.preset)
    BY <1>2, <1>4, SwitchHandled DEF handle_selection_restored, Inv
  <1>5. CASE s.kind = "fallback" /\ handle_selection_fallback(s.preset)
    BY <1>2, <1>5, FallbackHandled DEF Inv
  <1>6. CASE s.kind = "content" /\ handle_preset_content_changed(s.preset)
    BY <1>2, <1>6, ContentHandled DEF Inv
  <1> QED
    BY <1>3, <1>4, <1>5, <1>6 DEF HandleSignal

-----------------------------------------------------------------------------
(* The other steps of the program *)

LEMMA ProgramKeeps ==
    ASSUME Inv, NoRace, Program
    PROVE  SignalInv' /\ OwnInv' /\ WatchInv' /\ ReturnInv'
  <1> TypeInv /\ SignalInv /\ OwnInv /\ WatchInv /\ ReturnInv
    BY DEF Inv
  <1> /\ selected \in Presets /\ selected # NoPreset /\ Default \in exists /\ effective \in Presets
    BY PresetFacts, NewsType, SelectionAssumption DEF TypeInv
  <1>absent. /\ NoPreset \notin files_of(selected)
             /\ selected \notin exists => files_of(selected) \cap there = {}
    <2>1. selected \notin exists => files_of(selected) \cap there = {}
      BY DEF exists, files_of
    <2> QED
      BY <2>1, FileFacts
  <1>found. file(selected) # NoPreset /\ (selected \in exists => file(selected) \in there)
    BY FileFacts
  <1> DEFINE Same == UNCHANGED <<there, exists, selected, file(selected)>>
  <1>1. CASE publish_active_preset_revision
    <2>1. SignalInv'
      BY <1>1 DEF publish_active_preset_revision, selectionVars, SignalInv
    <2>2. /\ UNCHANGED <<signals, selected, there, fallback, last_key, setupVars, watcherVars, events>>
          /\ UNCHANGED <<own, suppress, pending_content, asked, draft>>
      BY <1>1 DEF publish_active_preset_revision, selectionVars, ownVars, engineVars
    <2>3. OwnInv'
      BY <2>2, OwnFrame
    <2>4. WatchInv'
      BY <2>2, WatchFrame DEF watcherVars
    <2>5. ReturnInv'
      BY <2>2, ReturnFrame DEF watcherVars, setupVars
    <2> QED
      BY <2>1, <2>3, <2>4, <2>5
  <1>2. CASE apply_pending_preset_content_change
    <2>1. /\ UNCHANGED <<selectionVars, last_key, publishVars, watcherVars, events, own>>
          /\ pending_content # NoPreset /\ pending_content' = NoPreset
          /\ schedule_watch_setup(pending_content) /\ asked' # {}
      BY <1>2 DEF apply_pending_preset_content_change
    <2>2. pending_content = effective
      BY <2>1 DEF OwnInv
    <2>3. SignalInv'
      BY <2>1, SignalFrame DEF signalVars, selectionVars, publishVars
    <2>4. OwnInv'
      BY <2>1, ThereKept DEF OwnInv, selectionVars
    <2>5. WatchInv'
      BY <2>1, <2>2, ScheduledWatch DEF selectionVars, effective
    <2>6. ReturnInv'
      BY <2>1, <2>2, ScheduledReturn DEF selectionVars, watcherVars
    <2> QED
      BY <2>3, <2>4, <2>5, <2>6
  <1>3. CASE resolve_path
    <2>1. /\ UNCHANGED <<last_key, publishVars, pending_watch, setup_pending, restart, watcherVars,
                         events, ownVars, engineVars>>
          /\ watch.at = "resolves" /\ watch'.at = "emitted" /\ watch'.for = watch.for
          /\ watch'.path = IF watch.for = NoPreset THEN file(effective)
                           ELSE IF watch.for \in exists THEN file(watch.for) ELSE NoPreset
          /\ ensure_selected_manifest \/ UNCHANGED selectionVars
      BY <1>3 DEF resolve_path, TypeInv, CoordinatorOK, WatchTasks
    <2>2. /\ SignalInv' /\ OwnInv' /\ Same
          /\ Coming(selected, signals, last_key) => Coming(selected, signals', last_key)
          /\ ContentIn(selected, signals) => ContentIn(selected, signals')
          /\ selected \in exists => fallback' \in {NoPreset, fallback}
      <3>1. CASE ensure_selected_manifest
        BY <2>1, <3>1, LookUpKeeps, SelectedKept DEF publishVars
      <3>2. CASE UNCHANGED selectionVars
        BY <2>1, <3>2, SignalFrame, OwnFrame, SelectedKept
           DEF selectionVars, fileVars, publishVars, ownVars, signalVars
      <3> QED
        BY <2>1, <3>1, <3>2
    <2>3. WatchInv'
      <3>1. selected \in exists /\ Settles => Settles'
        BY <1>found, <2>1, <2>2 DEF WatchInv, Settles, Drafted, effective, watcherVars, engineVars
      <3> QED
        BY <2>1, <2>2, <3>1 DEF WatchInv, Followed, ContentComing, ownVars
    <2>4. ReturnInv'
      <3>1. selected \notin exists => watch'.path \notin files_of(selected)
        <4>1. exists \subseteq Presets /\ NoPreset \notin files_of(selected)
          BY PresetFacts, FileFacts DEF TypeInv
        <4>2. \A p \in Presets : file(p) \in files_of(selected) => p = selected
          BY FileFacts DEF files_of
        <4>3. selected \notin exists => effective = Default /\ Default # selected
          BY DEF effective
        <4> QED
          BY <2>1, <4>1, <4>2, <4>3
      <3>2. watch # NoWatch
        BY <2>1 DEF NoWatch
      <3> QED
        BY <2>1, <2>2, <3>1, <3>2 DEF ReturnInv, outside_event, watcherVars, engineVars
    <2> QED
      BY <2>2, <2>3, <2>4
  <1>4. CASE WatchWorkerEnds \/ on_watch_worker_finished \/ start_watch_worker \/ on_watch_path_loaded
    <2>1. UNCHANGED <<selectionVars, last_key, publishVars, ownVars, events, asked, draft>>
      BY <1>4 DEF WatchWorkerEnds, on_watch_worker_finished, start_watch_worker, on_watch_path_loaded,
                  engineVars
    <2>2. SignalInv' /\ OwnInv' /\ Same
      BY <2>1, SignalFrame, OwnFrame, SelectedKept
         DEF selectionVars, fileVars, publishVars, ownVars, signalVars
    <2>3. CASE WatchWorkerEnds
      <3>1. /\ watch.at = "emitted" /\ watch'.at = "ended" /\ watch'.path = watch.path
            /\ UNCHANGED <<pending_watch, setup_pending, restart, watcherVars>>
        BY <2>3 DEF WatchWorkerEnds, TypeInv, CoordinatorOK, WatchTasks
      <3>2. WatchInv'
        BY <2>1, <2>2, <3>1
           DEF WatchInv, Followed, ContentComing, Settles, Drafted, selectionVars, watcherVars,
               ownVars
      <3>3. ReturnInv'
        BY <2>1, <2>2, <3>1 DEF ReturnInv, outside_event, selectionVars, watcherVars, NoWatch
      <3> QED
        BY <2>2, <3>2, <3>3
    <2>4. CASE on_watch_worker_finished
      <3>1. /\ watch.at = "ended" /\ watch.path = NoPreset /\ watch' = NoWatch
            /\ ~ setup_pending' /\ restart' = (restart \/ setup_pending)
            /\ UNCHANGED <<pending_watch, watcherVars>>
            /\ NoWatch.at = "none" /\ NoWatch.path = NoPreset
        BY <2>4 DEF on_watch_worker_finished, NoWatch
      <3>2. WatchInv'
        BY <2>1, <2>2, <3>1
           DEF WatchInv, Followed, ContentComing, Settles, Drafted, selectionVars, watcherVars,
               ownVars
      <3>3. ReturnInv'
        BY <2>1, <2>2, <3>1 DEF ReturnInv, outside_event, selectionVars, watcherVars
      <3> QED
        BY <2>2, <3>2, <3>3
    <2>5. CASE start_watch_worker
      <3>1. restart /\ ~ restart' /\ UNCHANGED <<setup_pending, watcherVars>>
        BY <2>5 DEF start_watch_worker
      <3>2. CASE is_running
        <4>1. UNCHANGED <<watch, pending_watch>> /\ watch.at # "none"
          BY <2>5, <3>2 DEF start_watch_worker, is_running
        <4>2. WatchInv'
          BY <2>1, <2>2, <3>1, <4>1
           DEF WatchInv, Followed, ContentComing, Settles, Drafted, selectionVars, watcherVars,
               ownVars
        <4>3. ReturnInv'
          BY <2>1, <2>2, <3>1, <4>1 DEF ReturnInv, outside_event, selectionVars, watcherVars
        <4> QED
          BY <2>2, <4>2, <4>3
      <3>3. CASE ~ is_running
        <4>1. /\ watch'.at = "resolves" /\ watch'.for = pending_watch /\ watch'.path = NoPreset
              /\ pending_watch' = NoPreset /\ watch.at \in {"none", "ended"}
          BY <2>5, <3>3 DEF start_watch_worker, is_running, NoWatch, TypeInv, CoordinatorOK, WatchTasks
        <4>2. selected \in exists /\ Settles => Settles'
          BY <2>1, <2>2, <3>1, <4>1 DEF WatchInv, Settles, Drafted, watcherVars
        <4>3. WatchInv'
          BY <2>1, <3>1, <4>1, <4>2, FollowedKept DEF WatchInv, selectionVars, ownVars
        <4>4. ReturnInv'
          BY <1>absent, <2>1, <2>2, <3>1, <4>1 DEF ReturnInv, outside_event, selectionVars, watcherVars
        <4> QED
          BY <2>2, <4>3, <4>4
      <3> QED
        BY <3>2, <3>3
    <2>6. CASE on_watch_path_loaded
      <3>1. /\ watch.at \in {"emitted", "ended"} /\ watch.path # NoPreset
            /\ watch'.at = watch.at /\ watch'.path = NoPreset
            /\ UNCHANGED <<pending_watch, setup_pending, restart, rearm>>
            /\ IF setup_pending THEN UNCHANGED watcherVars
               ELSE watched' = watch.path /\ armed' = (watch.path \in there)
                    /\ waits' = (waits /\ watch.path = watched)
        BY <2>6 DEF on_watch_path_loaded, apply_watch_path, TypeInv, CoordinatorOK, WatchTasks,
           watcherVars
      <3>2. WatchInv'
        <4>2. selected \in exists /\ Settles => Settles'
          BY <1>found, <2>1, <2>2, <3>1 DEF Settles, Drafted, watcherVars
        <4> QED
          BY <2>1, <3>1, <4>2, FollowedKept DEF WatchInv, selectionVars, ownVars
      <3>3. ReturnInv'
        <4>1. watch # NoWatch
          BY <3>1 DEF NoWatch
        <4>2. UNCHANGED <<selected, there, exists, fallback, events, asked>>
          BY <2>1, <2>2 DEF selectionVars
        <4>3. \/ UNCHANGED <<watched, waits>>
              \/ watched' = watch.path /\ waits' = (waits /\ watch.path = watched)
          BY <3>1 DEF watcherVars
        <4>4. selected \notin exists /\ watched' \in files_of(selected) => watched' = watched /\ waits' = waits
          <5>1. waits \in BOOLEAN
            BY DEF TypeInv, CoordinatorOK
          <5> QED
            BY <4>3, <5>1 DEF ReturnInv
        <4> QED
          BY <1>absent, <3>1, <4>1, <4>2, <4>4 DEF ReturnInv, outside_event
      <3> QED
        BY <2>2, <3>2, <3>3
    <2> QED
      BY <1>4, <2>3, <2>4, <2>5, <2>6
  <1>5. CASE RearmTimer
    <2>1. /\ UNCHANGED <<selectionVars, last_key, publishVars, setupVars, watched, events, ownVars, draft>>
          /\ watched \in there => armed'
          /\ waits' = (waits /\ watched \notin there)
          /\ asked \subseteq asked' /\ (waits /\ watched \in there => asked' # {})
      BY <1>5 DEF RearmTimer, ensure_watch_armed
    <2>2. SignalInv' /\ OwnInv' /\ Same
      BY <2>1, SignalFrame, OwnFrame, SelectedKept
         DEF selectionVars, fileVars, publishVars, ownVars, signalVars
    <2>3. WatchInv'
      <3>2. selected \in exists /\ Settles => Settles'
        BY <1>found, <2>1, <2>2 DEF Settles, Drafted, setupVars
      <3> QED
        BY <2>1, <3>2, FollowedKept DEF WatchInv, selectionVars, setupVars, ownVars
    <2>4. ReturnInv'
      BY <1>absent, <2>1, <2>2 DEF ReturnInv, outside_event, selectionVars, setupVars
    <2> QED
      BY <2>2, <2>3, <2>4
  <1>6. CASE \E e \in events : on_active_preset_file_changed(e)
    <2>1. PICK e \in events : on_active_preset_file_changed(e)
      BY <1>6
    <2>2. /\ UNCHANGED <<selectionVars, last_key, publishVars, setupVars, watched, ownVars, draft>>
          /\ events' = events \ {e}
          /\ watched \in there => armed'
          /\ waits' = (watched \notin there /\ (waits \/ ~ consume_own_change(e.path)))
          /\ asked \subseteq asked'
          /\ (waits \/ ~ consume_own_change(e.path)) /\ watched \in there => asked' # {}
      BY <2>1 DEF on_active_preset_file_changed, ensure_watch_armed
    <2>3. e.by = "other" => ~ consume_own_change(e.path)
      BY DEF OwnInv, consume_own_change
    <2>4. outside_event => e.by = "other" \/ outside_event'
      BY <2>2 DEF outside_event
    <2>5. SignalInv' /\ OwnInv' /\ Same
      BY <2>2, SignalFrame, OwnFrame, SelectedKept
         DEF selectionVars, fileVars, publishVars, ownVars, signalVars
    <2>6. WatchInv'
      <3>2. selected \in exists /\ Settles => Settles'
        BY <1>found, <2>2, <2>5 DEF Settles, Drafted, setupVars
      <3> QED
        BY <2>2, <3>2, FollowedKept DEF WatchInv, selectionVars, setupVars, ownVars
    <2>7. ReturnInv'
      BY <1>absent, <2>2, <2>3, <2>4, <2>5 DEF ReturnInv, selectionVars, setupVars
    <2> QED
      BY <2>5, <2>6, <2>7
  <1>7. CASE EngineApplies
    <2>1. /\ UNCHANGED <<last_key, publishVars, setupVars, watcherVars, events, ownVars, draft>>
          /\ ensure_selected_manifest
      BY <1>7 DEF EngineApplies
    <2>2. SignalInv' /\ OwnInv'
      BY <2>1, LookUpKeeps DEF publishVars
    <2>3. WatchInv' /\ ReturnInv'
      BY <2>1, LookUpWatch
    <2> QED
      BY <2>2, <2>3
  <1>8. CASE SuppressExpires \/ \E p \in own : OwnWriteExpires(p)
    <2>1. /\ UNCHANGED <<selectionVars, last_key, publishVars, setupVars, watcherVars, events,
                         pending_content, asked, draft>>
          /\ own' \subseteq own /\ suppress' \in {suppress, NoPreset}
      BY <1>8 DEF SuppressExpires, OwnWriteExpires, engineVars
    <2>2. SignalInv'
      BY <2>1, SignalFrame DEF selectionVars, publishVars, signalVars
    <2>3. OwnInv'
      BY <2>1, ThereKept DEF OwnInv, selectionVars, fileVars, effective
    <2>4. WatchInv' /\ ReturnInv'
      BY <2>1, WatchFrame, ReturnFrame DEF selectionVars, fileVars, setupVars, watcherVars
    <2> QED
      BY <2>2, <2>3, <2>4
  <1> QED
    BY <1>1, <1>2, <1>3, <1>4, <1>5, <1>6, <1>7, <1>8, SignalKeeps DEF Program

-----------------------------------------------------------------------------
(* The user, the program's writes and other programs *)

LEMMA SelectsKeeps ==
    ASSUME Inv, NoRace, NEW p \in Presets, Selects(p)
    PROVE  SignalInv' /\ OwnInv' /\ WatchInv' /\ ReturnInv'
  <1> TypeInv /\ SignalInv /\ OwnInv /\ WatchInv /\ ReturnInv
    BY DEF Inv
  <1>1. /\ exists \subseteq Presets /\ selected \in Presets /\ Default \in exists
        /\ signals \in Seq(Signals) /\ NoPreset \notin Presets
    BY PresetFacts, SelectionAssumption DEF TypeInv
  <1> DEFINE n == signals \o news
  <1>2. /\ n \in Seq(Signals)
        /\ LastIs(n, projection, Shows, shown_of(selected, missing))
        /\ LastIs(n, last_key, Switches, told)
        /\ told \in {NoPreset, selected}
        /\ selected \in exists => missing = NoPreset
        /\ content_signal(n) <=> content_signal(signals)
        /\ Coming(selected, signals, last_key) => Coming(selected, n, last_key)
        /\ ContentIn(selected, signals) => ContentIn(selected, n)
    BY <1>1, LooksUp DEF SignalInv
  <1>3. /\ UNCHANGED <<last_key, projection, publish_pending, shown, setupVars, watcherVars, events,
                       own, suppress, pending_content, asked, draft, there>>
        /\ p \in exists /\ selected' = p /\ fallback' = NoPreset
        /\ ~ content_waits
    BY DEF Selects, select_file_name, publishVars, ownVars, engineVars, fileVars, NoRace
  <1>4. pending_content = NoPreset /\ ~ content_signal(signals)
    BY <1>3, ContentWaits
  <1>5. /\ (p # selected \/ missing # NoPreset) /\ told # p
               => sent' = p /\ signals' = n \o <<signal("switched", p)>>
        /\ ~ ((p # selected \/ missing # NoPreset) /\ told # p)
               => sent' = told /\ signals' = n
    BY DEF Selects, select_file_name
  <1>6. ReturnInv'
    BY <1>1, <1>3, ThereKept DEF ReturnInv
  <1>7. /\ OwnInv' /\ SignalInv'
        /\ \/ Coming(p, signals', last_key')
           \/ /\ selected = p
              /\ Coming(selected, signals, last_key) => Coming(selected, signals', last_key')
              /\ ContentIn(selected, signals) => ContentIn(selected, signals')
    <2> HIDE DEF n
    <2>1. CASE p = selected
      <3>1. signals' = n /\ sent' = told /\ missing = NoPreset
        BY <1>2, <1>3, <1>5, <2>1
      <3>2. SignalInv'
        BY <1>1, <1>2, <1>3, <2>1, <3>1, SelectionAssumption DEF SignalInv
      <3>3. OwnInv'
        BY <1>2, <1>3, <1>4, <3>1 DEF OwnInv
      <3> QED
        BY <1>2, <1>3, <2>1, <3>1, <3>2, <3>3
    <2>2. CASE p # selected
      <3> DEFINE x == signal("switched", p)
      <3>1. x \in Signals /\ x.kind \in Switches /\ x.kind \in Shows /\ x.kind # "content"
                          /\ x.preset = p
        BY DEF signal, Signals, Switches, Shows
      <3>2. signals' = Append(n, x) /\ sent' = p
        <4>1. told # p
          BY <1>1, <1>2, <2>2
        <4> QED
          BY <1>2, <1>5, <2>2, <3>1, <4>1, AppendIsConcat
      <3>3. Coming(p, signals', last_key)
        BY <1>1, <1>2, <2>2, <3>2, ComingSwitched
      <3> HIDE DEF x
      <3>4. LastIs(signals', projection, Shows, p) /\ LastIs(signals', last_key, Switches, p)
        BY <1>2, <3>1, <3>2, LastAppended
      <3>5. SignalInv'
        BY <1>1, <1>3, <3>2, <3>4, SelectionAssumption DEF SignalInv, shown_of
      <3>6. ~ content_signal(signals')
        BY <1>2, <1>4, <3>1, <3>2, ContentAppended
      <3>7. OwnInv'
        BY <1>3, <1>4, <3>6 DEF OwnInv
      <3> QED
        BY <1>3, <3>3, <3>5, <3>7
    <2> QED
      BY <2>1, <2>2
  <1>8. WatchInv'
    <2>1. CASE Coming(p, signals', last_key')
      BY <1>3, <2>1 DEF WatchInv, Followed, setupVars
    <2>2. CASE /\ selected = p
               /\ Coming(selected, signals, last_key) => Coming(selected, signals', last_key')
               /\ ContentIn(selected, signals) => ContentIn(selected, signals')
      <3>1. UNCHANGED <<exists, file(selected)>>
        BY <1>3, <2>2, SelectedKept
      <3>2. Settles => Settles'
        BY <1>3, <2>2, <3>1 DEF Settles, Drafted, setupVars, watcherVars
      <3> QED
        BY <1>3, <2>2, <3>1, <3>2 DEF WatchInv, Followed, ContentComing, setupVars
    <2> QED
      BY <1>7, <2>1, <2>2
  <1> QED
    BY <1>6, <1>7, <1>8

\* A save is told of, after what the look-up tells.
LEMMA Published ==
    ASSUME TypeInv, SignalInv, NEW p \in Presets, publish_content(p),
           UNCHANGED <<selected, last_key, projection, publish_pending, shown>>
    PROVE  /\ SignalInv'
           /\ Coming(selected, signals, last_key) => Coming(selected, signals', last_key)
           /\ ContentIn(selected, signals) => ContentIn(selected, signals')
           /\ ContentIn(p, signals')
           /\ selected \in exists => fallback' = NoPreset
  <1> DEFINE n == signals \o news
             x == signal("content", p)
  <1>1. /\ exists \subseteq Presets /\ selected \in Presets /\ Default \in exists
        /\ signals \in Seq(Signals)
    BY PresetFacts DEF TypeInv
  <1>2. /\ n \in Seq(Signals)
        /\ LastIs(n, projection, Shows, shown_of(selected, missing))
        /\ LastIs(n, last_key, Switches, told)
        /\ told \in {NoPreset, selected}
        /\ missing \in {NoPreset, selected} /\ missing # Default
        /\ selected \in exists => missing = NoPreset
        /\ Coming(selected, signals, last_key) => Coming(selected, n, last_key)
        /\ ContentIn(selected, signals) => ContentIn(selected, n)
    BY <1>1, LooksUp DEF SignalInv
  <1>3. /\ x \in Signals /\ x.kind \notin Switches /\ x.kind \notin Shows
        /\ x.kind = "content" /\ x.preset = p
    BY DEF signal, Signals, Switches, Shows
  <1>4. fallback' = missing /\ sent' = told /\ signals' = n \o <<x>>
    BY DEF publish_content
  <1> HIDE DEF n, x
  <1>5. signals' = Append(n, x)
    BY <1>2, <1>3, <1>4, AppendIsConcat
  <1>6. /\ LastIs(signals', projection, Shows, shown_of(selected, missing))
        /\ LastIs(signals', last_key, Switches, told)
    BY <1>2, <1>3, <1>5, LastAppended
  <1>7. /\ Coming(selected, signals, last_key) => Coming(selected, signals', last_key)
        /\ ContentIn(selected, signals) => ContentIn(selected, signals')
        /\ ContentIn(p, signals')
    BY <1>2, <1>3, <1>5, ComingAppended, ContentInAppended
  <1>8. SignalInv'
    BY <1>2, <1>4, <1>6 DEF SignalInv
  <1> QED
    BY <1>2, <1>4, <1>7, <1>8

LEMMA SavesKeeps ==
    ASSUME Inv, NoRace, NEW p \in Presets, NEW b \in BOOLEAN, Saves(p, b)
    PROVE  SignalInv' /\ OwnInv' /\ WatchInv' /\ ReturnInv'
  <1> TypeInv /\ SignalInv /\ OwnInv /\ WatchInv /\ ReturnInv
    BY DEF Inv
  <1>1. selected \in Presets
    BY PresetFacts DEF TypeInv
  <1>2. /\ UNCHANGED <<last_key, projection, publish_pending, shown, setupVars, watcherVars,
                       suppress, pending_content, asked, selected>>
        /\ p \in exists /\ there' = there \cup {user(p)}
        /\ draft' = IF b THEN draft \ {p} ELSE draft \cup {p}
        /\ \A e \in events : e.by = "program"
        /\ events \subseteq events' /\ \A e \in events' : e.by = "program"
    BY DEF Saves, save_source_text, noticed, publishVars, NoRace, Unmixed
  <1>3. /\ exists' = exists
        /\ p # selected => UNCHANGED file(selected)
        /\ p = selected => file(selected)' = user(selected) /\ file(selected) \in files_of(selected)
    <2>1. \A q \in Presets : user(q) = user(p) <=> q = p
      BY DEF user
    <2>2. \A q \in Presets : builtin(q) # user(p)
      BY DEF user, builtin
    <2>3. exists' = exists
      BY <1>2, <2>1, <2>2 DEF exists
    <2>4. p # selected => UNCHANGED file(selected)
      BY <1>1, <1>2, <2>1 DEF file
    <2>5. p = selected => file(selected)' = user(selected)
      BY <1>1, <1>2 DEF file
    <2> QED
      BY <1>1, <2>3, <2>4, <2>5, FileFacts
  <1>4. /\ SignalInv'
        /\ Coming(selected, signals, last_key) => Coming(selected, signals', last_key)
        /\ ContentIn(selected, signals) => ContentIn(selected, signals')
        /\ b => ContentIn(p, signals')
        /\ fallback' = fallback \/ (selected \in exists => fallback' = NoPreset)
    <2>1. CASE b
      <3>1. publish_content(p)
        BY <2>1 DEF Saves, save_source_text
      <3> QED
        BY <1>2, <3>1, Published
    <2>2. CASE ~ b
      <3>1. UNCHANGED <<fallback, sent, signals>>
        BY <2>2 DEF Saves, save_source_text
      <3> QED
        BY <1>2, <2>2, <3>1, SignalFrame DEF signalVars
    <2> QED
      BY <2>1, <2>2
  <1>5. OwnInv'
    BY <1>2, <1>3 DEF OwnInv, effective
  <1>6. WatchInv'
    <2>1. CASE b /\ p = selected
      BY <1>2, <1>4, <2>1 DEF WatchInv, Followed, ContentComing, setupVars
    <2>2. CASE p # selected
      <3>1. Settles => Settles'
        BY <1>2, <1>3, <2>2 DEF Settles, Drafted, setupVars, watcherVars
      <3> QED
        BY <1>2, <1>3, <1>4, <3>1 DEF WatchInv, Followed, ContentComing, setupVars
    <2>3. CASE ~ b /\ p = selected
      <3>1. Settles => Settles'
        BY <1>2, <1>3, <2>3 DEF Settles, Drafted, files_of, setupVars, watcherVars
      <3> QED
        BY <1>2, <1>3, <1>4, <3>1 DEF WatchInv, Followed, ContentComing, setupVars
    <2> QED
      BY <2>1, <2>2, <2>3
  <1>7. ReturnInv'
    <2>1. UNCHANGED <<watch, restart, watched, waits, rearm, asked, exists, selected>>
      BY <1>2, <1>3 DEF setupVars, watcherVars
    <2>2. outside_event => outside_event'
      BY <1>2 DEF outside_event
    <2> QED
      BY <1>2, <1>4, <2>1, <2>2 DEF ReturnInv
  <1> QED
    BY <1>4, <1>5, <1>6, <1>7

LEMMA CommitsKeeps ==
    ASSUME Inv, NoRace, NEW p \in Presets, Commits(p)
    PROVE  SignalInv' /\ OwnInv' /\ WatchInv' /\ ReturnInv'
  <1> TypeInv /\ SignalInv /\ OwnInv /\ WatchInv /\ ReturnInv
    BY DEF Inv
  <1>1. selected \in Presets
    BY PresetFacts DEF TypeInv
  <1>2. /\ UNCHANGED <<last_key, projection, publish_pending, shown, setupVars, watcherVars, events,
                       own, suppress, pending_content, asked, selected, there>>
        /\ publish_content(p) /\ draft' = draft \ {p}
        /\ \A e \in events : e.by = "program"
    BY DEF Commits, commit_draft, fileVars, ownVars, publishVars, NoRace, Unmixed
  <1>3. UNCHANGED <<exists, file(selected)>>
    BY <1>2, SelectedKept
  <1>4. /\ SignalInv'
        /\ Coming(selected, signals, last_key) => Coming(selected, signals', last_key)
        /\ ContentIn(selected, signals) => ContentIn(selected, signals')
        /\ ContentIn(p, signals')
        /\ selected \in exists => fallback' = NoPreset
    BY <1>2, Published
  <1>5. OwnInv'
    BY <1>2, <1>3 DEF OwnInv, effective
  <1>6. WatchInv'
    <2>1. CASE p = selected
      BY <1>2, <1>4, <2>1 DEF WatchInv, Followed, ContentComing, setupVars
    <2>2. CASE p # selected
      <3>1. Settles => Settles'
        BY <1>2, <1>3, <2>2 DEF Settles, Drafted, setupVars, watcherVars
      <3> QED
        BY <1>2, <1>3, <1>4, <3>1 DEF WatchInv, Followed, ContentComing, setupVars
    <2> QED
      BY <2>1, <2>2
  <1>7. ReturnInv'
    BY <1>2, <1>3, <1>4 DEF ReturnInv, outside_event, setupVars, watcherVars
  <1> QED
    BY <1>4, <1>5, <1>6, <1>7

LEMMA ForeignKeeps ==
    ASSUME Inv, NoRace, NEW f \in Files, ForeignEdit(f) \/ ForeignDelete(f) \/ ForeignReturn(f)
    PROVE  SignalInv' /\ OwnInv' /\ WatchInv' /\ ReturnInv'
  <1> TypeInv /\ SignalInv /\ OwnInv /\ WatchInv /\ ReturnInv
    BY DEF Inv
  <1>1. /\ UNCHANGED <<last_key, projection, publish_pending, shown, setupVars, watched, rearm,
                       waits, own, suppress, pending_content, asked, draft, selected, fallback, sent,
                       signals>>
        /\ events' \in {events, events \cup {[path |-> f, by |-> "other"]}}
        /\ f.name \notin own /\ suppress = NoPreset /\ ~ content_waits
        /\ watched = f /\ armed /\ ~ ForeignReturn(f)
               => events' = events \cup {[path |-> f, by |-> "other"]}
    BY DEF ForeignEdit, ForeignDelete, ForeignReturn, foreign_change, Reaches, Tells, noticed,
           publishVars, watcherVars, ownVars, engineVars, NoRace
  <1>2. pending_content = NoPreset /\ ~ content_signal(signals)
    BY <1>1, ContentWaits
  <1>3. SignalInv'
    BY <1>1, SignalFrame DEF signalVars
  <1>4. OwnInv'
    <2>1. \A e \in events' : e \in events \/ e.path = f
      BY <1>1
    <2> QED
      BY <1>1, <1>2, <2>1 DEF OwnInv
  <1>5. events \subseteq events' /\ (outside_event => outside_event')
    BY <1>1 DEF outside_event
  <1>6. /\ selected \in Presets /\ \A g \in Files : g.name = selected <=> g \in files_of(selected)
        /\ user(selected) # builtin(selected)
        /\ file(selected) \in files_of(selected)
    BY PresetFacts, FileFacts DEF TypeInv
  <1>7. CASE /\ selected \in exists' <=> selected \in exists
             /\ selected \in exists => UNCHANGED file(selected) /\ file(selected) \in there'
             /\ selected \in exists /\ watched \in files_of(selected) /\ watched \in there
                    => watched \in there'
    <2>1. armed' = armed \/ watched \notin there'
      BY <1>7 DEF ForeignEdit, ForeignDelete, ForeignReturn, foreign_change, watcherVars, TypeInv,
         CoordinatorOK
    <2>2. selected \in exists /\ Settles => Settles'
      BY <1>1, <1>5, <1>7, <2>1 DEF Settles, Drafted, setupVars
    <2>3. WatchInv'
      BY <1>1, <1>7, <2>2 DEF WatchInv, Followed, ContentComing, setupVars
    <2>4. ReturnInv'
      BY <1>1, <1>5, <1>7 DEF ReturnInv, setupVars
    <2> QED
      BY <1>3, <1>4, <2>3, <2>4
  <1>8. CASE f.name # selected \/ ForeignEdit(f)
    <2>1. \A g \in files_of(selected) : g \in there' <=> g \in there
      BY <1>6, <1>8 DEF ForeignEdit, ForeignDelete, ForeignReturn, foreign_change, files_of
    <2>2. /\ selected \in exists' <=> selected \in exists
          /\ UNCHANGED file(selected)
      BY <1>1, <1>6, <2>1 DEF exists, file, files_of
    <2>3. selected \in exists => file(selected) \in there
      BY <1>6, FileFacts
    <2> QED
      BY <1>6, <1>7, <2>1, <2>2, <2>3
  <1>9. CASE f.name = selected /\ ForeignDelete(f)
    <2>1. /\ watched = file(selected) /\ armed /\ watch.path \in {NoPreset, watched}
          /\ f \in there /\ there' = there \ {f} /\ f \in files_of(selected) /\ ~ Shadows(f)
      BY <1>6, <1>9 DEF ForeignDelete, Reaches, foreign_change, NoRace
    <2>2. CASE f = file(selected)
      <3>1. selected \notin exists'
        BY <1>1, <1>6, <2>1, <2>2 DEF Shadows, exists, file, files_of
      <3>2. outside_event'
        <4>1. events' = events \cup {[path |-> f, by |-> "other"]}
          BY <1>9, <2>1, <2>2 DEF ForeignDelete, noticed
        <4>2. [path |-> f, by |-> "other"].by = "other"
          OBVIOUS
        <4> QED
          BY <4>1, <4>2 DEF outside_event
      <3>3. WatchInv'
        BY <1>1, <3>1 DEF WatchInv, setupVars
      <3>4. NoPreset \notin files_of(selected)
        BY <1>6, FileFacts
      <3>5. ReturnInv'
        BY <1>1, <2>1, <3>1, <3>2, <3>4 DEF ReturnInv, setupVars
      <3> QED
        BY <1>3, <1>4, <3>3, <3>5
    <2>3. CASE f # file(selected)
      <3>1. user(selected) \in there /\ f = builtin(selected) /\ watched = user(selected)
        BY <1>6, <2>1, <2>3 DEF file, files_of
      <3>2. user(selected) \in there'
        BY <1>6, <2>1, <3>1
      <3>3. /\ selected \in exists' /\ selected \in exists
            /\ file(selected)' = user(selected) /\ file(selected) = user(selected)
        BY <1>1, <1>6, <3>1, <3>2 DEF exists, file
      <3> QED
        BY <1>7, <3>1, <3>2, <3>3
    <2> QED
      BY <2>2, <2>3
  <1>10. CASE f.name = selected /\ ForeignReturn(f)
    <2>1. there' = there \cup {f} /\ f \notin there /\ f \in files_of(selected) /\ ~ Shadows(f)
      BY <1>6, <1>10 DEF ForeignReturn, foreign_change, NoRace
    <2>2. CASE selected \in exists
      <3>1. user(selected) \in there /\ user(selected) \in there'
        BY <2>1, <2>2 DEF Shadows, exists, files_of
      <3>2. selected \in exists' /\ file(selected)' = user(selected) /\ file(selected) = user(selected)
        BY <1>1, <1>6, <3>1 DEF exists, file
      <3> QED
        BY <1>7, <2>1, <2>2, <3>1, <3>2
    <2>3. CASE selected \notin exists
      <3>1. /\ watched = f /\ watch = NoWatch /\ ~ restart
            /\ rearm \/ \E e \in events : e.path = f
            /\ UNCHANGED <<armed, events>>
        BY <1>10, <2>3 DEF ForeignReturn, watcherVars, NoRace
      <3>2. NoWatch.at = "none" /\ NoWatch.path = NoPreset
        BY DEF NoWatch
      <3>3. selected \in exists' /\ file(selected)' = f
        BY <1>1, <1>6, <2>1, <2>3 DEF exists, file, files_of
      <3>4. rearm \/ events # {}
        BY <3>1
      <3>5. Settles'
        BY <1>1, <2>1, <3>1, <3>2, <3>3, <3>4 DEF WatchInv, Settles, setupVars
      <3>6. WatchInv'
        BY <1>1, <3>5 DEF WatchInv, Followed, setupVars
      <3>7. waits \/ outside_event
        BY <2>1, <2>3, <3>1 DEF ReturnInv
      <3>8. ReturnInv'
        BY <1>1, <1>5, <2>1, <3>1, <3>2, <3>3, <3>4, <3>7 DEF ReturnInv, setupVars
      <3> QED
        BY <1>3, <1>4, <3>6, <3>8
    <2> QED
      BY <2>2, <2>3
  <1> QED
    BY <1>8, <1>9, <1>10

LEMMA EnvironmentKeeps ==
    ASSUME Inv, NoRace, Environment
    PROVE  SignalInv' /\ OwnInv' /\ WatchInv' /\ ReturnInv'
  <1>1. CASE PageLooksUp
    <2>1. /\ ensure_selected_manifest
          /\ UNCHANGED <<last_key, publishVars, setupVars, watcherVars, events, ownVars, draft>>
      BY <1>1 DEF PageLooksUp, engineVars
    <2>2. SignalInv' /\ OwnInv'
      BY <2>1, LookUpKeeps DEF Inv, publishVars
    <2> QED
      BY <2>1, <2>2, LookUpWatch DEF Inv
  <1> QED
    BY <1>1, SelectsKeeps, SavesKeeps, CommitsKeeps, ForeignKeeps DEF Environment

-----------------------------------------------------------------------------
(* The theorems *)

LEMMA InitInv ==
    ASSUME Init
    PROVE  Inv
  <1>1. /\ sent = NoPreset /\ fallback = NoPreset /\ signals = <<>> /\ last_key = NoPreset
        /\ projection = selected /\ shown = selected /\ exists = Presets /\ selected \in Presets
        /\ events = {} /\ pending_content = NoPreset
        /\ watch = [NoWatch EXCEPT !.at = "resolves"] /\ pending_watch = NoPreset
        /\ setup_pending = FALSE
    BY DEF Init, SelectionInit
  <1>2. Len(signals) = 0 /\ ~ \E i \in 1..Len(signals) : TRUE
    BY <1>1
  <1>3. SignalInv
    <2>1. LastIs(signals, projection, Shows, selected) /\ LastIs(signals, last_key, Switches, NoPreset)
      BY <1>1, <1>2 DEF LastIs
    <2> QED
      BY <1>1, <2>1, SelectionAssumption DEF SignalInv, shown_of
  <1>4. OwnInv
    BY <1>1 DEF OwnInv
  <1>5. watch.at = "resolves" /\ watch.for = NoPreset /\ watch.path = NoPreset
    BY <1>1 DEF NoWatch
  <1>6. WatchInv
    BY <1>1, <1>5 DEF WatchInv, Followed, Settles
  <1>7. ReturnInv
    BY <1>1 DEF ReturnInv
  <1> QED
    BY <1>3, <1>4, <1>6, <1>7, InitType DEF Inv

LEMMA InvKept ==
    ASSUME Inv, NoRace, [Next]_vars
    PROVE  Inv'
  <1>1. TypeInv'
    BY TypeKept DEF Inv
  <1>2. SignalInv' /\ OwnInv' /\ WatchInv' /\ ReturnInv'
    <2>1. CASE UNCHANGED vars
      BY <2>1, SignalFrame, OwnFrame, WatchFrame, ReturnFrame
         DEF Inv, vars, selectionVars, publishVars, setupVars, watcherVars, ownVars, engineVars,
             signalVars
    <2> QED
      BY <2>1, ProgramKeeps, EnvironmentKeeps DEF Next
  <1> QED
    BY <1>1, <1>2 DEF Inv

LEMMA InvFollows ==
    ASSUME Inv
    PROVE  SelectionFollowed
  <1> SUFFICES ASSUME AtRest, selected \in exists
               PROVE  /\ shown = selected
                      /\ \/ watched = file(selected) /\ armed
                         \/ selected \in draft /\ watched = builtin(selected)
    BY DEF SelectionFollowed
  <1>1. /\ signals = <<>> /\ ~ publish_pending /\ watch = NoWatch /\ ~ restart /\ ~ rearm /\ events = {}
        /\ asked = {} /\ pending_content = NoPreset
    BY DEF AtRest
  <1>2. ~ \E i \in 1..Len(signals) : TRUE
    BY <1>1
  <1>3. NoWatch.at = "none" /\ NoWatch.path = NoPreset
    BY DEF NoWatch
  <1>4. (watched = file(selected) /\ armed) \/ (selected \in draft /\ watched = builtin(selected))
    <2>1. selected # NoPreset
      BY PresetFacts, SelectionAssumption DEF Inv, TypeInv
    <2>2. ~ Coming(selected, signals, last_key) /\ ~ ContentComing(selected, signals, pending_content)
      BY <1>1, <1>2, <2>1 DEF Coming, ContentComing, ContentIn
    <2>3. Settles /\ ~ setup_pending
      BY <1>1, <1>3, <2>2 DEF Inv, WatchInv, Followed
    <2> QED
      BY <1>1, <1>3, <2>3 DEF Settles, Drafted
  <1>5. fallback = NoPreset
    BY <1>1 DEF Inv, ReturnInv, outside_event
  <1>6. projection = selected
    BY <1>2, <1>5 DEF Inv, SignalInv, LastIs, shown_of
  <1> QED
    BY <1>1, <1>4, <1>6 DEF Inv, SignalInv

\* Whenever nothing is under way the file the selected preset is read from is
\* watched, so that its next change is noticed, or only the copy a draft has
\* made of it is not yet; and the preset is shown as the active one: through
\* selections, saves, drafts and their commits, replacements of a missing
\* preset and the changes of other programs, as long as these fall into none
\* of the moments "own", "gap", "shadow", "late" and "timer".
THEOREM SelectionAlwaysFollowed ==
    ASSUME {"own", "gap", "shadow", "late", "timer"} \cap Windows = {}
    PROVE  Spec => []SelectionFollowed
  <1>1. NoRace
    BY DEF NoRace
  <1>2. Inv /\ [Next]_vars => Inv'
    BY <1>1, InvKept
  <1> QED
    BY <1>2, InitInv, InvFollows, PTL DEF Spec

-----------------------------------------------------------------------------
(* Changes by other programs alone are applied as such *)

\* An event of a write of the program comes while the write is known.
KnownInv ==
    TypeInv /\ \A e \in events : e.by = "program" => e.path.name \in own /\ e.path = user(e.path.name)

LEMMA KnownKept ==
    ASSUME KnownInv, "slow" \notin Windows, [Next]_vars
    PROVE  KnownInv'
  <1>1. TypeInv'
    BY TypeKept DEF KnownInv
  <1>2. CASE UNCHANGED vars
    BY <1>1, <1>2 DEF vars, ownVars, KnownInv
  <1>3. CASE Program
    <2>1. events' \subseteq events /\ (UNCHANGED own \/ \E p \in own : OwnWriteExpires(p))
      <3>1. CASE HandleSignal
        BY <3>1 DEF HandleSignal, handle_preset_switched, handle_selection_restored, switch_to,
               handle_selection_fallback, handle_preset_content_changed, ownVars
      <3>2. CASE SuppressExpires \/ apply_pending_preset_content_change
        BY <3>2 DEF SuppressExpires, apply_pending_preset_content_change
      <3>3. CASE \E p \in own : OwnWriteExpires(p)
        BY <3>3 DEF OwnWriteExpires
      <3>4. CASE \E e \in events : on_active_preset_file_changed(e)
        BY <3>4 DEF on_active_preset_file_changed, ownVars
      <3> QED
        BY <1>3, <3>1, <3>2, <3>3, <3>4 DEF Program, publish_active_preset_revision, resolve_path,
               WatchWorkerEnds, on_watch_path_loaded, on_watch_worker_finished, start_watch_worker,
               RearmTimer, EngineApplies, ownVars
    <2>2. CASE UNCHANGED own
      BY <1>1, <2>1, <2>2 DEF KnownInv
    <2>3. CASE \E p \in own : OwnWriteExpires(p)
      <3>1. PICK p \in own : OwnWriteExpires(p)
        BY <2>3
      <3>2. own' = own \ {p} /\ [path |-> user(p), by |-> "program"] \notin events /\ events' = events
        BY <3>1 DEF OwnWriteExpires
      <3>3. ASSUME NEW e \in events, e.by = "program"
            PROVE  e.path.name # p
        <4>1. e = [path |-> e.path, by |-> e.by] /\ e.path = user(e.path.name)
          BY <3>3 DEF KnownInv, TypeInv, CoordinatorOK, Events
        <4> QED
          BY <3>2, <3>3, <4>1
      <3> QED
        BY <1>1, <3>2, <3>3 DEF KnownInv
    <2> QED
      BY <2>1, <2>2, <2>3
  <1>4. CASE Environment
    <2>1. CASE PageLooksUp \/ \E p \in Presets : Selects(p) \/ Commits(p)
      BY <1>1, <2>1 DEF PageLooksUp, Selects, Commits, ownVars, KnownInv
    <2>2. CASE \E f \in Files : ForeignEdit(f) \/ ForeignDelete(f) \/ ForeignReturn(f)
      <3>1. PICK f \in Files : ForeignEdit(f) \/ ForeignDelete(f) \/ ForeignReturn(f)
        BY <2>2
      <3>2. own' = own /\ events' \subseteq events \cup {[path |-> f, by |-> "other"]}
        BY <3>1 DEF ForeignEdit, ForeignDelete, ForeignReturn, noticed, ownVars
      <3> QED
        BY <1>1, <3>2 DEF KnownInv
    <2>3. CASE \E p \in Presets, b \in BOOLEAN : Saves(p, b)
      <3>1. PICK p \in Presets, b \in BOOLEAN : Saves(p, b)
        BY <2>3
      <3>2. own' = own \cup {p} /\ events' \subseteq events \cup {[path |-> user(p), by |-> "program"]}
              /\ user(p).name = p
        BY <3>1, FileFacts DEF Saves, noticed
      <3> QED
        BY <1>1, <3>2 DEF KnownInv
    <2> QED
      BY <1>4, <2>1, <2>2, <2>3 DEF Environment
  <1> QED
    BY <1>2, <1>3, <1>4 DEF Next

\* An event that goes was handled.
LEMMA EventHandled ==
    ASSUME [Next]_vars, NEW e \in events \ events'
    PROVE  on_active_preset_file_changed(e)
  <1>1. CASE \E d \in events : on_active_preset_file_changed(d)
    BY <1>1 DEF on_active_preset_file_changed
  <1>2. CASE Program /\ ~ \E d \in events : on_active_preset_file_changed(d)
    <2>1. events' = events
      BY <1>2 DEF Program, HandleSignal, publish_active_preset_revision,
             apply_pending_preset_content_change, resolve_path, WatchWorkerEnds, on_watch_path_loaded,
             on_watch_worker_finished, start_watch_worker, RearmTimer,
             EngineApplies, SuppressExpires, OwnWriteExpires
    <2> QED
      BY <2>1
  <1>3. CASE Environment
    <2>1. events \subseteq events'
      BY <1>3 DEF Environment, PageLooksUp, Selects, Saves, Commits, ForeignEdit, ForeignDelete,
         ForeignReturn, noticed
    <2> QED
      BY <2>1
  <1>4. CASE UNCHANGED vars
    BY <1>4 DEF vars
  <1> QED
    BY <1>1, <1>2, <1>3, <1>4 DEF Next

\* No event of a write by the program makes the engine read the preset again
\* as changed by another program, unless a file waited for is there: the
\* registry of own writes knows the write until its event is handled, as long
\* as the event comes in time.
THEOREM OnlyForeignAlwaysApplied ==
    ASSUME "slow" \notin Windows
    PROVE  Spec => OnlyForeignApplied
  <1>1. Init => KnownInv
    BY InitType DEF KnownInv, Init
  <1>2. KnownInv /\ [Next]_vars => KnownInv'
    BY KnownKept
  <1>3. KnownInv /\ [Next]_vars =>
            [\A e \in events \ events' :
                 e.by = "program" /\ ~ waits => "external" \notin asked' \ asked]_vars
    <2> SUFFICES ASSUME KnownInv, [Next]_vars, NEW e \in events \ events', e.by = "program", ~ waits
                 PROVE  asked' = asked
      OBVIOUS
    <2>1. on_active_preset_file_changed(e)
      BY EventHandled
    <2>2. consume_own_change(e.path)
      BY DEF KnownInv, consume_own_change
    <2> QED
      BY <2>1, <2>2 DEF on_active_preset_file_changed
  <1> QED
    BY <1>1, <1>2, <1>3, PTL DEF Spec, OnlyForeignApplied
=============================================================================
