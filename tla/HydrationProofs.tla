--------------------------- MODULE HydrationProofs ---------------------------
(***************************************************************************)
(* The startup pass keeps its promise, for any logs of any topics; and one *)
(* enablement that races with it leaves the caches right in the end.       *)
(***************************************************************************)
EXTENDS HydrationResult, StartupRace, AgreementProofs

-----------------------------------------------------------------------------
(* What a cache holds for a set of records, and for one more.              *)

\* A place after all others is the latest.
LEMMA LatestAdded ==
    ASSUME NEW places \in SUBSET (Int \X Int), NEW p \in Int \X Int,
           \A q \in places : Precedes(q, p)
    PROVE  Latest(places \cup {p}) = p
<1>1. IsLatest(p, places \cup {p})
  BY DEF IsLatest
<1>2. ASSUME NEW r \in places \cup {p}, IsLatest(r, places \cup {p})
      PROVE  r = p
  BY <1>2 DEF IsLatest, Precedes
<1> QED BY <1>1, <1>2 DEF Latest

\* A set of records has a latest one, unless it is empty.
HasLatest(places) == places = {} \/ \E p \in places : IsLatest(p, places)

Traced(places, d) == HasLatest(ConfigsIn(places, d)) /\ HasLatest(EvidenceIn(places, d))

LEMMA LatestIn ==
    ASSUME NEW places, places # {}, HasLatest(places)
    PROVE  Latest(places) \in places
  BY DEF HasLatest, Latest

\* What is recorded when the record at p is applied after those at the places before.
LEMMA StateAdded ==
    ASSUME NEW places \in SUBSET (Int \X Int), NEW p \in Int \X Int, NEW d,
           \A q \in places : Precedes(q, p), Traced(places, d),
           \A q \in places : ConfiguresAt(q, d) => ConfiguredAt(q) # None
    PROVE  LET more == places \cup {p}
               before == StateFrom(places, d)
           IN  /\ Traced(more, d)
               /\ ConfiguresAt(p, d) =>
                     /\ StateFrom(more, d) = ConfiguredAt(p)
                     /\ MetadataFrom(more, d) = MetadataAt(p)
               /\ ~ConfiguresAt(p, d) => MetadataFrom(more, d) = MetadataFrom(places, d)
               /\ IsEvidenceAt(p, d) => StateFrom(more, d) =
                     IF before # None /\ before.state = "Bypassed" THEN before ELSE InferredAt(p)
               /\ ~ConfiguresAt(p, d) /\ ~IsEvidenceAt(p, d) => StateFrom(more, d) = before
<1> DEFINE more == places \cup {p}
           before == StateFrom(places, d)
           configs == ConfigsIn(places, d)
           evidence == EvidenceIn(places, d)
<1>1. /\ configs \in SUBSET (Int \X Int) /\ \A q \in configs : Precedes(q, p)
      /\ evidence \in SUBSET (Int \X Int) /\ \A q \in evidence : Precedes(q, p)
  BY DEF ConfigsIn, EvidenceIn
<1>2. Latest(configs \cup {p}) = p /\ Latest(evidence \cup {p}) = p
  BY <1>1, LatestAdded
<1>3. /\ ConfigsIn(more, d) = IF ConfiguresAt(p, d) THEN configs \cup {p} ELSE configs
      /\ EvidenceIn(more, d) = IF IsEvidenceAt(p, d) THEN evidence \cup {p} ELSE evidence
  BY DEF ConfigsIn, EvidenceIn
<1>4. ~(ConfiguresAt(p, d) /\ IsEvidenceAt(p, d))
  BY DEF ConfiguresAt, IsEvidenceAt
<1>5. /\ evidence # {} => Precedes(Latest(evidence), p)
      /\ configs # {} => ~Precedes(p, Latest(configs))
  <2>1. /\ evidence # {} => Latest(evidence) \in evidence
        /\ configs # {} => Latest(configs) \in configs
    BY LatestIn DEF Traced
  <2>2. \A q \in configs : ~Precedes(p, q)
    BY <1>1 DEF Precedes
  <2> QED BY <1>1, <2>1, <2>2
<1> HIDE DEF more, configs, evidence
<1>6. Traced(more, d)
  <2>1. IsLatest(p, configs \cup {p}) /\ IsLatest(p, evidence \cup {p})
    BY <1>1 DEF IsLatest
  <2>2. HasLatest(configs) /\ HasLatest(evidence)
    BY DEF Traced, configs, evidence
  <2> QED BY <1>3, <2>1, <2>2 DEF Traced, HasLatest
<1>7. ASSUME ConfiguresAt(p, d)
      PROVE  StateFrom(more, d) = ConfiguredAt(p) /\ MetadataFrom(more, d) = MetadataAt(p)
  <2>1. /\ ConfigsIn(more, d) # {} /\ Latest(ConfigsIn(more, d)) = p
        /\ EvidenceIn(more, d) = evidence
    BY <1>2, <1>3, <1>4, <1>7
  <2> QED BY <1>5, <2>1 DEF StateFrom, MetadataFrom
<1>8. ASSUME ~ConfiguresAt(p, d)
      PROVE  MetadataFrom(more, d) = MetadataFrom(places, d)
  BY <1>3, <1>8 DEF MetadataFrom, configs
<1>9. ASSUME ~ConfiguresAt(p, d), ~IsEvidenceAt(p, d)
      PROVE  StateFrom(more, d) = before
  BY <1>3, <1>9 DEF StateFrom, configs, evidence
<1>10. ASSUME IsEvidenceAt(p, d)
       PROVE  StateFrom(more, d) =
                  IF before # None /\ before.state = "Bypassed" THEN before ELSE InferredAt(p)
  <2>1. /\ EvidenceIn(more, d) # {} /\ Latest(EvidenceIn(more, d)) = p
        /\ ConfigsIn(more, d) = configs
    BY <1>2, <1>3, <1>4, <1>10
  <2>2. \A q : InferredAt(q).state # "Bypassed"
    BY DEF InferredAt, Plain, severity_to_state
  <2> DEFINE configured == ConfiguredAt(Latest(configs))
  <2>3. StateFrom(more, d) = IF configs # {} /\ configured.state = "Bypassed"
                             THEN configured ELSE InferredAt(p)
    BY <1>5, <2>1 DEF StateFrom
  <2>4. CASE configs = {}
    <3>1. before = None \/ before.state # "Bypassed"
      BY <2>2, <2>4 DEF StateFrom, configs
    <3> QED BY <2>3, <2>4, <3>1
  <2>5. CASE configs # {}
    <3>a. configured # None
      <4>1. Latest(configs) \in configs
        BY <2>5, LatestIn DEF Traced, configs
      <4> QED BY <4>1 DEF configs, ConfigsIn
    <3>1. before = configured \/ (configured.state # "Bypassed" /\ before.state # "Bypassed")
      BY <2>2, <2>5 DEF StateFrom, configs
    <3> QED BY <2>3, <2>5, <3>a, <3>1
  <2> QED BY <2>4, <2>5
<1> QED BY <1>6, <1>7, <1>8, <1>9, <1>10 DEF more

-----------------------------------------------------------------------------
(* The rest of a sequence.                                                 *)

LEMMA RestOf ==
    ASSUME NEW S, NEW queue \in Seq(S), NEW n \in 1 .. Len(queue) + 1
    PROVE  LET rest == From(queue, n) IN
           /\ rest \in Seq(S) /\ Len(rest) = Len(queue) - n + 1
           /\ rest = <<>> <=> n = Len(queue) + 1
           /\ rest # <<>> =>
                 /\ n \in DOMAIN queue /\ Head(rest) = queue[n]
                 /\ Tail(rest) = From(queue, n + 1)
<1> DEFINE rest == From(queue, n)
<1>1. \A i \in n .. Len(queue) : queue[i] \in S
  OBVIOUS
<1>2. rest \in Seq(S) /\ Len(rest) = IF n <= Len(queue) THEN Len(queue) - n + 1 ELSE 0
  BY <1>1, SubSeqProperties DEF From
<1>3. n <= Len(queue) => Head(rest) = queue[n] /\ Tail(rest) = From(queue, n + 1)
  BY HeadTailOfSubSeq DEF From
<1> HIDE DEF rest
<1>4. rest = <<>> <=> Len(rest) = 0
  BY <1>2
<1> QED BY <1>2, <1>3, <1>4 DEF rest

LEMMA WholeRest ==
    ASSUME NEW S, NEW queue \in Seq(S)
    PROVE  From(queue, 1) = queue
  BY SubSeqFull DEF From

-----------------------------------------------------------------------------
(* Places.                                                                 *)

LEMMA PlacesTyped ==
    ASSUME ExternalTypeOK
    PROVE  /\ Places \in SUBSET (Int \X Int)
           /\ \A p \in Places : /\ p[1] \in 1 .. Len(TopicSeq) /\ TopicSeq[p[1]] \in PhoebusTopics
                                /\ p[2] \in 1 .. Len(retained[TopicSeq[p[1]]])
                                /\ RecordAt(p) \in PhoebusMsg
           /\ \A i \in 1 .. Len(TopicSeq) :
                 /\ TopicSeq[i] \in PhoebusTopics
                 /\ retained[TopicSeq[i]] \in Seq(PhoebusMsg)
                 /\ \A j \in 1 .. Len(retained[TopicSeq[i]]) : <<i, j>> \in Places
<1>1. DOMAIN TopicSeq = 1 .. Len(TopicSeq) /\ Len(TopicSeq) \in Nat
  BY TopicAssumption
<1>2. \A i \in 1 .. Len(TopicSeq) : TopicSeq[i] \in PhoebusTopics
  BY <1>1 DEF PhoebusTopics, Range
<1>3. \A t \in PhoebusTopics : /\ retained[t] \in Seq(PhoebusMsg)
                               /\ DOMAIN retained[t] = 1 .. Len(retained[t])
                               /\ \A j \in DOMAIN retained[t] : retained[t][j] \in PhoebusMsg
  BY DEF ExternalTypeOK
<1>4. ASSUME NEW p \in Places
      PROVE  /\ p \in Int \X Int
             /\ p[1] \in 1 .. Len(TopicSeq) /\ TopicSeq[p[1]] \in PhoebusTopics
             /\ p[2] \in 1 .. Len(retained[TopicSeq[p[1]]])
             /\ RecordAt(p) \in PhoebusMsg
  <2>0. PICK i \in DOMAIN TopicSeq : \E j \in DOMAIN retained[TopicSeq[i]] : p = <<i, j>>
    BY DEF Places
  <2>1. PICK j \in DOMAIN retained[TopicSeq[i]] : p = <<i, j>>
    BY <2>0
  <2>2. p[1] = i /\ p[2] = j
    BY <2>1
  <2>3. /\ i \in 1 .. Len(TopicSeq) /\ TopicSeq[i] \in PhoebusTopics
        /\ j \in 1 .. Len(retained[TopicSeq[i]])
        /\ retained[TopicSeq[i]][j] \in PhoebusMsg
    BY <1>1, <1>2, <1>3
  <2> QED BY <2>1, <2>2, <2>3 DEF RecordAt
<1>5. ASSUME NEW i \in 1 .. Len(TopicSeq), NEW j \in 1 .. Len(retained[TopicSeq[i]])
      PROVE  <<i, j>> \in Places
  BY <1>1, <1>2, <1>3 DEF Places
<1>6. Places \in SUBSET (Int \X Int)
  BY <1>4
<1> QED BY <1>2, <1>3, <1>4, <1>5, <1>6

-----------------------------------------------------------------------------
(* Where the pass is.                                                      *)

\* Where the rest of a sequence begins.
LEMMA RestBegins ==
    ASSUME NEW l \in Nat, NEW m \in Nat, l - m + 1 >= 1
    PROVE  l - m + 1 \in 1 .. l + 1
  OBVIOUS

\* The caches hold what is promised for the records applied so far.
Hydrated ==
    /\ HasBefore /\ OthersWait
    /\ hydration.pc = "update" => Normalizable(Head(hydration.messages).enabled)
    /\ \A d \in Device : /\ alarm_states[d] = StateFrom(Applied, d)
                         /\ metadata_cache[d] = MetadataFrom(Scoped, d)
                         /\ Traced(Applied, d) /\ Traced(Scoped, d)

LEMMA Standing ==
    ASSUME TypeOK, HasBefore
    PROVE  LET i == TopicReached
               j == Reached[2]
               log == retained[TopicSeq[i]]
           IN  /\ i \in 1 .. Len(TopicSeq) + 1 /\ Reached = <<i, j>>
               /\ hydration.todo # <<>> =>
                     /\ i \in 1 .. Len(TopicSeq)
                     /\ Head(hydration.todo) = TopicSeq[i]
                     /\ Tail(hydration.todo) = From(TopicSeq, i + 1)
                     /\ Len(Tail(hydration.todo)) = Len(hydration.todo) - 1
               /\ hydration.pc \in {"apply", "update"} =>
                     /\ hydration.todo # <<>>
                     /\ log \in Seq(PhoebusMsg) /\ j \in 1 .. Len(log) + 1
                     /\ j = Len(log) - Len(hydration.messages) + 1
                     /\ hydration.messages = <<>> => j = Len(log) + 1
                     /\ hydration.messages # <<>> =>
                           /\ Reached \in Places /\ RecordAt(Reached) = Head(hydration.messages)
                           /\ Tail(hydration.messages) = From(log, j + 1)
                           /\ Len(Tail(hydration.messages)) = Len(hydration.messages) - 1
<1> DEFINE i == TopicReached
           j == Reached[2]
           log == retained[TopicSeq[i]]
<1>1. /\ hydration.todo \in Seq(PhoebusTopics) /\ hydration.messages \in Seq(PhoebusMsg)
      /\ hydration.pc \in {"apply", "update"} => hydration.todo # <<>>
      /\ TopicSeq \in Seq(PhoebusTopics)
  <2>1. DOMAIN TopicSeq = 1 .. Len(TopicSeq) /\ TopicSeq \in Seq(TopicNames \X Nat)
    BY TopicAssumption
  <2>2. \A k \in 1 .. Len(TopicSeq) : TopicSeq[k] \in PhoebusTopics
    BY <2>1 DEF PhoebusTopics, Range
  <2> QED BY <2>1, <2>2 DEF TypeOK, HydrationTypeOK, Hydration
<1>2. /\ i \in 1 .. Len(TopicSeq) + 1 /\ hydration.todo = From(TopicSeq, i)
      /\ Len(TopicSeq) \in Nat
  <2>1. Len(TopicSeq) \in Nat /\ Len(hydration.todo) \in Nat
    BY <1>1
  <2>2. TopicReached >= 1 /\ hydration.todo = From(TopicSeq, TopicReached)
    BY DEF HasBefore
  <2>3. TopicReached \in 1 .. Len(TopicSeq) + 1
    BY <2>1, <2>2, RestBegins, Zenon DEF TopicReached
  <2> QED BY <2>1, <2>2, <2>3
<1>3. Reached = <<i, j>>
  BY DEF Reached
<1>4. ASSUME hydration.todo # <<>>
      PROVE  /\ i \in 1 .. Len(TopicSeq)
             /\ Head(hydration.todo) = TopicSeq[i]
             /\ Tail(hydration.todo) = From(TopicSeq, i + 1)
             /\ Len(Tail(hydration.todo)) = Len(hydration.todo) - 1
  <2>1. /\ i \in DOMAIN TopicSeq /\ Head(hydration.todo) = TopicSeq[i]
        /\ Tail(hydration.todo) = From(TopicSeq, i + 1)
    BY <1>1, <1>2, <1>4, RestOf
  <2> QED BY <1>1, <1>4, <2>1
<1>5. ASSUME hydration.pc \in {"apply", "update"}
      PROVE  /\ log \in Seq(PhoebusMsg) /\ j \in 1 .. Len(log) + 1
             /\ j = Len(log) - Len(hydration.messages) + 1
             /\ hydration.messages = From(log, j)
  <2>1. log \in Seq(PhoebusMsg)
    BY <1>1, <1>4, <1>5, PlacesTyped DEF TypeOK
  <2>2. j = Len(log) - Len(hydration.messages) + 1
    BY <1>5 DEF Reached
  <2>3. j >= 1 /\ hydration.messages = From(log, j)
    BY <1>5 DEF HasBefore
  <2>4. Len(log) \in Nat /\ Len(hydration.messages) \in Nat
    BY <1>1, <2>1
  <2> HIDE DEF j, log
  <2>5. j \in 1 .. Len(log) + 1
    BY <2>2, <2>3, <2>4, RestBegins, Zenon
  <2> QED BY <2>1, <2>2, <2>3, <2>5
<1> HIDE DEF i, j, log
<1>6. ASSUME hydration.pc \in {"apply", "update"}, hydration.messages = <<>>
      PROVE  j = Len(log) + 1
  BY <1>5, <1>6, RestOf
<1>7. ASSUME hydration.pc \in {"apply", "update"}, hydration.messages # <<>>
      PROVE  /\ Reached \in Places /\ RecordAt(Reached) = Head(hydration.messages)
             /\ Tail(hydration.messages) = From(log, j + 1)
             /\ Len(Tail(hydration.messages)) = Len(hydration.messages) - 1
  <2>a. From(log, j) # <<>>
    BY <1>5, <1>7
  <2>1. /\ j \in DOMAIN log /\ Head(hydration.messages) = log[j]
        /\ Tail(hydration.messages) = From(log, j + 1)
    <3>1. log \in Seq(PhoebusMsg) /\ j \in 1 .. Len(log) + 1
      BY <1>5, <1>7
    <3>2. /\ j \in DOMAIN log /\ Head(From(log, j)) = log[j]
          /\ Tail(From(log, j)) = From(log, j + 1)
      BY <2>a, <3>1, RestOf
    <3> QED BY <1>5, <1>7, <3>2
  <2>2. Reached \in Places
    BY <1>1, <1>3, <1>4, <1>5, <1>7, <2>1, PlacesTyped DEF TypeOK, log
  <2>3. RecordAt(Reached) = log[j]
    BY <1>3 DEF RecordAt, log
  <2> QED BY <1>1, <1>7, <2>1, <2>2, <2>3
<1> QED BY <1>1, <1>2, <1>3, <1>4, <1>5, <1>6, <1>7 DEF i, j, log

\* The records before a place, and before the next one.
Before(p) == {q \in Places : Precedes(q, p)}

LEMMA BeforeNext ==
    ASSUME ExternalTypeOK, NEW i \in Int, NEW j \in Int
    PROVE  /\ <<i, j>> \in Places => Before(<<i, j + 1>>) = Before(<<i, j>>) \cup {<<i, j>>}
           /\ i \in 1 .. Len(TopicSeq) /\ j = Len(retained[TopicSeq[i]]) + 1
                 => Before(<<i + 1, 1>>) = Before(<<i, j>>)
           /\ \A q \in Before(<<i, j>>) : Precedes(q, <<i, j>>)
           /\ Before(<<i, j>>) \in SUBSET (Int \X Int)
<1>1. Places \in SUBSET (Int \X Int)
  BY PlacesTyped
<1>2. ASSUME <<i, j>> \in Places
      PROVE  Before(<<i, j + 1>>) = Before(<<i, j>>) \cup {<<i, j>>}
  <2>1. ASSUME NEW q \in Places
        PROVE  Precedes(q, <<i, j + 1>>) <=> Precedes(q, <<i, j>>) \/ q = <<i, j>>
    BY <1>1 DEF Precedes
  <2> QED BY <1>2, <2>1 DEF Before
<1>3. ASSUME i \in 1 .. Len(TopicSeq), j = Len(retained[TopicSeq[i]]) + 1
      PROVE  Before(<<i + 1, 1>>) = Before(<<i, j>>)
  <2>1. ASSUME NEW q \in Places
        PROVE  Precedes(q, <<i + 1, 1>>) <=> Precedes(q, <<i, j>>)
    <3>1. q[1] \in Int /\ q[2] \in 1 .. Len(retained[TopicSeq[q[1]]]) /\ q[2] \in Int
      BY <1>1, PlacesTyped
    <3>2. Len(retained[TopicSeq[i]]) \in Nat
      BY <1>3, PlacesTyped
    <3>3. q[1] = i => q[2] < j
      BY <1>3, <3>1, <3>2
    <3>4. q[1] = i + 1 => ~(q[2] < 1)
      <4>1. CASE q[1] = i + 1
        <5>1. q[1] \in 1 .. Len(TopicSeq) /\ Len(retained[TopicSeq[q[1]]]) \in Nat
          BY PlacesTyped
        <5> QED BY <3>1, <5>1
      <4> QED BY <4>1
    <3> QED BY <3>1, <3>3, <3>4 DEF Precedes
  <2> QED BY <2>1 DEF Before
<1> QED BY <1>1, <1>2, <1>3 DEF Before

-----------------------------------------------------------------------------
(* How the pass moves.                                                     *)

LEMMA BeforeReached ==
    /\ Scoped = Before(Reached)
    /\ Applied = IF hydration.pc = "update" THEN Scoped \cup {Reached} ELSE Scoped
  BY DEF Scoped, Applied, Before

\* While logs and clock stand still, what is promised for some records stands.
LEMMA PromiseKept ==
    ASSUME NEW d, NEW applied, NEW scoped, UNCHANGED <<retained, now>>,
           Applied' = applied, Scoped' = scoped
    PROVE  /\ StateFrom(Applied, d)' = StateFrom(applied, d)
           /\ MetadataFrom(Scoped, d)' = MetadataFrom(scoped, d)
           /\ Traced(Applied, d)' <=> Traced(applied, d)
           /\ Traced(Scoped, d)' <=> Traced(scoped, d)
<1>1. \A p : RecordAt(p)' = RecordAt(p)
  BY DEF RecordAt
<1>2. /\ \A p : ConfiguresAt(p, d)' <=> ConfiguresAt(p, d)
      /\ \A p : IsEvidenceAt(p, d)' <=> IsEvidenceAt(p, d)
      /\ \A p : ConfiguredAt(p)' = ConfiguredAt(p)
      /\ \A p : InferredAt(p)' = InferredAt(p)
      /\ \A p : MetadataAt(p)' = MetadataAt(p)
  BY <1>1 DEF ConfiguresAt, IsEvidenceAt, ConfiguredAt, InferredAt, MetadataAt
<1>3. /\ ConfigsIn(Applied, d)' = ConfigsIn(applied, d)
      /\ ConfigsIn(Scoped, d)' = ConfigsIn(scoped, d)
      /\ EvidenceIn(Applied, d)' = EvidenceIn(applied, d)
      /\ EvidenceIn(Scoped, d)' = EvidenceIn(scoped, d)
  BY <1>2 DEF ConfigsIn, EvidenceIn
<1>4. StateFrom(Applied, d)' = StateFrom(applied, d)
  BY <1>2, <1>3 DEF StateFrom
<1>5. MetadataFrom(Scoped, d)' = MetadataFrom(scoped, d)
  BY <1>2, <1>3 DEF MetadataFrom
<1> QED BY <1>3, <1>4, <1>5 DEF Traced

\* The pass has gone through nothing more when it takes up a topic, leaves one it
\* is through with, or ends.
Stays ==
    /\ UNCHANGED <<caches, retained, now>>
    /\ HasBefore' /\ Scoped' = Scoped /\ Applied' = Scoped
    /\ hydration.pc # "update" /\ hydration'.pc # "update"

LEMMA Snapshot ==
    ASSUME TypeOK, Hydrated, HydrationSnapshot, NoFault
    PROVE  Stays
<1> DEFINE i == TopicReached
           log == retained[TopicSeq[i]]
<1>1. /\ i \in 1 .. Len(TopicSeq) /\ Head(hydration.todo) = TopicSeq[i]
      /\ TopicSeq[i] \in MonitoredTopics
      /\ log \in Seq(PhoebusMsg) /\ hydration.todo = From(TopicSeq, i)
  <2>1. i \in 1 .. Len(TopicSeq) /\ Head(hydration.todo) = TopicSeq[i]
    BY Standing DEF Hydrated, HydrationSnapshot
  <2>2. TopicSeq[i] \in PhoebusTopics /\ log \in Seq(PhoebusMsg)
    BY <2>1, PlacesTyped DEF TypeOK
  <2> QED BY <2>1, <2>2, TopicFacts DEF Hydrated, HasBefore
<1>2. hydration' = [hydration EXCEPT !.pc = "apply", !.messages = log]
  <2>1. phoebus_topics[TopicSeq[i]] = <<>>
    BY <1>1 DEF Hydrated, OthersWait
  <2>2. log \o <<>> = log
    BY <1>1
  <2>3. hydration' = [hydration EXCEPT !.pc = "apply",
                          !.messages = log \o phoebus_topics[TopicSeq[i]]]
    <3>1. ~Fault
      BY DEF NoFault, Fault, TypeOK, ExternalTypeOK
    <3> QED BY <1>1, <3>1 DEF HydrationSnapshot
  <2> QED BY <2>1, <2>2, <2>3
<1>3. /\ hydration'.pc = "apply" /\ hydration'.messages = log
      /\ hydration'.todo = hydration.todo
  BY <1>2 DEF TypeOK, HydrationTypeOK, Hydration
<1>4. hydration.pc = "snapshot" /\ UNCHANGED <<caches, retained, now>>
  BY DEF HydrationSnapshot
<1>5. TopicReached' = i
  BY <1>3 DEF TopicReached
<1>6. Reached = <<i, 1>> /\ Reached' = <<i, 1>>
  <2>1. Reached = <<i, 1>>
    BY <1>4 DEF Reached
  <2>2. Len(log) - Len(log) + 1 = 1
    BY <1>1
  <2>3. Reached' = <<i, Len(log) - Len(log) + 1>>
    BY <1>3, <1>4, <1>5 DEF Reached
  <2> QED BY <2>1, <2>2, <2>3
<1>7. HasBefore'
  <2>1. From(log, 1) = log
    BY <1>1, WholeRest
  <2> QED BY <1>1, <1>3, <1>4, <1>5, <1>6, <2>1 DEF HasBefore
<1>8. Scoped' = Scoped
  BY <1>4, <1>6 DEF Scoped, Places
<1> QED BY <1>3, <1>4, <1>7, <1>8, BeforeReached DEF Stays, Applied

LEMMA NextTopic ==
    ASSUME TypeOK, Hydrated, HydrationNextTopic
    PROVE  Stays
<1> DEFINE i == TopicReached
           j == Reached[2]
<1>1. /\ i \in 1 .. Len(TopicSeq) /\ Reached = <<i, j>>
      /\ Tail(hydration.todo) = From(TopicSeq, i + 1)
      /\ Len(Tail(hydration.todo)) = Len(hydration.todo) - 1
      /\ j = Len(retained[TopicSeq[i]]) + 1
      /\ Len(hydration.todo) \in Nat /\ Len(TopicSeq) \in Nat
  <2>1. hydration.pc = "apply" /\ hydration.messages = <<>>
    BY DEF HydrationNextTopic
  <2>2. Len(hydration.todo) \in Nat /\ Len(TopicSeq) \in Nat
    BY TopicAssumption DEF TypeOK, HydrationTypeOK, Hydration
  <2> QED BY <2>1, <2>2, Standing DEF Hydrated
<1>2. /\ hydration'.pc = "snapshot" /\ hydration'.todo = Tail(hydration.todo)
      /\ hydration.pc = "apply" /\ UNCHANGED <<caches, retained, now>>
  BY DEF HydrationNextTopic, TypeOK, HydrationTypeOK, Hydration
<1>3. TopicReached' = i + 1
  <2>1. TopicReached' = Len(TopicSeq) - (Len(hydration.todo) - 1) + 1
    BY <1>1, <1>2 DEF TopicReached
  <2>2. i = Len(TopicSeq) - Len(hydration.todo) + 1
    BY DEF TopicReached
  <2> HIDE DEF i
  <2> QED BY <1>1, <2>1, <2>2
<1>4. Reached' = <<i + 1, 1>>
  BY <1>2, <1>3 DEF Reached
<1>5. HasBefore'
  <2>1. i + 1 >= 1
    BY <1>1
  <2> QED BY <1>1, <1>2, <1>3, <2>1 DEF HasBefore
<1>6. Scoped' = Scoped
  <2>1. Before(<<i + 1, 1>>) = Before(<<i, j>>)
    <3>1. i \in Int /\ j \in Int /\ i \in 1 .. Len(TopicSeq) /\ j = Len(retained[TopicSeq[i]]) + 1
      <4>1. Len(retained[TopicSeq[i]]) \in Nat
        BY <1>1, PlacesTyped DEF TypeOK
      <4> QED BY <1>1, <4>1
    <3> QED BY <3>1, BeforeNext DEF TypeOK
  <2>2. Scoped' = Before(<<i + 1, 1>>)
    BY <1>2, <1>4 DEF Scoped, Places, Before
  <2> QED BY <1>1, <2>1, <2>2, BeforeReached
<1> QED BY <1>2, <1>5, <1>6 DEF Stays, Applied

LEMMA Ends ==
    ASSUME TypeOK, Hydrated, HydrationDone
    PROVE  Stays
<1>1. /\ hydration'.pc = "done" /\ hydration'.todo = hydration.todo /\ hydration.todo = <<>>
      /\ hydration.pc = "snapshot" /\ UNCHANGED <<caches, retained, now>>
  BY DEF HydrationDone, TypeOK, HydrationTypeOK, Hydration
<1>2. TopicReached' = TopicReached
  BY <1>1 DEF TopicReached
<1>3. Reached' = Reached
  BY <1>1, <1>2 DEF Reached
<1>4. HasBefore'
  BY <1>1, <1>2 DEF Hydrated, HasBefore
<1>5. Scoped' = Scoped
  BY <1>1, <1>3 DEF Scoped, Places
<1> QED BY <1>1, <1>4, <1>5 DEF Stays, Applied

\* Once through with a record, the pass has gone through one more.
LEMMA MovesOn ==
    ASSUME TypeOK, Hydrated, hydration.pc \in {"apply", "update"}, hydration.messages # <<>>,
           UNCHANGED retained,
           hydration' = [hydration EXCEPT !.pc = "apply", !.messages = Tail(@)]
    PROVE  /\ HasBefore' /\ hydration'.pc = "apply"
           /\ Scoped' = Scoped \cup {Reached} /\ Applied' = Scoped \cup {Reached}
<1> DEFINE i == TopicReached
           j == Reached[2]
           log == retained[TopicSeq[i]]
<1>1. /\ i \in 1 .. Len(TopicSeq) /\ Reached = <<i, j>> /\ Reached \in Places
      /\ j \in 1 .. Len(log) + 1 /\ Len(log) \in Nat
      /\ Tail(hydration.messages) = From(log, j + 1)
      /\ Len(Tail(hydration.messages)) = Len(hydration.messages) - 1
      /\ j = Len(log) - Len(hydration.messages) + 1
      /\ Len(hydration.messages) \in Nat
  <2>1. Len(hydration.messages) \in Nat
    BY DEF TypeOK, HydrationTypeOK, Hydration
  <2>2. HasBefore
    BY DEF Hydrated
  <2>3. hydration.todo # <<>> /\ log \in Seq(PhoebusMsg) /\ j \in 1 .. Len(log) + 1
    BY <2>2, Standing
  <2>4. i \in 1 .. Len(TopicSeq) /\ Reached = <<i, j>>
    BY <2>2, <2>3, Standing
  <2>5. /\ j = Len(log) - Len(hydration.messages) + 1 /\ Reached \in Places
        /\ Tail(hydration.messages) = From(log, j + 1)
        /\ Len(Tail(hydration.messages)) = Len(hydration.messages) - 1
    BY <2>2, Standing
  <2> HIDE DEF i, j, log
  <2>6. Len(log) \in Nat
    BY <2>3
  <2> QED BY <2>1, <2>3, <2>4, <2>5, <2>6
<1>2. /\ hydration'.pc = "apply" /\ hydration'.todo = hydration.todo
      /\ hydration'.messages = Tail(hydration.messages)
  BY DEF TypeOK, HydrationTypeOK, Hydration
<1>3. TopicReached' = i
  BY <1>2 DEF TopicReached
<1>4. Reached' = <<i, j + 1>>
  <2>1. Reached' = <<i, Len(log) - (Len(hydration.messages) - 1) + 1>>
    BY <1>1, <1>2, <1>3 DEF Reached
  <2> HIDE DEF i, j, log
  <2> QED BY <1>1, <2>1
<1>5. HasBefore'
  <2>1. TopicReached' >= 1 /\ hydration'.todo = From(TopicSeq, TopicReached')
    BY <1>2, <1>3 DEF Hydrated, HasBefore
  <2>2. Reached'[2] >= 1 /\ hydration'.messages = From(log, Reached'[2])
    <3> HIDE DEF i, j, log
    <3>1. Reached'[2] = j + 1
      BY <1>4
    <3>2. j + 1 >= 1
      BY <1>1
    <3> QED BY <1>1, <1>2, <3>1, <3>2
  <2> QED BY <1>2, <1>3, <2>1, <2>2 DEF HasBefore
<1>6. Scoped' = Scoped \cup {Reached}
  <2>1. Scoped' = Before(<<i, j + 1>>)
    BY <1>4 DEF Scoped, Places, Before
  <2>2. i \in Int /\ j \in Int /\ <<i, j>> \in Places
    <3> HIDE DEF i, j, log
    <3> QED BY <1>1
  <2>3. Before(<<i, j + 1>>) = Before(<<i, j>>) \cup {<<i, j>>}
    BY <2>2, BeforeNext DEF TypeOK
  <2> QED BY <1>1, <2>1, <2>3, BeforeReached
<1> QED BY <1>2, <1>5, <1>6 DEF Applied

-----------------------------------------------------------------------------
(* What the pass records.                                                  *)

\* Of a record there is a configuration of its device, evidence, or nothing.
LEMMA RecordKinds ==
    ASSUME TypeOK, NEW p \in Places, NEW d
    PROVE  /\ ConfiguresAt(p, d) => RecordAt(p) \in ConfigMsg /\ ConfiguredAt(p) # None
           /\ IsEvidenceAt(p, d) => RecordAt(p) \in StateMsg
<1>1. RecordAt(p) \in PhoebusMsg
  BY PlacesTyped DEF TypeOK
<1>2. ConfiguresAt(p, d) => RecordAt(p) \in ConfigMsg
  BY <1>1 DEF ConfiguresAt, PhoebusMsg, CommandMsg, StateMsg, BadKeyMsg
<1>3. IsEvidenceAt(p, d) => RecordAt(p) \in StateMsg
  BY <1>1 DEF IsEvidenceAt, PhoebusMsg, CommandMsg, ConfigMsg, BadKeyMsg
<1>4. RecordAt(p) \in ConfigMsg => ConfiguredAt(p) \in CachedState
  BY AsCachedStateType DEF ConfigMsg, ConfiguredAt, TypeOK, ExternalTypeOK
<1> QED BY <1>2, <1>3, <1>4, NoneAssumption

\* What is promised once the record the pass is at has been applied.
LEMMA NextPromise ==
    ASSUME TypeOK, Hydrated, Reached \in Places, NEW d \in Device
    PROVE  LET more == Scoped \cup {Reached}
               before == StateFrom(Scoped, d)
           IN  /\ Traced(more, d) /\ Traced(Scoped, d)
               /\ ConfiguresAt(Reached, d) =>
                     /\ StateFrom(more, d) = ConfiguredAt(Reached)
                     /\ MetadataFrom(more, d) = MetadataAt(Reached)
               /\ ~ConfiguresAt(Reached, d) => MetadataFrom(more, d) = MetadataFrom(Scoped, d)
               /\ IsEvidenceAt(Reached, d) => StateFrom(more, d) =
                     IF before # None /\ before.state = "Bypassed" THEN before
                     ELSE InferredAt(Reached)
               /\ ~ConfiguresAt(Reached, d) /\ ~IsEvidenceAt(Reached, d) =>
                     StateFrom(more, d) = before
<1>1. Scoped \in SUBSET (Int \X Int) /\ Reached \in Int \X Int
  BY PlacesTyped DEF Scoped, TypeOK
<1>2. \A q \in Scoped : Precedes(q, Reached) /\ q \in Places
  BY DEF Scoped
<1>3. \A q \in Scoped : ConfiguresAt(q, d) => ConfiguredAt(q) # None
  BY <1>2, RecordKinds
<1>4. Traced(Scoped, d)
  BY DEF Hydrated
<1> QED BY <1>1, <1>2, <1>3, <1>4, StateAdded

LEMMA StaysHydrated ==
    ASSUME TypeOK, Hydrated, Stays, OthersWait'
    PROVE  Hydrated'
<1>1. HasBefore' /\ Applied = Scoped /\ UNCHANGED <<alarm_states, metadata_cache>>
  BY BeforeReached DEF Stays, caches
<1>2. ASSUME NEW d \in Device
      PROVE  /\ StateFrom(Applied, d)' = StateFrom(Scoped, d)
             /\ MetadataFrom(Scoped, d)' = MetadataFrom(Scoped, d)
             /\ Traced(Applied, d)' /\ Traced(Scoped, d)'
  BY <1>1, PromiseKept DEF Stays, Hydrated
<1>3. ASSUME NEW d \in Device
      PROVE  /\ alarm_states[d] = StateFrom(Scoped, d)
             /\ metadata_cache[d] = MetadataFrom(Scoped, d)
  BY <1>1 DEF Hydrated
<1> QED BY <1>1, <1>2, <1>3 DEF Hydrated, Stays

\* The record before the pass is the one it is at.
LEMMA AtHead ==
    ASSUME TypeOK, Hydrated, hydration.pc \in {"apply", "update"}, hydration.messages # <<>>
    PROVE  /\ Reached \in Places /\ RecordAt(Reached) = Head(hydration.messages)
           /\ Head(hydration.todo) = TopicSeq[Reached[1]]
<1>1. HasBefore
  BY DEF Hydrated
<1>2. Reached \in Places /\ RecordAt(Reached) = Head(hydration.messages)
  BY <1>1, Standing
<1>3. hydration.todo # <<>>
  BY <1>1, Standing
<1>4. Head(hydration.todo) = TopicSeq[TopicReached]
  BY <1>1, <1>3, Standing
<1> QED BY <1>2, <1>4 DEF Reached

\* A valid config: its state is recorded, and its metadata come next.
LEMMA ConfigRecorded ==
    ASSUME TypeOK, Hydrated, OthersWait', HydrationApply,
           Head(hydration.messages).op = "Config", Normalizable(Head(hydration.messages).enabled)
    PROVE  Hydrated'
<1> DEFINE msg == Head(hydration.messages)
<1>1. /\ hydration.pc = "apply" /\ hydration.messages # <<>>
      /\ alarm_states' = [alarm_states EXCEPT ![msg.device] = as_cached_state(msg.enabled, now)]
      /\ hydration' = [hydration EXCEPT !.pc = "update"]
      /\ UNCHANGED <<metadata_cache, retained, now>>
  BY DEF HydrationApply, record_alarm_state
<1>2. /\ hydration'.pc = "update" /\ hydration'.todo = hydration.todo
      /\ hydration'.messages = hydration.messages
  BY <1>1 DEF TypeOK, HydrationTypeOK, Hydration
<1>3. TopicReached' = TopicReached
  BY <1>2 DEF TopicReached
<1>4. Reached' = Reached
  BY <1>1, <1>2, <1>3 DEF Reached
<1>5. HasBefore'
  BY <1>1, <1>2, <1>3, <1>4 DEF Hydrated, HasBefore
<1>6. Scoped' = Scoped /\ Applied' = Scoped \cup {Reached} /\ Applied = Scoped
  <2>1. Scoped' = Scoped
    BY <1>1, <1>4 DEF Scoped, Places
  <2> QED BY <1>1, <1>2, <1>4, <2>1 DEF Applied
<1>7. Reached \in Places /\ RecordAt(Reached) = msg
  BY <1>1, AtHead
<1>8. ASSUME NEW d \in Device
      PROVE  /\ alarm_states'[d] = StateFrom(Applied, d)'
             /\ metadata_cache'[d] = MetadataFrom(Scoped, d)'
             /\ Traced(Applied, d)' /\ Traced(Scoped, d)'
  <2> DEFINE more == Scoped \cup {Reached}
  <2>1. /\ StateFrom(Applied, d)' = StateFrom(more, d)
        /\ MetadataFrom(Scoped, d)' = MetadataFrom(Scoped, d)
        /\ Traced(Applied, d)' <=> Traced(more, d)
        /\ Traced(Scoped, d)' <=> Traced(Scoped, d)
    BY <1>1, <1>6, PromiseKept
  <2>2. Traced(more, d) /\ Traced(Scoped, d)
    BY <1>7, NextPromise
  <2>3. alarm_states[d] = StateFrom(Scoped, d) /\ metadata_cache[d] = MetadataFrom(Scoped, d)
    BY <1>6 DEF Hydrated
  <2>4. ~IsEvidenceAt(Reached, d) /\ (ConfiguresAt(Reached, d) <=> msg.device = d)
    BY <1>7 DEF IsEvidenceAt, ConfiguresAt
  <2>5. alarm_states'[d] = StateFrom(more, d)
    <3>1. CASE msg.device = d
      <4>1. StateFrom(more, d) = ConfiguredAt(Reached)
        BY <1>7, <2>4, <3>1, NextPromise
      <4> QED BY <1>1, <1>7, <3>1, <4>1 DEF ConfiguredAt, TypeOK, CachesTypeOK
    <3>2. CASE msg.device # d
      <4>1. StateFrom(more, d) = StateFrom(Scoped, d)
        BY <1>7, <2>4, <3>2, NextPromise
      <4>2. alarm_states'[d] = alarm_states[d]
        BY <1>1, <3>2 DEF TypeOK, CachesTypeOK
      <4> QED BY <2>3, <4>1, <4>2
    <3> QED BY <3>1, <3>2
  <2> QED BY <1>1, <2>1, <2>2, <2>3, <2>5
<1>9. hydration'.pc = "update" => Normalizable(Head(hydration'.messages).enabled)
  BY <1>2
<1> QED BY <1>5, <1>8, <1>9 DEF Hydrated

\* Any other record is evidence of a state, or nothing.
LEMMA EvidenceRecorded ==
    ASSUME TypeOK, Hydrated, OthersWait', HydrationApply,
           ~(/\ Head(hydration.messages).op = "Config"
             /\ Normalizable(Head(hydration.messages).enabled))
    PROVE  Hydrated'
<1> DEFINE msg == Head(hydration.messages)
           evidence == Plain(severity_to_state(msg.severity))
           Evidences == msg.op = "State" /\ msg.severity # "NONE"
<1>1. /\ hydration.pc = "apply" /\ hydration.messages # <<>>
      /\ Evidences => record_startup_state_evidence(msg.device, evidence)
      /\ ~Evidences => UNCHANGED alarm_states
      /\ hydration' = [hydration EXCEPT !.messages = Tail(@)]
      /\ UNCHANGED <<metadata_cache, retained, now>>
  BY DEF HydrationApply
<1>2. hydration' = [hydration EXCEPT !.pc = "apply", !.messages = Tail(@)]
  BY <1>1 DEF TypeOK, HydrationTypeOK, Hydration
<1>3. /\ HasBefore' /\ hydration'.pc = "apply"
      /\ Scoped' = Scoped \cup {Reached} /\ Applied' = Scoped \cup {Reached}
      /\ Applied = Scoped
  BY <1>1, <1>2, MovesOn DEF Applied
<1>4. Reached \in Places /\ RecordAt(Reached) = msg
  BY <1>1, AtHead
<1>5. ASSUME NEW d \in Device
      PROVE  /\ alarm_states'[d] = StateFrom(Applied, d)'
             /\ metadata_cache'[d] = MetadataFrom(Scoped, d)'
             /\ Traced(Applied, d)' /\ Traced(Scoped, d)'
  <2> DEFINE more == Scoped \cup {Reached}
             before == StateFrom(Scoped, d)
  <2>1. /\ StateFrom(Applied, d)' = StateFrom(more, d)
        /\ MetadataFrom(Scoped, d)' = MetadataFrom(more, d)
        /\ Traced(Applied, d)' <=> Traced(more, d)
        /\ Traced(Scoped, d)' <=> Traced(more, d)
    BY <1>1, <1>3, PromiseKept
  <2>2. Traced(more, d)
    BY <1>4, NextPromise
  <2>3. alarm_states[d] = before /\ metadata_cache[d] = MetadataFrom(Scoped, d)
    BY <1>3 DEF Hydrated
  <2>4. ~ConfiguresAt(Reached, d) /\ (IsEvidenceAt(Reached, d) <=> Evidences /\ msg.device = d)
    BY <1>4 DEF IsEvidenceAt, ConfiguresAt
  <2>5. MetadataFrom(more, d) = MetadataFrom(Scoped, d)
    BY <1>4, <2>4, NextPromise
  <2>6. CASE Evidences /\ msg.device = d
    <3>1. StateFrom(more, d) = IF before # None /\ before.state = "Bypassed" THEN before
                               ELSE InferredAt(Reached)
      BY <1>4, <2>4, <2>6, NextPromise
    <3>2. InferredAt(Reached) = evidence
      BY <1>4 DEF InferredAt
    <3>3. alarm_states'[d] = IF before # None /\ before.state = "Bypassed" THEN before
                             ELSE evidence
      BY <1>1, <2>3, <2>6
         DEF record_startup_state_evidence, record_alarm_state, TypeOK, CachesTypeOK
    <3> QED BY <1>1, <2>1, <2>2, <2>3, <2>5, <3>1, <3>2, <3>3
  <2>7. CASE ~(Evidences /\ msg.device = d)
    <3>1. StateFrom(more, d) = before
      BY <1>4, <2>4, <2>7, NextPromise
    <3>2. alarm_states'[d] = alarm_states[d]
      BY <1>1, <2>7 DEF record_startup_state_evidence, record_alarm_state, TypeOK, CachesTypeOK
    <3> QED BY <1>1, <2>1, <2>2, <2>3, <2>5, <3>1, <3>2
  <2> QED BY <2>6, <2>7
<1> QED BY <1>3, <1>5 DEF Hydrated

\* The metadata of the config just recorded follow.
LEMMA MetadataRecorded ==
    ASSUME TypeOK, Hydrated, OthersWait', HydrationUpdate
    PROVE  Hydrated'
<1> DEFINE config == Head(hydration.messages)
           metadata == [specific |-> config.specific, path |-> config.path,
                        topic |-> Head(hydration.todo)]
<1>1. /\ hydration.pc = "update" /\ hydration.messages # <<>>
      /\ config \in ConfigMsg /\ Normalizable(config.enabled)
      /\ metadata_cache' = [metadata_cache EXCEPT ![config.device] = metadata]
      /\ hydration' = [hydration EXCEPT !.pc = "apply", !.messages = Tail(@)]
      /\ UNCHANGED <<alarm_states, retained, now>>
  BY DEF HydrationUpdate, update_cached_metadata, TypeOK, HydrationTypeOK, Hydrated
<1>3. /\ HasBefore' /\ hydration'.pc = "apply"
      /\ Scoped' = Scoped \cup {Reached} /\ Applied' = Scoped \cup {Reached}
      /\ Applied = Scoped \cup {Reached}
  BY <1>1, MovesOn DEF Applied
<1>4. /\ Reached \in Places /\ RecordAt(Reached) = config
      /\ Head(hydration.todo) = TopicSeq[Reached[1]]
  BY <1>1, AtHead
<1>5. ASSUME NEW d \in Device
      PROVE  /\ alarm_states'[d] = StateFrom(Applied, d)'
             /\ metadata_cache'[d] = MetadataFrom(Scoped, d)'
             /\ Traced(Applied, d)' /\ Traced(Scoped, d)'
  <2> DEFINE more == Scoped \cup {Reached}
  <2>1. /\ StateFrom(Applied, d)' = StateFrom(more, d)
        /\ MetadataFrom(Scoped, d)' = MetadataFrom(more, d)
        /\ Traced(Applied, d)' <=> Traced(more, d)
        /\ Traced(Scoped, d)' <=> Traced(more, d)
    BY <1>1, <1>3, PromiseKept
  <2>2. Traced(more, d)
    BY <1>4, NextPromise
  <2>3. alarm_states[d] = StateFrom(more, d) /\ metadata_cache[d] = MetadataFrom(Scoped, d)
    BY <1>3 DEF Hydrated
  <2>4. ConfiguresAt(Reached, d) <=> config.device = d
    BY <1>1, <1>4 DEF ConfiguresAt, ConfigMsg
  <2>5. metadata_cache'[d] = MetadataFrom(more, d)
    <3>1. CASE config.device = d
      <4>1. MetadataFrom(more, d) = MetadataAt(Reached)
        BY <1>4, <2>4, <3>1, NextPromise
      <4>2. MetadataAt(Reached) = metadata
        BY <1>4 DEF MetadataAt
      <4> QED BY <1>1, <3>1, <4>1, <4>2 DEF TypeOK, CachesTypeOK
    <3>2. CASE config.device # d
      <4>1. MetadataFrom(more, d) = MetadataFrom(Scoped, d)
        BY <1>4, <2>4, <3>2, NextPromise
      <4>2. metadata_cache'[d] = metadata_cache[d]
        BY <1>1, <3>2 DEF TypeOK, CachesTypeOK
      <4> QED BY <2>3, <4>1, <4>2
    <3> QED BY <3>1, <3>2
  <2> QED BY <1>1, <2>1, <2>2, <2>3, <2>5
<1> QED BY <1>3, <1>5 DEF Hydrated

-----------------------------------------------------------------------------
(* Nobody else disturbs the pass.                                          *)

LEMMA HydrationFaultless ==
    ASSUME TypeOK, Hydrated, RunHydration, NoFault
    PROVE  Hydrated'
<1>1. OthersWait'
  BY DEF RunHydration, HydrationStep, HydrationSnapshot, HydrationApply, HydrationUpdate,
         HydrationNextTopic, HydrationDone, topics, Hydrated, OthersWait
<1>2. ASSUME HydrationSnapshot \/ HydrationNextTopic \/ HydrationDone PROVE Hydrated'
  BY <1>1, <1>2, Snapshot, NextTopic, Ends, StaysHydrated
<1>3. ASSUME HydrationApply \/ HydrationUpdate PROVE Hydrated'
  BY <1>1, <1>3, ConfigRecorded, EvidenceRecorded, MetadataRecorded
<1> QED BY <1>2, <1>3 DEF RunHydration, HydrationStep

\* With nothing to read, the other tasks can only subscribe.
LEMMA FromNothing ==
    ASSUME NEW queue, queue = <<>>, NEW n \in 1 .. Len(queue) + 1
    PROVE  From(queue, n) = <<>>
<1>1. n = 1
  OBVIOUS
<1> QED BY <1>1 DEF From

LEMMA ControlsWaits ==
    ASSUME TypeOK, OthersWait, RunControls, NoFault
    PROVE  OthersWait' /\ UNCHANGED <<hydration, caches, retained, now>>
<1>1. ControlsSubscribe /\ UNCHANGED <<monitors, hydration>>
  BY DEF OthersWait, RunControls, ControlsStep, ControlsStreamEnds, ControlsReceive,
         ControlsDecide, ControlsPublish, ControlsRecord, NoFault, Fault, TypeOK, ExternalTypeOK
<1>2. controls_topic' = <<>>
  BY <1>1, FromNothing DEF OthersWait, ControlsSubscribe
<1>3. /\ controls_task'.pc = "idle"
      /\ UNCHANGED <<hydration, monitors, phoebus_topics, caches, retained, now>>
  BY <1>1 DEF ControlsSubscribe, ControlsAt
<1> QED BY <1>2, <1>3 DEF OthersWait

LEMMA MonitorWaits ==
    ASSUME TypeOK, OthersWait, NEW t \in MonitoredTopics, RunMonitor(t), NoFault
    PROVE  OthersWait' /\ UNCHANGED <<hydration, caches, retained, now>>
<1>0. phoebus_topics[t] = <<>> /\ monitors[t].pc \in {"down", "idle"}
  BY DEF OthersWait
<1>1. MonitorSubscribe(t) /\ UNCHANGED <<controls_task, hydration>>
  BY <1>0 DEF RunMonitor, MonitorStep, MonitorStreamEnds, MonitorReceive, MonitorDecide,
              MonitorRpc, MonitorRecord, MonitorUpdate, NoFault, Fault, TypeOK, ExternalTypeOK
<1>2. phoebus_topics' = [phoebus_topics EXCEPT ![t] = <<>>]
  BY <1>0, <1>1, FromNothing DEF MonitorSubscribe
<1>3. /\ monitors' = [monitors EXCEPT ![t] = MonitorAt("idle")]
      /\ UNCHANGED <<hydration, controls_topic, controls_task, caches, retained, now>>
  BY <1>1 DEF MonitorSubscribe, Becomes
<1>4. \A u \in MonitoredTopics : /\ phoebus_topics'[u] = <<>>
                                 /\ monitors'[u].pc \in {"down", "idle"}
  BY <1>2, <1>3 DEF MonitorAt, OthersWait, TypeOK, ExternalTypeOK, MonitorsTypeOK
<1> QED BY <1>3, <1>4 DEF OthersWait

LEMMA WaitsHydrated ==
    ASSUME Hydrated, OthersWait', UNCHANGED <<hydration, caches, retained, now>>
    PROVE  Hydrated'
<1>1. TopicReached' = TopicReached
  BY DEF TopicReached
<1>2. Reached' = Reached
  BY <1>1 DEF Reached
<1>3. Scoped' = Scoped /\ Applied' = Applied
  <2>1. Scoped' = Scoped
    BY <1>2 DEF Scoped, Places
  <2> QED BY <1>2, <2>1 DEF Applied
<1>4. HasBefore'
  BY <1>1, <1>2 DEF Hydrated, HasBefore
<1>5. ASSUME NEW d \in Device
      PROVE  /\ alarm_states'[d] = StateFrom(Applied, d)'
             /\ metadata_cache'[d] = MetadataFrom(Scoped, d)'
             /\ Traced(Applied, d)' /\ Traced(Scoped, d)'
  BY <1>3, PromiseKept DEF Hydrated, caches
<1> QED BY <1>4, <1>5 DEF Hydrated

LEMMA InitHydrated == Init => Hydrated
<1> SUFFICES ASSUME Init PROVE Hydrated
  OBVIOUS
<1>1. /\ hydration.pc = "snapshot" /\ hydration.todo = TopicSeq
      /\ hydration = [pc |-> "snapshot", todo |-> TopicSeq, messages |-> <<>>]
      /\ Len(TopicSeq) \in Nat
  BY TopicAssumption DEF Init, HydrationInit
<1>2. TopicReached = 1 /\ Reached = <<1, 1>>
  <2>1. TopicReached = 1
    BY <1>1 DEF TopicReached
  <2> QED BY <1>1, <2>1 DEF Reached
<1>3. HasBefore
  BY <1>1, <1>2, TopicAssumption, WholeRest DEF HasBefore
<1>4. OthersWait
  BY DEF Init, ExternalInit, ControlsInit, ControlsAt, MonitorsInit, MonitorAt, OthersWait
<1>5. Scoped = {} /\ Applied = {}
  <2>1. ExternalTypeOK
    BY EnvironmentAssumption DEF Init, ExternalInit, ExternalTypeOK
  <2>2. \A p \in Places : ~Precedes(p, <<1, 1>>)
    BY <2>1, PlacesTyped DEF Precedes
  <2> QED BY <1>1, <1>2, <2>2 DEF Scoped, Applied
<1>6. \A d : ConfigsIn({}, d) = {} /\ EvidenceIn({}, d) = {}
  BY DEF ConfigsIn, EvidenceIn
<1>7. \A d : StateFrom({}, d) = None /\ MetadataFrom({}, d) = None /\ Traced({}, d)
  BY <1>6 DEF StateFrom, MetadataFrom, Traced, HasLatest
<1>8. \A d \in Device : alarm_states[d] = None /\ metadata_cache[d] = None
  BY DEF Init, CachesInit
<1> QED BY <1>1, <1>3, <1>4, <1>5, <1>7, <1>8 DEF Hydrated

\* As long as nobody acts and nothing fails, the caches hold what is promised.
LEMMA HydratedInductive ==
    TypeOK /\ (Undisturbed => Hydrated) /\ [Next]_vars => (Undisturbed => Hydrated)'
<1> SUFFICES ASSUME TypeOK, Undisturbed => Hydrated, [Next]_vars, Undisturbed'
             PROVE  Hydrated'
  OBVIOUS
<1>0. actions \in Nat /\ faults \in Nat /\ now \in Nat
  BY DEF TypeOK, ExternalTypeOK
<1>1. CASE RunControls
  <2>1. UNCHANGED <<actions, now>> /\ (NoFault \/ Fault)
    BY <1>1 DEF RunControls, ControlsStep, ControlsSubscribe, ControlsStreamEnds, ControlsReceive,
                ControlsDecide, ControlsPublish, ControlsRecord, ResumeAt, TakenFrom
  <2>2. NoFault /\ Undisturbed
    BY <1>0, <2>1 DEF Fault, NoFault, Undisturbed
  <2> QED BY <1>1, <2>2, ControlsWaits, WaitsHydrated DEF Hydrated
<1>2. CASE RunHydration
  <2>1. UNCHANGED <<actions, now>> /\ (NoFault \/ Fault)
    BY <1>2 DEF RunHydration, HydrationStep, HydrationSnapshot, HydrationApply, HydrationUpdate,
                HydrationNextTopic, HydrationDone
  <2>2. NoFault /\ Undisturbed
    BY <1>0, <2>1 DEF Fault, NoFault, Undisturbed
  <2> QED BY <1>2, <2>2, HydrationFaultless
<1>3. ASSUME NEW t \in MonitoredTopics, RunMonitor(t)
      PROVE  Hydrated'
  <2>1. UNCHANGED <<actions, now>> /\ (NoFault \/ Fault)
    BY <1>3 DEF RunMonitor, MonitorStep, MonitorSubscribe, MonitorStreamEnds, MonitorReceive,
                MonitorDecide, MonitorRpc, MonitorRecord, MonitorUpdate, ResumeAt, TakenFrom
  <2>2. NoFault /\ Undisturbed
    BY <1>0, <2>1 DEF Fault, NoFault, Undisturbed
  <2> QED BY <1>3, <2>2, MonitorWaits, WaitsHydrated DEF Hydrated
<1>4. CASE OperatorActs
  BY <1>0, <1>4 DEF OperatorActs, OperatorTurn, Undisturbed
<1>5. CASE ClockTicks
  BY <1>0, <1>5 DEF ClockTicks, Tick, Undisturbed
<1>6. CASE Await \/ UNCHANGED vars
  <2>1. UNCHANGED vars
    BY <1>6 DEF Await
  <2>2. /\ UNCHANGED <<hydration, caches, retained, now, actions, faults>>
        /\ UNCHANGED <<controls_topic, controls_task, phoebus_topics, monitors>>
    BY <2>1 DEF vars, external, topics
  <2>3. Undisturbed
    BY <2>2 DEF Undisturbed
  <2>4. OthersWait'
    BY <2>2, <2>3 DEF Hydrated, OthersWait
  <2> QED BY <2>2, <2>3, <2>4, WaitsHydrated
<1> QED BY <1>1, <1>2, <1>3, <1>4, <1>5, <1>6 DEF Next

\* When the pass is done it has gone through every record.
LEMMA HydratedAtLast == TypeOK /\ (Undisturbed => Hydrated) => HydratedAsPromised
<1> SUFFICES ASSUME TypeOK, Hydrated, hydration.pc = "done", NEW d \in Device
             PROVE  /\ alarm_states[d] = StateFrom(Places, d)
                    /\ metadata_cache[d] = MetadataFrom(Places, d)
  BY DEF HydratedAsPromised
<1>1. Reached = <<Len(TopicSeq) + 1, 1>>
  <2>1. TopicReached = Len(TopicSeq) - 0 + 1
    BY DEF Hydrated, HasBefore, TopicReached
  <2> QED BY <2>1, TopicAssumption DEF Reached
<1>2. Scoped = Places
  <2>1. \A p \in Places : p[1] \in 1 .. Len(TopicSeq)
    BY PlacesTyped DEF TypeOK
  <2>2. Len(TopicSeq) \in Nat
    BY TopicAssumption
  <2> QED BY <1>1, <2>1, <2>2 DEF Scoped, Precedes
<1>3. Applied = Places
  BY <1>2, BeforeReached
<1> QED BY <1>2, <1>3 DEF Hydrated

\* At each point of the startup pass the caches hold what is promised for the
\* records it has gone through (phoebus/init/mod.rs), whatever the topics hold.
THEOREM AppliedInOrder == Spec => []AppliedAsPromised
<1>1. Init => (Undisturbed => Hydrated)
  BY InitHydrated
<1>2. (Undisturbed => Hydrated) => AppliedAsPromised
  BY DEF AppliedAsPromised, Hydrated
<1> QED BY <1>1, <1>2, HydratedInductive, TypeCorrect, PTL DEF Spec

\* Once the startup pass is done, the last config of each device is remembered, a
\* bypass in it whatever state records follow, and nothing else is in scope.
THEOREM StartupAsPromised == Spec => []HydratedAsPromised
<1>1. Init => (Undisturbed => Hydrated)
  BY InitHydrated
<1> QED BY <1>1, HydratedInductive, HydratedAtLast, TypeCorrect, PTL DEF Spec

-----------------------------------------------------------------------------
(* The race of one action with the startup pass.                           *)

Racing == /\ Wished /\ Agrees /\ OneTurn /\ ScopeInvariant /\ RoutableInvariant

Held(d) == MonitorHolds(d, {"policy", "rpc", "record"})

\* What a step keeps for a device while the startup pass stands still.
LEMMA HealingMovesOn ==
    ASSUME NEW d \in Device, HealsFor(d), UNCHANGED <<retained, hydration>>,
           RecordWaits(d)' \/ Held(d)' =>
               \/ ToldPhoebus(d)'
               \/ (RecordWaits(d) \/ Held(d)) /\ (ToldPhoebus(d) => ToldPhoebus(d)'),
           RecordWaits(d) /\ hydration.pc # "done" => RecordWaits(d)',
           phoebus_view'[d] = phoebus_view[d] \/ RecordWaits(d)',
           ControlsHolds(d, {"record"})' =>
               /\ ToldPhoebus(d)'
               /\ (Effective(from_status(controls_task.alarm)) = Effective(intent[d]))',
           \A t \in MonitoredTopics :
               monitors'[t].pc = "record" /\ Configures(monitors'[t].msg, d) =>
                   (Effective(monitors[t].updated) = Effective(intent[d]))',
           MirrorsScoped(d)',
           EntersScope(d)' =>
               \/ (Effective(alarm_states[d]) = Effective(phoebus_view[d]))'
               \/ RecordWaits(d)' \/ Held(d)' \/ Hydrates(d)'
    PROVE  HealsFor(d)'
<1>1. ConfigsTold(d)'
  BY DEF HealsFor, ConfigsTold, Held
<1>2. CacheCorrected(d)'
  BY DEF CacheCorrected, Corrects, Held
<1>3. LogsShowView(d)'
  <2> SUFFICES ASSUME hydration'.pc # "done", ~RecordWaits(d)'
               PROVE  /\ \A t \in PhoebusTopics : LastIs(retained'[t], d, phoebus_view'[d])
                      /\ LastIs(Unapplied', d, phoebus_view'[d])
    BY DEF LogsShowView, LastIs
  <2>1. hydration.pc # "done" /\ ~RecordWaits(d) /\ phoebus_view'[d] = phoebus_view[d]
    OBVIOUS
  <2>2. Unapplied' = Unapplied
    BY DEF Unapplied
  <2> QED BY <2>1, <2>2 DEF HealsFor, LogsShowView
<1> QED BY <1>1, <1>2, <1>3 DEF HealsFor

LEMMA ControlsHeals ==
    ASSUME Racing, NEW d \in Device, HealsFor(d), RunControls, NoFault, UNCHANGED intent
    PROVE  HealsFor(d)'
<1> USE DEF Racing, Wished, TypeOK, ExternalTypeOK
<1> DEFINE alarm == controls_task.alarm
<1>1. UNCHANGED <<metadata_cache, monitors, hydration, retained, now>>
  BY FaultlessControls
<1>2. ToldPhoebus(d) => ToldPhoebus(d)'
  BY ToldStays
<1>3. /\ Held(d)' <=> Held(d)
      /\ Hydrates(d)' <=> Hydrates(d)
      /\ EntersScope(d)' <=> EntersScope(d)
      /\ \A t \in MonitoredTopics :
            monitors'[t].pc = "record" /\ Configures(monitors'[t].msg, d) =>
                (Effective(monitors[t].updated) = Effective(intent[d]))'
  BY <1>1 DEF Held, MonitorHolds, Hydrates, Unapplied, EntersScope, Scopes, HealsFor, ConfigsTold,
              Effective
<1>4. ASSUME UNCHANGED <<phoebus_topics, phoebus_view>>, controls_task'.pc # "record",
             MirrorsScoped(d)',
             UNCHANGED <<alarm_states[d]>> \/ (EntersScope(d) =>
                  \/ (Effective(alarm_states[d]) = Effective(phoebus_view[d]))'
                  \/ Effective(alarm_states[d])' = Effective(alarm_states[d]))
      PROVE  HealsFor(d)'
  <2>1. RecordWaits(d)' <=> RecordWaits(d)
    BY <1>4 DEF RecordWaits
  <2>2. EntersScope(d)' =>
            \/ (Effective(alarm_states[d]) = Effective(phoebus_view[d]))'
            \/ RecordWaits(d)' \/ Held(d)' \/ Hydrates(d)'
    BY <1>1, <1>3, <1>4, <2>1 DEF HealsFor, CacheCorrected, Corrects, Held, Effective
  <2>3. ~ControlsHolds(d, {"record"})'
    BY <1>4 DEF ControlsHolds
  <2> QED BY <1>1, <1>2, <1>3, <1>4, <2>1, <2>2, <2>3, HealingMovesOn
<1>5. ASSUME UNCHANGED <<alarm_states, phoebus_topics, phoebus_view>>,
             controls_task'.pc \in {"down", "idle", "lookup"}
      PROVE  HealsFor(d)'
  <2>1. MirrorsScoped(d)'
    BY <1>5 DEF MirrorsScoped
  <2> QED BY <1>4, <1>5, <2>1
<1>6. CASE ControlsReceive
  BY <1>5, <1>6 DEF ControlsReceive, caches, views, phoebus_side
<1>7. CASE ControlsDecide
  <2>1. UNCHANGED <<alarm_states, phoebus_topics, phoebus_view>>
    BY <1>7 DEF ControlsDecide, caches, topics, views, phoebus_side
  <2>2. controls_task'.pc # "record" /\ MirrorsScoped(d)'
    BY <1>1, <1>7 DEF ControlsDecide, ControlsAt, SyncsToPhoebus, MirrorsScoped, RoutableInvariant
  <2> QED BY <1>4, <2>1, <2>2
<1>8. CASE ControlsPublish
  <2>1. /\ UNCHANGED alarm_states
        /\ controls_task.pc = "publish" /\ controls_task'.pc = "record"
        /\ controls_task'.alarm = alarm /\ controls_task'.metadata = controls_task.metadata
    BY <1>8, PublishEffect DEF caches, ControlsPublish
  <2>2. alarm.device = d => controls_task.metadata.topic \in PhoebusTopics
    BY <2>1 DEF HealsFor, MirrorsScoped
  <2>3. /\ RecordWaits(d)' <=> RecordWaits(d) \/ Enables(alarm, d)
        /\ Enables(alarm, d) =>
              ToldPhoebus(d)' /\ Effective(from_status(alarm)) = Effective(intent[d])
        /\ phoebus_view'[d] = phoebus_view[d] \/ Enables(alarm, d)
    BY <1>1, <1>8, <2>2, PublishTells
  <2>4. ControlsHolds(d, {"record"})' =>
            /\ ToldPhoebus(d)'
            /\ (Effective(from_status(controls_task.alarm)) = Effective(intent[d]))'
    BY <1>1, <2>1, <2>3 DEF ControlsHolds, Effective
  <2>5. MirrorsScoped(d)'
    BY <1>1, <2>1 DEF HealsFor, MirrorsScoped
  <2>6. EntersScope(d)' =>
            \/ (Effective(alarm_states[d]) = Effective(phoebus_view[d]))'
            \/ RecordWaits(d)' \/ Held(d)' \/ Hydrates(d)'
    BY <1>1, <1>3, <2>1, <2>3 DEF HealsFor, CacheCorrected, Corrects, Held, Effective
  <2>7. RecordWaits(d)' => RecordWaits(d) \/ ToldPhoebus(d)'
    BY <2>3
  <2> QED BY <1>1, <1>2, <1>3, <2>3, <2>4, <2>5, <2>6, <2>7, HealingMovesOn
<1>9. CASE ControlsRecord
  <2>1. /\ UNCHANGED <<phoebus_topics, phoebus_view>>
        /\ controls_task.pc = "record" /\ controls_task'.pc = "idle"
        /\ alarm_states' = [alarm_states EXCEPT ![alarm.device] = from_status(alarm)]
        /\ alarm \in Mirrored /\ alarm_states \in [Device -> Observation]
    BY <1>9 DEF ControlsRecord, ControlsAt, topics, views, phoebus_side, record_alarm_state,
                ControlsTypeOK, ControlsTask, CachesTypeOK
  <2>2. MirrorsScoped(d)'
    BY <2>1 DEF MirrorsScoped
  <2>3. CASE alarm.device # d
    <3>1. UNCHANGED <<alarm_states[d]>>
      BY <2>1, <2>3
    <3> QED BY <1>4, <2>1, <2>2, <3>1
  <2>4. CASE alarm.device = d /\ IsEnablement(alarm.state)
    <3>1. /\ EffectiveAt(from_status(alarm), now) = EffectiveAt(intent[d], now)
          /\ EffectiveAt(phoebus_view[d], now) = EffectiveAt(intent[d], now)
      BY <2>1, <2>4 DEF HealsFor, ConfigsTold, ControlsHolds, Enables, ToldPhoebus, Effective
    <3>2. alarm_states'[d] = from_status(alarm)
      BY <2>1, <2>4
    <3>3. (Effective(alarm_states[d]) = Effective(phoebus_view[d]))'
      BY <1>1, <2>1, <3>1, <3>2 DEF Effective
    <3> QED BY <1>4, <2>1, <2>2, <3>3
  <2>5. CASE alarm.device = d /\ ~IsEnablement(alarm.state)
    <3>1. alarm.state = "Acknowledged"
      BY <2>1, <2>5, NoneAssumption DEF Mirrored, state_to_operation, IsEnablement
    <3>2. metadata_cache[d] # None /\ alarm_states[d] # None
      BY <2>1, <2>5 DEF HealsFor, MirrorsScoped, ScopeInvariant, ScopeImpliesObserved
    <3>3. alarm_states[d].state # "Bypassed"
      BY <2>1, <2>5, <3>1, <3>2 DEF OneTurn, AcknowledgesActive, Acknowledging, IsBypassed
    <3>4. alarm_states'[d] # None /\ alarm_states'[d].state = "Acknowledged"
      BY <2>1, <2>5, <3>1, NoneAssumption, FromStatusType DEF Mirrored, from_status
    <3>5. Effective(alarm_states[d])' = Effective(alarm_states[d])
      BY <3>2, <3>3, <3>4 DEF Effective, EffectiveAt
    <3> QED BY <1>4, <2>1, <2>2, <3>5
  <2> QED BY <2>3, <2>4, <2>5
<1> QED BY <1>5, <1>6, <1>7, <1>8, <1>9, FaultlessControls

\* The same for a step of a monitor.
LEMMA HealingMonitorMovesOn ==
    ASSUME Racing, NEW d \in Device, HealsFor(d), NEW t \in MonitoredTopics, NEW new,
           Becomes(t, new), hydration.pc = "done",
           UNCHANGED <<hydration, retained, controls_task, phoebus_view, now, intent>>,
           metadata_cache[d] # None => metadata_cache'[d] # None,
           RecordWaits(d)' \/ Held(d)' => RecordWaits(d) \/ Held(d),
           new.pc = "record" /\ Configures(new.msg, d) =>
               EffectiveAt(new.updated, now) = EffectiveAt(intent[d], now),
           EntersScope(d)' =>
               \/ (Effective(alarm_states[d]) = Effective(phoebus_view[d]))'
               \/ RecordWaits(d)' \/ Held(d)'
    PROVE  HealsFor(d)'
<1> USE DEF Racing, Wished, TypeOK
<1>1. ToldPhoebus(d)' <=> ToldPhoebus(d)
  BY DEF ToldPhoebus, Effective
<1>2. RecordWaits(d)' \/ Held(d)' => RecordWaits(d) \/ Held(d) \/ ToldPhoebus(d)'
  OBVIOUS
<1>3. ControlsHolds(d, {"record"})' =>
          /\ ToldPhoebus(d)'
          /\ (Effective(from_status(controls_task.alarm)) = Effective(intent[d]))'
  BY <1>1 DEF HealsFor, ConfigsTold, ControlsHolds, Effective
<1>4. /\ monitors'[t] = new
      /\ \A u \in MonitoredTopics \ {t} : monitors'[u] = monitors[u]
  BY HoldingSplit
<1>5. \A u \in MonitoredTopics :
          monitors'[u].pc = "record" /\ Configures(monitors'[u].msg, d) =>
              (Effective(monitors[u].updated) = Effective(intent[d]))'
  <2> SUFFICES ASSUME NEW u \in MonitoredTopics,
                      monitors'[u].pc = "record", Configures(monitors'[u].msg, d)
               PROVE  EffectiveAt(monitors'[u].updated, now') = EffectiveAt(intent'[d], now')
    BY DEF Effective
  <2>1. CASE u = t
    BY <1>4, <2>1
  <2>2. CASE u # t
    <3>1. monitors'[u] = monitors[u]
      BY <1>4, <2>2
    <3> QED BY <3>1 DEF HealsFor, ConfigsTold, Effective
  <2> QED BY <2>1, <2>2
<1>6. MirrorsScoped(d)'
  BY DEF HealsFor, MirrorsScoped
<1> QED BY <1>1, <1>2, <1>3, <1>5, <1>6, HealingMovesOn

\* When no config of the device is read, passed on or recorded, and nothing written.
LEMMA MonitorLeaves ==
    ASSUME Racing, NEW d \in Device, HealsFor(d), NEW t \in MonitoredTopics, NEW new,
           Becomes(t, new), hydration.pc = "done",
           UNCHANGED <<hydration, retained, controls_task, phoebus_view, now, intent>>,
           metadata_cache[d] # None => metadata_cache'[d] # None,
           RecordWaits(d)' \/ Held(d)' <=> RecordWaits(d) \/ Held(d),
           new.pc = "record" /\ Configures(new.msg, d) =>
               EffectiveAt(new.updated, now) = EffectiveAt(intent[d], now),
           EntersScope(d)' => EntersScope(d),
           EntersScope(d) => Effective(alarm_states[d])' = Effective(alarm_states[d])
    PROVE  HealsFor(d)'
<1>1. ~Hydrates(d)
  BY ConfigsForDef DEF Hydrates, Unapplied
<1>2. EntersScope(d)' =>
          \/ (Effective(alarm_states[d]) = Effective(phoebus_view[d]))'
          \/ RecordWaits(d)' \/ Held(d)'
  BY <1>1 DEF HealsFor, CacheCorrected, Corrects, Held, Effective
<1> QED BY <1>2, HealingMonitorMovesOn

LEMMA MonitorHeals ==
    ASSUME Racing, NEW d \in Device, HealsFor(d), NEW t \in MonitoredTopics, RunMonitor(t), NoFault,
           UNCHANGED intent
    PROVE  HealsFor(d)'
<1> USE DEF Racing, Wished, TypeOK, ExternalTypeOK
<1> DEFINE task == monitors[t]
<1>1. /\ hydration.pc = "done"
      /\ UNCHANGED <<hydration, retained, controls_task, phoebus_view, now>>
  BY FaultlessMonitor
<1>2. HoldsItsKind(task) /\ task \in MonitorTask
  BY DEF OneTurn, MonitorsTypeOK
<1>3. ~Scopes(d) /\ ~Scopes(d)'
  BY <1>1 DEF Scopes
<1>4. UNCHANGED <<alarm_states[d]>> => Effective(alarm_states[d])' = Effective(alarm_states[d])
  BY <1>1 DEF Effective
<1>5. ASSUME UNCHANGED phoebus_topics PROVE RecordWaits(d)' <=> RecordWaits(d)
  BY <1>5 DEF RecordWaits
<1>6. CASE UNCHANGED <<caches, topics, controls_view>> /\ task.pc = "down"
           /\ Becomes(t, MonitorAt("idle"))
  <2>1. UNCHANGED <<alarm_states, metadata_cache, phoebus_topics>>
    BY <1>6 DEF caches, topics
  <2>2. MonitorAt("idle").pc = "idle"
    BY DEF MonitorAt
  <2> DEFINE new == MonitorAt("idle")
  <2> HIDE DEF new
  <2>3. (Held(d)' <=> Held(d)) /\ (MonitorHolds(d, {"update"})' <=> MonitorHolds(d, {"update"}))
    BY <1>6, <2>2, HoldingSplit DEF Held, new
  <2>4. EntersScope(d)' => EntersScope(d)
    BY <1>3, <2>1, <2>3 DEF EntersScope
  <2>5. Becomes(t, new) /\ new.pc = "idle"
    BY <1>6, <2>2 DEF new
  <2> QED BY <1>1, <1>4, <1>5, <2>1, <2>3, <2>4, <2>5, MonitorLeaves
<1>7. CASE MonitorReceive(t)
           /\ phoebus_topics' = [phoebus_topics EXCEPT ![t] = Tail(phoebus_topics[t])]
  <2> DEFINE head == Head(phoebus_topics[t])
  <2> HIDE DEF head
  <2>1. UNCHANGED <<alarm_states, metadata_cache>>
    BY <1>7 DEF MonitorReceive, caches
  <2>2. /\ RecordWaits(d) <=> Configures(head, d) \/ RecordWaits(d)'
        /\ task.pc = "idle"
        /\ \E new : /\ Becomes(t, new)
                    /\ new.pc \notin {"record", "update"}
                    /\ new.pc \in {"policy", "rpc"} /\ Configures(new.msg, d) <=> Configures(head, d)
    BY <1>7, ReadTakesConfig DEF head
  <2>3. PICK new : /\ Becomes(t, new)
                   /\ new.pc \notin {"record", "update"}
                   /\ new.pc \in {"policy", "rpc"} /\ Configures(new.msg, d) <=> Configures(head, d)
    BY <2>2
  <2>4. /\ Held(d)' <=> Configures(head, d) \/ Held(d)
        /\ MonitorHolds(d, {"update"})' <=> MonitorHolds(d, {"update"})
    BY <2>2, <2>3, HoldingSplit DEF Held
  <2>5. EntersScope(d)' => EntersScope(d)
    BY <1>3, <2>1, <2>4 DEF EntersScope
  <2> QED BY <1>1, <1>4, <2>1, <2>2, <2>3, <2>4, <2>5, MonitorLeaves
<1>8. CASE MonitorDecide(t)
  <2>1. UNCHANGED <<alarm_states, metadata_cache, phoebus_topics>>
    BY <1>8 DEF MonitorDecide, caches, topics
  <2>2. PICK new :
            /\ Becomes(t, new)
            /\ \/ /\ new.pc = "idle"
                  /\ Configures(task.msg, d) => Remembered(d) /\ IsKnown(d)
               \/ /\ new.pc = "update" /\ new.msg = task.msg
                  /\ Configures(task.msg, d) => Remembered(d) /\ IsKnown(d)
               \/ new.pc = "rpc" /\ new.msg = task.msg
    BY <1>8, JudgeEffect
  <2>3. task.pc = "policy"
    BY <1>8 DEF MonitorDecide
  <2>4. CASE Configures(task.msg, d) /\ new.pc # "rpc"
    <3>1. Remembered(d) /\ ToldPhoebus(d)
      BY <2>2, <2>3, <2>4 DEF HealsFor, ConfigsTold, MonitorHolds
    <3>2. (Effective(alarm_states[d]) = Effective(phoebus_view[d]))'
      BY <1>1, <2>1, <3>1 DEF Remembered, ToldPhoebus, Effective
    <3>3. Held(d)' => Held(d)
      BY <2>2, <2>4, HoldingSplit DEF Held
    <3>4. new.pc # "record"
      BY <2>2
    <3> QED BY <1>1, <1>5, <2>1, <2>2, <3>2, <3>3, <3>4, HealingMonitorMovesOn
  <2>5. CASE ~Configures(task.msg, d) \/ new.pc = "rpc"
    <3>1. /\ Held(d)' <=> Held(d)
          /\ MonitorHolds(d, {"update"})' => MonitorHolds(d, {"update"})
      BY <2>2, <2>3, <2>5, HoldingSplit DEF Held
    <3>2. EntersScope(d)' => EntersScope(d)
      BY <1>3, <2>1, <3>1 DEF EntersScope
    <3>3. new.pc # "record"
      BY <2>2
    <3> QED BY <1>1, <1>4, <1>5, <2>1, <2>2, <3>1, <3>2, <3>3, MonitorLeaves
  <2> QED BY <2>4, <2>5
<1>9. CASE MonitorRpc(t)
  <2>1. /\ task.pc = "rpc"
        /\ UNCHANGED <<alarm_states, metadata_cache, phoebus_topics>>
    BY <1>9, RpcEffect DEF caches
  <2>2. PICK new : Becomes(t, new) /\ new.pc = "record" /\ new.msg = task.msg /\ new.updated = task.updated
    BY <1>9, RpcEffect
  <2>3. Configures(task.msg, d) => EffectiveAt(task.updated, now) = EffectiveAt(intent[d], now)
    BY <1>2, <2>1 DEF Configures, HoldsItsKind, Agrees, MonitorAgrees, UpdateAgrees
  <2>4. /\ Held(d)' <=> Held(d)
        /\ MonitorHolds(d, {"update"})' <=> MonitorHolds(d, {"update"})
    BY <2>1, <2>2, HoldingSplit DEF Held
  <2>5. EntersScope(d)' => EntersScope(d)
    BY <1>3, <2>1, <2>4 DEF EntersScope
  <2> QED BY <1>1, <1>4, <1>5, <2>1, <2>2, <2>3, <2>4, <2>5, MonitorLeaves
<1>10. CASE MonitorRecord(t)
  <2>1. /\ task.pc = "record" /\ InHand(task)
        /\ alarm_states' = [alarm_states EXCEPT ![task.msg.device] = task.updated]
        /\ alarm_states \in [Device -> Observation]
        /\ UNCHANGED <<metadata_cache, phoebus_topics>>
    BY <1>2, <1>10, InHandType DEF MonitorRecord, record_alarm_state, CachesTypeOK, topics
  <2>2. \E new : /\ Becomes(t, new)
                 /\ \/ task.msg.op = "Config" /\ new.pc = "update" /\ new.msg = task.msg
                    \/ task.msg.op = "Command" /\ new.pc = "idle"
    <3> DEFINE updating == [task EXCEPT !.pc = "update", !.updated = None, !.attempt = 1]
    <3>1. updating.pc = "update" /\ updating.msg = task.msg /\ MonitorAt("idle").pc = "idle"
      BY <1>2, <2>1 DEF MonitorTask, MonitorAt
    <3>2. task.msg.op \in {"Command", "Config"}
      BY <2>1 DEF InHand, CommandMsg, ConfigMsg
    <3>3. IF task.msg.op = "Config" THEN Becomes(t, updating) ELSE Becomes(t, MonitorAt("idle"))
      BY <1>10 DEF MonitorRecord
    <3> HIDE DEF updating
    <3> QED BY <3>1, <3>2, <3>3
  <2>3. PICK new : /\ Becomes(t, new)
                   /\ \/ task.msg.op = "Config" /\ new.pc = "update" /\ new.msg = task.msg
                      \/ task.msg.op = "Command" /\ new.pc = "idle"
    BY <2>2
  <2>4. new.pc # "record" /\ new.pc \notin {"policy", "rpc", "record"}
    BY <2>3
  <2>5. CASE Configures(task.msg, d)
    <3>1. /\ EffectiveAt(task.updated, now) = EffectiveAt(intent[d], now)
          /\ EffectiveAt(phoebus_view[d], now) = EffectiveAt(intent[d], now)
      BY <2>1, <2>5 DEF HealsFor, ConfigsTold, MonitorHolds, ToldPhoebus, Effective
    <3>2. alarm_states'[d] = task.updated
      BY <2>1, <2>5 DEF Configures
    <3>3. (Effective(alarm_states[d]) = Effective(phoebus_view[d]))'
      BY <1>1, <3>1, <3>2 DEF Effective
    <3>4. Held(d)' => Held(d)
      BY <2>3, <2>4, HoldingSplit DEF Held
    <3> QED BY <1>1, <1>5, <2>1, <2>3, <2>4, <3>3, <3>4, HealingMonitorMovesOn
  <2>6. CASE ~Configures(task.msg, d)
    <3>1. /\ Held(d)' <=> Held(d)
          /\ MonitorHolds(d, {"update"})' => MonitorHolds(d, {"update"})
      <4>1. new.pc = "update" => new.msg = task.msg
        BY <2>3
      <4> QED BY <2>3, <2>4, <2>6, <4>1, HoldingSplit DEF Held
    <3>2. EntersScope(d)' => EntersScope(d)
      BY <1>3, <2>1, <3>1 DEF EntersScope
    <3>3. EntersScope(d) => Effective(alarm_states[d])' = Effective(alarm_states[d])
      <4>1. CASE task.msg.device # d
        BY <1>4, <2>1, <4>1
      <4>2. CASE task.msg.device = d /\ EntersScope(d)
        <5>1. task.msg.op = "Command"
          BY <1>2, <2>1, <2>3, <2>6, <4>2 DEF HoldsItsKind, Configures
        <5>2. task.updated = Plain("Acknowledged") /\ task.updated # None
          BY <1>2, <2>1, <5>1, NoneAssumption DEF HoldsItsKind, InHand
        <5>3. ~IsBypassed(alarm_states[d])
          BY <2>1, <4>2, <5>1 DEF OneTurn, AcknowledgesActive, Relaying
        <5>4. alarm_states[d] # None
          BY <1>3, <4>2
             DEF EntersScope, ScopeInvariant, ScopeImpliesObserved, MonitorHolds, Configures
        <5>5. alarm_states'[d] = task.updated
          BY <2>1, <4>2
        <5> QED BY <5>2, <5>3, <5>4, <5>5 DEF IsBypassed, Effective, EffectiveAt, Plain
      <4> QED BY <4>1, <4>2
    <3> QED BY <1>1, <1>5, <2>1, <2>3, <2>4, <3>1, <3>2, <3>3, MonitorLeaves
  <2> QED BY <2>5, <2>6
<1>11. CASE MonitorUpdate(t)
  <2> DEFINE metadata == [task.metadata EXCEPT !.specific = task.msg.specific]
             new == MonitorAt("idle")
  <2>1. /\ task.pc = "update" /\ Becomes(t, new) /\ new.pc = "idle"
        /\ UNCHANGED <<alarm_states, phoebus_topics>>
        /\ metadata_cache' = [metadata_cache EXCEPT ![task.msg.device] = metadata]
        /\ metadata_cache \in [Device -> PvMetadata \cup {None}]
    BY <1>11 DEF MonitorUpdate, MonitorAt, update_cached_metadata, CachesTypeOK, topics
  <2>2. task.msg \in ConfigMsg /\ metadata # None
    <3>1. task.msg \in ConfigMsg /\ task.metadata \in PvMetadata
      BY <1>2, <2>1 DEF MonitorTask
    <3>2. metadata \in PvMetadata
      BY <3>1 DEF PvMetadata, ConfigMsg
    <3> QED BY <3>1, <3>2, NoneAssumption
  <2> HIDE DEF metadata, new
  <2>3. IF task.msg.device = d THEN metadata_cache'[d] # None
                               ELSE metadata_cache'[d] = metadata_cache[d]
    BY <2>1, <2>2
  <2>4. task.msg.device = d => Configures(task.msg, d)
    BY <1>2, <2>1, <2>2 DEF HoldsItsKind, Configures, ConfigMsg
  <2>5. /\ Held(d)' <=> Held(d)
        /\ MonitorHolds(d, {"update"})' => MonitorHolds(d, {"update"})
        /\ task.msg.device = d => MonitorHolds(d, {"update"})
    BY <2>1, <2>4, HoldingSplit DEF Held
  <2>6. EntersScope(d)' => EntersScope(d)
    BY <1>3, <2>3, <2>5 DEF EntersScope
  <2> QED BY <1>1, <1>4, <1>5, <2>1, <2>3, <2>5, <2>6, MonitorLeaves
<1> QED BY <1>6, <1>7, <1>8, <1>9, <1>10, <1>11, FaultlessMonitor

-----------------------------------------------------------------------------
(* The startup pass.                                                       *)

LEMMA LastIsOfTail ==
    ASSUME NEW records \in Seq(PhoebusMsg), records # <<>>, NEW d, NEW view
    PROVE  /\ LastIs(records, d, view) => LastIs(Tail(records), d, view)
           /\ LastIs(records, d, view) /\ Configures(Head(records), d)
                  /\ ConfigsFor(Tail(records), d) = {} =>
                 Shown(Head(records).enabled) = view
  BY LastConfigOfTail DEF LastIs

\* What was published during the pass and configures another device changes nothing.
LEMMA LastIsOfBoth ==
    ASSUME NEW first \in Seq(PhoebusMsg), NEW second \in Seq(PhoebusMsg), NEW d, NEW view,
           LastIs(first, d, view), ConfigsFor(second, d) = {}
    PROVE  LastIs(first \o second, d, view)
<1> DEFINE both == first \o second
<1>1. /\ DOMAIN first = 1 .. Len(first) /\ DOMAIN second = 1 .. Len(second)
      /\ DOMAIN both = 1 .. Len(first) + Len(second)
      /\ Len(first) \in Nat /\ Len(second) \in Nat
      /\ \A i \in DOMAIN both :
            both[i] = IF i <= Len(first) THEN first[i] ELSE second[i - Len(first)]
  OBVIOUS
<1> HIDE DEF both
<1>2. ConfigsFor(both, d) = ConfigsFor(first, d)
  <2>1. ASSUME NEW i \in DOMAIN both, Configures(both[i], d), i > Len(first)
        PROVE  FALSE
    <3>1. i - Len(first) \in DOMAIN second /\ Configures(second[i - Len(first)], d)
      BY <1>1, <2>1
    <3> QED BY <3>1, ConfigsForDef
  <2>2. \A i \in DOMAIN both : i > Len(first) \/ (i \in DOMAIN first /\ both[i] = first[i])
    BY <1>1
  <2>3. \A i \in DOMAIN first : i \in DOMAIN both /\ both[i] = first[i]
    BY <1>1
  <2>4. \A i \in DOMAIN both : Configures(both[i], d) => i \in DOMAIN first /\ both[i] = first[i]
    BY <2>1, <2>2
  <2>5. \A i : (i \in DOMAIN both /\ Configures(both[i], d))
                  <=> (i \in DOMAIN first /\ Configures(first[i], d))
    BY <2>3, <2>4, Zenon
  <2>6. {i \in DOMAIN both : Configures(both[i], d)} = {i \in DOMAIN first : Configures(first[i], d)}
    BY <2>5
  <2> QED BY <2>6, ConfigsForDef, Zenon
<1>3. \A i \in ConfigsFor(first, d) : i \in DOMAIN first /\ both[i] = first[i]
  BY <1>1, ConfigsForDef
<1> QED BY <1>2, <1>3 DEF LastIs, IsLastConfig, both

\* During the pass, unless a config of the device is still to be read.
LEMMA PassHeals ==
    ASSUME Racing, NEW d \in Device, HealsFor(d), RunHydration, UNCHANGED intent,
           hydration.pc # "done", UNCHANGED retained,
           metadata_cache[d] # None => metadata_cache'[d] # None,
           ~RecordWaits(d) /\ EntersScope(d)' =>
               (Effective(alarm_states[d]) = Effective(phoebus_view[d]))' \/ Hydrates(d)',
           ~RecordWaits(d) /\ hydration'.pc # "done" => LastIs(Unapplied', d, phoebus_view[d])
    PROVE  HealsFor(d)'
<1>1. UNCHANGED <<phoebus_topics, phoebus_view, controls_task, monitors, now>>
  BY HydrationKeeps DEF views, phoebus_side
<1>2. /\ RecordWaits(d)' <=> RecordWaits(d)
      /\ ToldPhoebus(d)' <=> ToldPhoebus(d)
      /\ Held(d)' <=> Held(d)
      /\ ControlsHolds(d, {"record"})' <=> ControlsHolds(d, {"record"})
  BY <1>1 DEF RecordWaits, ToldPhoebus, Effective, Held, MonitorHolds, ControlsHolds
<1>3. ConfigsTold(d)'
  BY <1>1, <1>2 DEF HealsFor, ConfigsTold, Held, Effective
<1>4. MirrorsScoped(d)'
  BY <1>1 DEF HealsFor, MirrorsScoped
<1>5. CacheCorrected(d)'
  BY <1>2 DEF CacheCorrected, Corrects
<1>6. LogsShowView(d)'
  <2> SUFFICES ASSUME hydration'.pc # "done", ~RecordWaits(d)
               PROVE  /\ \A t \in PhoebusTopics : LastIs(retained'[t], d, phoebus_view'[d])
                      /\ LastIs(Unapplied', d, phoebus_view'[d])
    BY <1>2 DEF LogsShowView, LastIs
  <2> QED BY <1>1 DEF HealsFor, LogsShowView
<1> QED BY <1>3, <1>4, <1>5, <1>6 DEF HealsFor

LEMMA SnapshotHeals ==
    ASSUME Racing, NEW d \in Device, HealsFor(d), RunHydration, UNCHANGED intent,
           HydrationSnapshot, NoFault
    PROVE  HealsFor(d)'
<1> USE DEF Racing, Wished, TypeOK, ExternalTypeOK, HydrationTypeOK, Hydration
<1> DEFINE topic == Head(hydration.todo)
           records == retained[topic] \o phoebus_topics[topic]
<1>1. /\ hydration.pc = "snapshot" /\ hydration.todo # <<>>
      /\ hydration.todo \in Seq(PhoebusTopics)
      /\ UNCHANGED <<alarm_states, metadata_cache, now, retained, phoebus_view>>
  BY DEF HydrationSnapshot, caches, views, phoebus_side
<1>2. topic \in PhoebusTopics /\ topic \in MonitoredTopics
  BY <1>1, TopicFacts
<1>3. hydration' = [hydration EXCEPT !.pc = "apply", !.messages = records]
  <2>1. ~Fault
    BY DEF Fault, NoFault
  <2> QED BY <2>1 DEF HydrationSnapshot
<1>4. Unapplied = <<>> /\ Unapplied' = records /\ ~Scopes(d)'
  BY <1>1, <1>3 DEF Unapplied, Scopes
<1>5. ~RecordWaits(d) => LastIs(Unapplied', d, phoebus_view[d])
  <2> SUFFICES ASSUME ~RecordWaits(d) PROVE LastIs(records, d, phoebus_view[d])
    BY <1>4
  <2>1. ConfigsFor(phoebus_topics[topic], d) = {}
    BY <1>2 DEF RecordWaits
  <2>2. LastIs(retained[topic], d, phoebus_view[d])
    BY <1>1, <1>2 DEF HealsFor, LogsShowView
  <2>3. retained[topic] \in Seq(PhoebusMsg) /\ phoebus_topics[topic] \in Seq(PhoebusMsg)
    BY <1>2
  <2> HIDE DEF topic
  <2> QED BY <2>1, <2>2, <2>3, LastIsOfBoth
<1>6. UNCHANGED monitors
  BY DEF RunHydration
<1>7. ~RecordWaits(d) /\ EntersScope(d)' =>
          (Effective(alarm_states[d]) = Effective(phoebus_view[d]))'
  <2> SUFFICES ASSUME ~RecordWaits(d), EntersScope(d)'
               PROVE  Effective(alarm_states[d]) = Effective(phoebus_view[d])
    BY <1>1 DEF Effective
  <2>1. EntersScope(d)
    BY <1>1, <1>4, <1>6 DEF EntersScope, MonitorHolds
  <2>2. ~Held(d) /\ ~Hydrates(d)
    BY <1>1, <1>4, ConfigsForDef DEF OneTurn, NothingAcknowledged, Held, MonitorHolds, Hydrates
  <2> QED BY <2>1, <2>2 DEF HealsFor, CacheCorrected, Corrects, Held
<1> QED BY <1>1, <1>5, <1>7, PassHeals

\* A step of the pass with which no more of the log is recorded.
LEMMA PassWaits ==
    ASSUME Racing, NEW d \in Device, HealsFor(d), RunHydration, UNCHANGED intent,
           hydration.pc # "done",
           UNCHANGED <<retained, now, phoebus_view>>,
           metadata_cache[d] # None => metadata_cache'[d] # None,
           EntersScope(d)' => EntersScope(d),
           EntersScope(d) => Effective(alarm_states[d])' = Effective(alarm_states[d]),
           Hydrates(d)' <=> Hydrates(d),
           hydration'.pc # "done" =>
               (LastIs(Unapplied, d, phoebus_view[d]) => LastIs(Unapplied', d, phoebus_view[d]))
    PROVE  HealsFor(d)'
<1>1. ~Held(d)
  BY DEF Racing, OneTurn, NothingAcknowledged, Held, MonitorHolds
<1>2. ~RecordWaits(d) /\ EntersScope(d)' =>
          (Effective(alarm_states[d]) = Effective(phoebus_view[d]))' \/ Hydrates(d)'
  <2> SUFFICES ASSUME ~RecordWaits(d), EntersScope(d)', ~Hydrates(d)'
               PROVE  (Effective(alarm_states[d]) = Effective(phoebus_view[d]))'
    OBVIOUS
  <2>1. Effective(alarm_states[d]) = Effective(phoebus_view[d])
    BY <1>1 DEF HealsFor, CacheCorrected, Corrects, Held
  <2>2. Effective(phoebus_view[d])' = Effective(phoebus_view[d])
    BY DEF Effective
  <2> QED BY <2>1, <2>2
<1>3. ~RecordWaits(d) /\ hydration'.pc # "done" => LastIs(Unapplied', d, phoebus_view[d])
  BY DEF HealsFor, LogsShowView
<1> QED BY <1>2, <1>3, PassHeals

LEMMA ScopingHeals ==
    ASSUME Racing, NEW d \in Device, HealsFor(d), RunHydration, UNCHANGED intent,
           HydrationUpdate
    PROVE  HealsFor(d)'
<1> USE DEF Racing, Wished, TypeOK, ExternalTypeOK, HydrationTypeOK, Hydration
<1> DEFINE config == Head(hydration.messages)
           metadata == [specific |-> config.specific, path |-> config.path,
                        topic |-> Head(hydration.todo)]
<1>1. /\ hydration.pc = "update"
      /\ hydration' = [hydration EXCEPT !.pc = "apply", !.messages = Tail(hydration.messages)]
      /\ metadata_cache' = [metadata_cache EXCEPT ![config.device] = metadata]
      /\ metadata_cache \in [Device -> PvMetadata \cup {None}]
      /\ UNCHANGED <<alarm_states, now, retained, phoebus_view>>
  BY DEF HydrationUpdate, update_cached_metadata, CachesTypeOK, views, phoebus_side
<1>2. /\ hydration'.pc = "apply" /\ hydration'.messages = Tail(hydration.messages)
  BY <1>1
<1>3. metadata # None
  <2>1. config \in ConfigMsg /\ Head(hydration.todo) \in PhoebusTopics
    BY <1>1
  <2>2. metadata \in PvMetadata
    BY <2>1, TopicFacts DEF PvMetadata, ConfigMsg
  <2> QED BY <2>2, NoneAssumption
<1>4. /\ Unapplied' = Unapplied
      /\ Hydrates(d)' <=> Hydrates(d)
      /\ Scopes(d) <=> config.device = d
      /\ ~Scopes(d)'
  BY <1>1, <1>2 DEF Unapplied, Hydrates, Scopes
<1> HIDE DEF metadata
<1>5. IF config.device = d THEN metadata_cache'[d] # None
                           ELSE metadata_cache'[d] = metadata_cache[d]
  BY <1>1, <1>3
<1>6. UNCHANGED monitors
  BY DEF RunHydration
<1>7. EntersScope(d)' => EntersScope(d)
  BY <1>4, <1>5, <1>6 DEF EntersScope, MonitorHolds
<1>8. Effective(alarm_states[d])' = Effective(alarm_states[d])
  BY <1>1 DEF Effective
<1> QED BY <1>1, <1>4, <1>5, <1>7, <1>8, PassWaits

LEMMA NextHeals ==
    ASSUME Racing, NEW d \in Device, HealsFor(d), RunHydration, UNCHANGED intent,
           HydrationNextTopic \/ HydrationDone
    PROVE  HealsFor(d)'
<1> USE DEF Racing, Wished, TypeOK, ExternalTypeOK, HydrationTypeOK, Hydration
<1>1. /\ hydration.pc # "done" /\ hydration.pc # "update" /\ hydration'.pc \in {"snapshot", "done"}
      /\ UNCHANGED <<alarm_states, metadata_cache, now, retained, phoebus_view, monitors>>
      /\ hydration.pc = "apply" => hydration.messages = <<>>
  BY DEF RunHydration, HydrationNextTopic, HydrationDone, caches, views, phoebus_side
<1>2. Unapplied = <<>> /\ Unapplied' = <<>> /\ ~Scopes(d)'
  BY <1>1 DEF Unapplied, Scopes
<1>3. /\ Hydrates(d)' <=> Hydrates(d)
      /\ EntersScope(d)' => EntersScope(d)
      /\ Effective(alarm_states[d])' = Effective(alarm_states[d])
  BY <1>1, <1>2 DEF Hydrates, EntersScope, MonitorHolds, Effective
<1> QED BY <1>1, <1>2, <1>3, PassWaits

\* A record that configures another device, or none.
LEMMA SkippingHeals ==
    ASSUME Racing, NEW d \in Device, HealsFor(d), RunHydration, UNCHANGED intent,
           HydrationApply, ~Configures(Head(hydration.messages), d),
           Unapplied' = Tail(hydration.messages), ~Scopes(d)',
           metadata_cache[d] # None => Effective(alarm_states[d])' = Effective(alarm_states[d])
    PROVE  HealsFor(d)'
<1> USE DEF Racing, Wished, TypeOK, ExternalTypeOK, HydrationTypeOK, Hydration
<1> DEFINE messages == hydration.messages
<1>1. /\ hydration.pc = "apply" /\ messages # <<>> /\ messages \in Seq(PhoebusMsg)
      /\ UNCHANGED <<metadata_cache, now, retained, phoebus_view, monitors>>
  BY DEF RunHydration, HydrationApply, views, phoebus_side
<1>2. Unapplied = messages /\ ~Scopes(d)
  BY <1>1 DEF Unapplied, Scopes
<1>3. Hydrates(d)' <=> Hydrates(d)
  <2>1. ConfigsFor(messages, d) # {} <=> ConfigsFor(Tail(messages), d) # {}
    BY <1>1, TailConfigures
  <2> QED BY <1>2, <2>1 DEF Hydrates
<1>4. ~MonitorHolds(d, {"update"}) /\ ~MonitorHolds(d, {"update"})'
  BY <1>1 DEF OneTurn, NothingAcknowledged, MonitorHolds
<1>5. (EntersScope(d)' => EntersScope(d)) /\ (EntersScope(d) => metadata_cache[d] # None)
  BY <1>1, <1>2, <1>4 DEF EntersScope
<1>6. LastIs(Unapplied, d, phoebus_view[d]) => LastIs(Unapplied', d, phoebus_view[d])
  BY <1>1, <1>2, LastIsOfTail
<1> QED BY <1>1, <1>3, <1>5, <1>6, PassWaits

\* A config of the device; if it is the last one, it is what Phoebus displays.
LEMMA ConfigHeals ==
    ASSUME Racing, NEW d \in Device, HealsFor(d), RunHydration, UNCHANGED intent,
           HydrationApply, Configures(Head(hydration.messages), d)
    PROVE  HealsFor(d)'
<1> USE DEF Racing, Wished, TypeOK, ExternalTypeOK, HydrationTypeOK, Hydration
<1> DEFINE messages == hydration.messages
           msg == Head(messages)
           state == as_cached_state(msg.enabled, now)
<1>1. /\ hydration.pc = "apply" /\ messages # <<>> /\ messages \in Seq(PhoebusMsg)
      /\ msg \in PhoebusMsg /\ now \in Nat
      /\ UNCHANGED <<metadata_cache, now, retained, phoebus_view>>
  BY DEF HydrationApply, views, phoebus_side
<1>2. /\ msg.op = "Config" /\ msg.device = d /\ Normalizable(msg.enabled)
      /\ msg.enabled \in Enablement
  BY <1>1 DEF Configures, PhoebusMsg, CommandMsg, ConfigMsg, StateMsg, BadKeyMsg
<1>3. /\ alarm_states' = [alarm_states EXCEPT ![d] = state]
      /\ hydration' = [hydration EXCEPT !.pc = "update"]
  BY <1>2 DEF HydrationApply, record_alarm_state
<1>4. hydration'.pc = "update" /\ hydration'.messages = messages
  BY <1>3
<1>5. alarm_states'[d] = state
  <2>1. alarm_states \in [Device -> Observation]
    BY DEF CachesTypeOK
  <2> QED BY <1>3, <2>1
<1>6. Unapplied = messages /\ Unapplied' = Tail(messages)
  BY <1>1, <1>4 DEF Unapplied
<1> HIDE DEF state
<1>7. ~RecordWaits(d) =>
          (Effective(alarm_states[d]) = Effective(phoebus_view[d]))' \/ Hydrates(d)'
  <2> SUFFICES ASSUME ~RecordWaits(d), ~Hydrates(d)'
               PROVE  (Effective(alarm_states[d]) = Effective(phoebus_view[d]))'
    OBVIOUS
  <2>1. ConfigsFor(Tail(messages), d) = {}
    BY <1>6 DEF Hydrates
  <2>2. LastIs(messages, d, phoebus_view[d])
    BY <1>1, <1>6 DEF HealsFor, LogsShowView
  <2>3. Shown(msg.enabled) = phoebus_view[d]
    BY <1>1, <2>1, <2>2, LastIsOfTail
  <2>4. EffectiveAt(state, now) = EffectiveAt(phoebus_view[d], now)
    BY <1>1, <1>2, <2>3, ReadingKeeps DEF state
  <2> QED BY <1>1, <1>5, <2>4 DEF Effective
<1>8. ~RecordWaits(d) => LastIs(Unapplied', d, phoebus_view[d])
  <2> SUFFICES ASSUME ~RecordWaits(d) PROVE LastIs(Tail(messages), d, phoebus_view[d])
    BY <1>6
  <2>1. LastIs(messages, d, phoebus_view[d])
    BY <1>1, <1>6 DEF HealsFor, LogsShowView
  <2> QED BY <1>1, <2>1, LastIsOfTail
<1> QED BY <1>1, <1>7, <1>8, PassHeals

LEMMA ApplyHeals ==
    ASSUME Racing, NEW d \in Device, HealsFor(d), RunHydration, UNCHANGED intent,
           HydrationApply
    PROVE  HealsFor(d)'
<1> USE DEF Racing, Wished, TypeOK, ExternalTypeOK, HydrationTypeOK, Hydration
<1> DEFINE messages == hydration.messages
           msg == Head(messages)
           Skips == hydration' = [hydration EXCEPT !.messages = Tail(messages)]
<1>1. /\ hydration.pc = "apply" /\ messages # <<>> /\ messages \in Seq(PhoebusMsg)
      /\ msg \in PhoebusMsg /\ UNCHANGED now
  BY DEF HydrationApply
<1>2. CASE Configures(msg, d)
  BY <1>2, ConfigHeals
<1>3. ASSUME ~Configures(msg, d), Skips,
             metadata_cache[d] # None => Effective(alarm_states[d])' = Effective(alarm_states[d])
      PROVE  HealsFor(d)'
  <2>1. hydration'.pc = "apply" /\ hydration'.messages = Tail(messages)
    BY <1>1, <1>3
  <2>2. Unapplied' = Tail(messages) /\ ~Scopes(d)'
    BY <2>1 DEF Unapplied, Scopes
  <2> QED BY <1>3, <2>2, SkippingHeals
<1>4. UNCHANGED <<alarm_states[d]>> => Effective(alarm_states[d])' = Effective(alarm_states[d])
  BY <1>1 DEF Effective
<1>5. CASE ~Configures(msg, d) /\ msg.op = "Config"
  <2>1. CASE Normalizable(msg.enabled)
    <3>1. /\ alarm_states' = [alarm_states EXCEPT ![msg.device] = as_cached_state(msg.enabled, now)]
          /\ hydration' = [hydration EXCEPT !.pc = "update"]
      BY <1>5, <2>1 DEF HydrationApply, record_alarm_state
    <3>2. msg.device # d
      BY <1>5, <2>1 DEF Configures
    <3>3. hydration'.pc = "update" /\ hydration'.messages = messages
      BY <3>1
    <3>4. Unapplied' = Tail(messages) /\ ~Scopes(d)'
      BY <3>2, <3>3 DEF Unapplied, Scopes
    <3>5. alarm_states'[d] = alarm_states[d]
      BY <3>1, <3>2 DEF CachesTypeOK
    <3> QED BY <1>4, <1>5, <3>4, <3>5, SkippingHeals
  <2>2. CASE ~Normalizable(msg.enabled)
    <3>1. Skips /\ UNCHANGED alarm_states
      BY <1>5, <2>2 DEF HydrationApply
    <3> QED BY <1>3, <1>4, <1>5, <3>1
  <2> QED BY <2>1, <2>2
<1>6. CASE msg.op \in {"Command", "BadKey"}
  <2>1. Skips /\ UNCHANGED alarm_states /\ ~Configures(msg, d)
    BY <1>6 DEF HydrationApply, Configures
  <2> QED BY <1>3, <1>4, <2>1
<1>7. CASE msg.op = "State"
  <2> DEFINE evidence == Plain(severity_to_state(msg.severity))
  <2>1. Skips /\ ~Configures(msg, d)
    BY <1>7 DEF HydrationApply, Configures
  <2>2. CASE UNCHANGED <<alarm_states[d]>>
    BY <1>3, <1>4, <2>1, <2>2
  <2>3. CASE ~(UNCHANGED <<alarm_states[d]>>)
    <3>1. /\ ~IsBypassed(alarm_states[msg.device])
          /\ alarm_states' = [alarm_states EXCEPT ![msg.device] = evidence]
      BY <1>7, <2>3 DEF HydrationApply, record_startup_state_evidence, record_alarm_state, IsBypassed
    <3>2. msg.device = d /\ alarm_states'[d] = evidence
      BY <2>3, <3>1 DEF CachesTypeOK
    <3>3. evidence # None /\ evidence.state # "Bypassed"
      <4>1. evidence \in CachedState
        BY SeverityType
      <4>2. evidence.state # "Bypassed"
        BY DEF severity_to_state, Plain
      <4> QED BY <4>1, <4>2, NoneAssumption
    <3> HIDE DEF evidence
    <3>4. metadata_cache[d] # None => alarm_states[d] # None
      BY DEF ScopeInvariant, ScopeImpliesObserved
    <3>5. alarm_states[d] # None => Effective(alarm_states[d])' = Effective(alarm_states[d])
      BY <3>1, <3>2, <3>3 DEF IsBypassed, Effective, EffectiveAt
    <3> QED BY <1>3, <2>1, <3>4, <3>5
  <2> QED BY <2>2, <2>3
<1>8. msg.op \in {"Config", "Command", "BadKey", "State"}
  BY <1>1 DEF PhoebusMsg, CommandMsg, ConfigMsg, StateMsg, BadKeyMsg
<1> QED BY <1>2, <1>5, <1>6, <1>7, <1>8

LEMMA HydrationHeals ==
    ASSUME Racing, NEW d \in Device, HealsFor(d), RunHydration, NoFault, UNCHANGED intent
    PROVE  HealsFor(d)'
  BY SnapshotHeals, ApplyHeals, ScopingHeals, NextHeals DEF RunHydration, HydrationStep

-----------------------------------------------------------------------------
(* The one action, the clock, and the start.                               *)

\* The action is taken when nothing is under way: only a config that it publishes
\* changes what Phoebus displays.
LEMMA OperatorHeals ==
    ASSUME OthersWait, Racing, NEW d \in Device, HealsFor(d), OperatorAsks
    PROVE  HealsFor(d)'
<1> USE DEF Racing, Wished, TypeOK, ExternalTypeOK
<1>1. /\ controls_task.pc \in {"down", "idle"}
      /\ \A t \in MonitoredTopics : phoebus_topics[t] = <<>> /\ monitors[t].pc \in {"down", "idle"}
      /\ UNCHANGED <<alarm_states, metadata_cache, retained, now, controls_task, monitors, hydration>>
  BY DEF OthersWait, OperatorAsks, OperatorTurn, caches, tasks
<1>2. /\ ~RecordWaits(d) /\ ~Held(d) /\ ~Held(d)'
      /\ ~ControlsHolds(d, {"record"})' /\ MirrorsScoped(d)'
      /\ \A t \in MonitoredTopics : monitors'[t].pc # "record"
      /\ EntersScope(d)' <=> EntersScope(d)
      /\ Hydrates(d)' <=> Hydrates(d)
  <2>1. ~RecordWaits(d)
    BY <1>1, ConfigsForDef DEF RecordWaits
  <2>2. ~Held(d) /\ ~Held(d)' /\ \A t \in MonitoredTopics : monitors'[t].pc # "record"
    BY <1>1 DEF Held, MonitorHolds
  <2>3. ~ControlsHolds(d, {"record"})' /\ MirrorsScoped(d)'
    BY <1>1 DEF ControlsHolds, MirrorsScoped
  <2>4. EntersScope(d)' <=> EntersScope(d)
    BY <1>1 DEF EntersScope, Scopes, MonitorHolds
  <2>5. Hydrates(d)' <=> Hydrates(d)
    BY <1>1 DEF Hydrates, Unapplied
  <2> QED BY <2>1, <2>2, <2>3, <2>4, <2>5
<1>3. RecordWaits(d)' => ToldPhoebus(d)'
  <2>1. ASSUME NEW status \in ControlsInputs, AsksControls(status)
        PROVE  ~RecordWaits(d)'
    <3>1. UNCHANGED phoebus_topics
      BY <2>1 DEF AsksControls, ControlsActs
    <3> QED BY <1>2, <3>1 DEF RecordWaits
  <2>2. ASSUME NEW input \in PhoebusInputs, AsksPhoebus(input)
        PROVE  RecordWaits(d)' => ToldPhoebus(d)'
    <3> DEFINE msg == input[2]
    <3>1. input[1] \in MonitoredTopics /\ msg \in PhoebusMsg
      BY EnvironmentAssumption
    <3>2. /\ phoebus_topics' = [phoebus_topics EXCEPT ![input[1]] = Append(@, msg)]
          /\ msg.op = "Config" /\ Normalizable(msg.enabled) =>
                /\ phoebus_view' = [phoebus_view EXCEPT ![msg.device] = Shown(msg.enabled)]
                /\ intent' = [intent EXCEPT ![msg.device] = Shown(msg.enabled)]
      BY <2>2 DEF AsksPhoebus, PhoebusActs, PublishPhoebus
    <3> HIDE DEF msg
    <3>3. RecordWaits(d)' => Configures(msg, d)
      <4>1. \A t \in MonitoredTopics :
                phoebus_topics'[t] = IF t = input[1] THEN Append(<<>>, msg) ELSE <<>>
        BY <1>1, <3>1, <3>2
      <4>2. ConfigsFor(<<>>, d) = {} /\ <<>> \in Seq(PhoebusMsg)
        BY ConfigsForDef
      <4>3. ConfigsFor(Append(<<>>, msg), d) # {} <=> Configures(msg, d)
        BY <3>1, <4>2, AppendConfigures
      <4> QED BY <4>1, <4>2, <4>3 DEF RecordWaits
    <3>4. Configures(msg, d) => phoebus_view'[d] = intent'[d]
      BY <3>2 DEF Configures
    <3> QED BY <3>3, <3>4 DEF ToldPhoebus
  <2> QED BY <2>1, <2>2 DEF OperatorAsks
<1>4. phoebus_view'[d] = phoebus_view[d] \/ RecordWaits(d)'
  <2>1. ASSUME NEW status \in ControlsInputs, AsksControls(status)
        PROVE  UNCHANGED phoebus_view
    BY <2>1 DEF AsksControls, ControlsActs, phoebus_side
  <2>2. ASSUME NEW input \in PhoebusInputs, AsksPhoebus(input), phoebus_view'[d] # phoebus_view[d]
        PROVE  RecordWaits(d)'
    <3> DEFINE msg == input[2]
    <3>1. input[1] \in MonitoredTopics /\ msg \in PhoebusMsg
      BY EnvironmentAssumption
    <3>2. /\ phoebus_topics' = [phoebus_topics EXCEPT ![input[1]] = Append(@, msg)]
          /\ IF msg.op = "Config" /\ Normalizable(msg.enabled)
             THEN phoebus_view' = [phoebus_view EXCEPT ![msg.device] = Shown(msg.enabled)]
             ELSE UNCHANGED phoebus_view
      BY <2>2 DEF AsksPhoebus, PhoebusActs, PublishPhoebus, phoebus_side
    <3> HIDE DEF msg
    <3>3. Configures(msg, d)
      BY <2>2, <3>2 DEF Configures
    <3>4. phoebus_topics'[input[1]] = Append(phoebus_topics[input[1]], msg)
      BY <3>1, <3>2
    <3>5. ConfigsFor(Append(phoebus_topics[input[1]], msg), d) # {}
      BY <3>1, <3>3, AppendConfigures
    <3> QED BY <3>1, <3>4, <3>5 DEF RecordWaits
  <2> QED BY <2>1, <2>2 DEF OperatorAsks
<1>5. EntersScope(d)' =>
          \/ (Effective(alarm_states[d]) = Effective(phoebus_view[d]))'
          \/ RecordWaits(d)' \/ Held(d)' \/ Hydrates(d)'
  BY <1>1, <1>2, <1>4 DEF HealsFor, CacheCorrected, Corrects, Held, Effective
<1> QED BY <1>1, <1>2, <1>3, <1>4, <1>5, HealingMovesOn

\* The clock leaves equal what amounts to the same.
LEMMA TickHeals ==
    ASSUME Racing, NEW d \in Device, HealsFor(d), ClockTicks, UNCHANGED intent
    PROVE  HealsFor(d)'
<1> USE DEF Racing, Wished, TypeOK, ExternalTypeOK, CachesTypeOK
<1>1. /\ now' = now + 1 /\ now \in Nat
      /\ UNCHANGED <<alarm_states, metadata_cache, retained, phoebus_topics, phoebus_view,
                     controls_task, monitors, hydration>>
  BY DEF ClockTicks, Tick, caches, tasks, topics, views, phoebus_side
<1>2. ASSUME NEW v \in Observation, NEW w \in Observation,
             EffectiveAt(v, now) = EffectiveAt(w, now)
      PROVE  EffectiveAt(v, now') = EffectiveAt(w, now')
  BY <1>1, <1>2, TickKeeps
<1>3. /\ ToldPhoebus(d) => ToldPhoebus(d)'
      /\ Effective(alarm_states[d]) = Effective(phoebus_view[d])
             => (Effective(alarm_states[d]) = Effective(phoebus_view[d]))'
  BY <1>1, <1>2 DEF ToldPhoebus, Effective
<1>4. /\ RecordWaits(d)' <=> RecordWaits(d)
      /\ Held(d)' <=> Held(d)
      /\ Hydrates(d)' <=> Hydrates(d)
      /\ EntersScope(d)' <=> EntersScope(d)
      /\ ControlsHolds(d, {"record"})' <=> ControlsHolds(d, {"record"})
      /\ MirrorsScoped(d)'
  BY <1>1 DEF RecordWaits, Held, MonitorHolds, Hydrates, Unapplied, EntersScope, Scopes,
              ControlsHolds, HealsFor, MirrorsScoped
<1>5. ControlsHolds(d, {"record"}) =>
          (Effective(from_status(controls_task.alarm)) = Effective(intent[d]))'
  <2> SUFFICES ASSUME ControlsHolds(d, {"record"})
               PROVE  EffectiveAt(from_status(controls_task.alarm), now') = EffectiveAt(intent[d], now')
    BY <1>1 DEF Effective
  <2>1. controls_task.alarm \in Status
    BY DEF ControlsHolds, ControlsTypeOK, ControlsTask, Mirrored
  <2>2. EffectiveAt(from_status(controls_task.alarm), now) = EffectiveAt(intent[d], now)
    BY DEF HealsFor, ConfigsTold, Effective
  <2>3. from_status(controls_task.alarm) \in Observation /\ intent[d] \in Observation
    BY <2>1, FromStatusType DEF Observation
  <2> QED BY <1>2, <2>2, <2>3
<1>6. \A t \in MonitoredTopics :
          monitors'[t].pc = "record" /\ Configures(monitors'[t].msg, d) =>
              (Effective(monitors[t].updated) = Effective(intent[d]))'
  <2> SUFFICES ASSUME NEW t \in MonitoredTopics,
                      monitors[t].pc = "record", Configures(monitors[t].msg, d)
               PROVE  EffectiveAt(monitors[t].updated, now') = EffectiveAt(intent[d], now')
    BY <1>1 DEF Effective
  <2>1. monitors[t].updated \in Observation /\ intent[d] \in Observation
    BY InHandType DEF InHand, MonitorsTypeOK, Observation
  <2>2. EffectiveAt(monitors[t].updated, now) = EffectiveAt(intent[d], now)
    BY DEF HealsFor, ConfigsTold, Effective
  <2> QED BY <1>2, <2>1, <2>2
<1>7. ControlsHolds(d, {"record"})' => ToldPhoebus(d)'
  BY <1>3, <1>4 DEF HealsFor, ConfigsTold
<1>8. EntersScope(d)' =>
          \/ (Effective(alarm_states[d]) = Effective(phoebus_view[d]))'
          \/ RecordWaits(d)' \/ Held(d)' \/ Hydrates(d)'
  BY <1>3, <1>4 DEF HealsFor, CacheCorrected, Corrects, Held
<1> QED BY <1>1, <1>3, <1>4, <1>5, <1>6, <1>7, <1>8, HealingMovesOn

LEMMA StutterHeals ==
    ASSUME NEW d \in Device, HealsFor(d), UNCHANGED <<vars, intent>>
    PROVE  HealsFor(d)'
<1>1. UNCHANGED <<alarm_states, metadata_cache, retained, phoebus_topics, phoebus_view,
                  controls_task, monitors, hydration, now>>
  BY DEF vars, caches, external, topics, views, phoebus_side
<1>2. /\ ToldPhoebus(d)' <=> ToldPhoebus(d)
      /\ (Effective(alarm_states[d]) = Effective(phoebus_view[d]))'
             <=> Effective(alarm_states[d]) = Effective(phoebus_view[d])
  BY <1>1 DEF ToldPhoebus, Effective
<1>3. /\ RecordWaits(d)' <=> RecordWaits(d)
      /\ Held(d)' <=> Held(d)
      /\ Hydrates(d)' <=> Hydrates(d)
      /\ EntersScope(d)' <=> EntersScope(d)
      /\ ControlsHolds(d, {"record"})' <=> ControlsHolds(d, {"record"})
      /\ MirrorsScoped(d)'
  BY <1>1 DEF RecordWaits, Held, MonitorHolds, Hydrates, Unapplied, EntersScope, Scopes,
              ControlsHolds, HealsFor, MirrorsScoped
<1>4. ControlsHolds(d, {"record"})' =>
          /\ ToldPhoebus(d)'
          /\ (Effective(from_status(controls_task.alarm)) = Effective(intent[d]))'
  BY <1>1, <1>2, <1>3 DEF HealsFor, ConfigsTold, Effective
<1>5. \A t \in MonitoredTopics :
          monitors'[t].pc = "record" /\ Configures(monitors'[t].msg, d) =>
              (Effective(monitors[t].updated) = Effective(intent[d]))'
  BY <1>1 DEF HealsFor, ConfigsTold, Effective
<1>6. EntersScope(d)' =>
          \/ (Effective(alarm_states[d]) = Effective(phoebus_view[d]))'
          \/ RecordWaits(d)' \/ Held(d)' \/ Hydrates(d)'
  BY <1>2, <1>3 DEF HealsFor, CacheCorrected, Corrects, Held
<1> QED BY <1>1, <1>2, <1>3, <1>4, <1>5, <1>6, HealingMovesOn

LEMMA InitHeals ==
    ASSUME ConfiguredAlike, MirroringInit
    PROVE  OneTurn /\ \A d \in Device : HealsFor(d)
<1> USE DEF MirroringInit, Init, CachesInit, ExternalInit, ControlsInit, ControlsAt, MonitorsInit,
            MonitorAt, HydrationInit
<1>1. OneTurn
  BY DEF OneTurn, OthersWait, OneKind, OnlyKind, StatusesOf, RecordsOf, ControlsTaskOf, MonitorOf,
         HoldsItsKind, NothingAcknowledged, AcknowledgesActive, Acknowledging, Relaying
<1> SUFFICES ASSUME NEW d \in Device PROVE HealsFor(d)
  BY <1>1
<1>2. /\ ~RecordWaits(d) /\ ~EntersScope(d) /\ Unapplied = <<>>
      /\ ConfigsTold(d) /\ MirrorsScoped(d)
  BY ConfigsForDef DEF RecordWaits, EntersScope, Scopes, Unapplied, ConfigsTold, MirrorsScoped,
                       ControlsHolds, MonitorHolds
<1>3. \A t \in PhoebusTopics : LastIs(retained[t], d, phoebus_view[d])
  <2> SUFFICES ASSUME NEW t \in PhoebusTopics, NEW i \in DOMAIN retained[t],
                      IsLastConfig(i, retained[t], d)
               PROVE  Shown(retained[t][i].enabled) = phoebus_view[d]
    BY DEF LastIs
  <2>1. ConfigsFor(retained[t], d) # {}
    BY DEF IsLastConfig
  <2>2. PICK u \in PhoebusTopics : \E j \in DOMAIN retained[u] :
            /\ IsLastConfig(j, retained[u], d)
            /\ phoebus_view[d] = Shown(retained[u][j].enabled)
    BY <2>1 DEF InitialView
  <2>3. retained \in RetainedLogs
    OBVIOUS
  <2> QED BY <2>2, <2>3 DEF ConfiguredAlike
<1>4. LogsShowView(d)
  BY <1>2, <1>3 DEF LogsShowView, LastIs
<1>5. CacheCorrected(d)
  BY <1>2 DEF CacheCorrected
<1> QED BY <1>2, <1>4, <1>5 DEF HealsFor

-----------------------------------------------------------------------------
(* The one action finds nothing under way, and the race it may run heals.  *)

\* As long as no acknowledgement comes from Controls, the Controls task holds none.
LEMMA StillNoAcknowledgement ==
    ASSUME TypeOK, NothingAcknowledged, RunControls
    PROVE  NothingAcknowledged'
<1> USE DEF TypeOK, ExternalTypeOK
<1> SUFFICES ASSUME hydration'.pc # "done"
             PROVE  /\ \A t \in MonitoredTopics : monitors'[t].pc = "down"
                    /\ StatusesOf(controls_topic', "enablement")
                    /\ ControlsTaskOf(controls_task', "enablement")
  BY DEF NothingAcknowledged, StatusesOf, ControlsTaskOf
<1>0. /\ UNCHANGED <<monitors, hydration>>
      /\ \A t \in MonitoredTopics : monitors[t].pc = "down"
      /\ StatusesOf(controls_topic, "enablement")
      /\ ControlsTaskOf(controls_task, "enablement")
  BY DEF RunControls, NothingAcknowledged
<1>1. CASE ControlsSubscribe
  <2>1. StatusesOf(controls_topic', "enablement")
    BY <1>0, <1>1, FromHeld DEF ControlsSubscribe, StatusesOf
  <2>2. controls_task'.pc = "idle"
    BY <1>1 DEF ControlsSubscribe, ControlsAt
  <2> QED BY <1>0, <2>1, <2>2 DEF ControlsTaskOf
<1>2. CASE ControlsReceive
  <2>1. /\ StatusKind(Head(controls_topic)) \in {"enablement", "other"}
        /\ StatusesOf(Tail(controls_topic), "enablement")
    BY <1>0, <1>2, TailHeld DEF ControlsReceive, StatusesOf
  <2>2. StatusesOf(controls_topic', "enablement")
    BY <1>0, <1>2, <2>1 DEF ControlsReceive
  <2>3. ControlsTaskOf(controls_task', "enablement")
    BY <1>0, <1>2, <2>1 DEF ControlsReceive, ControlsTaskOf
  <2> QED BY <1>0, <2>2, <2>3
<1>3. CASE ControlsPublish
  <2>1. /\ controls_task'.pc = "record" /\ controls_task'.alarm = controls_task.alarm
        /\ controls_task.pc = "publish" /\ UNCHANGED controls_topic
    BY <1>3, PublishEffect DEF ControlsPublish
  <2> QED BY <1>0, <2>1 DEF ControlsTaskOf
<1>4. CASE ControlsDecide
  <2>1. UNCHANGED controls_topic
    BY <1>4 DEF ControlsDecide, topics
  <2>2. ControlsTaskOf(controls_task', "enablement")
    BY <1>0, <1>4 DEF ControlsDecide, ControlsAt, ControlsTaskOf
  <2> QED BY <1>0, <2>1, <2>2
<1>5. CASE ControlsStreamEnds \/ ControlsRecord
  <2>1. UNCHANGED controls_topic /\ controls_task'.pc \in {"down", "idle"}
    BY <1>5 DEF ControlsStreamEnds, ControlsRecord, ControlsAt, topics
  <2> QED BY <1>0, <2>1 DEF ControlsTaskOf
<1> QED BY <1>1, <1>2, <1>3, <1>4, <1>5 DEF RunControls, ControlsStep

\* An acknowledgement can come from Controls only as the report of a call that a
\* monitor makes, and there are no monitors yet.
LEMMA NothingAcknowledgedInductive ==
    ASSUME NoStatusAcknowledges, TypeOK, NothingAcknowledged, [Next]_vars
    PROVE  NothingAcknowledged'
<1> USE DEF TypeOK, ExternalTypeOK
<1>1. CASE OperatorActs
  <2> SUFFICES ASSUME hydration.pc # "done"
               PROVE  /\ \A t \in MonitoredTopics : monitors'[t].pc = "down"
                      /\ StatusesOf(controls_topic', "enablement")
                      /\ ControlsTaskOf(controls_task', "enablement")
    BY <1>1 DEF OperatorActs, OperatorTurn, tasks, NothingAcknowledged
  <2>1. /\ UNCHANGED <<controls_task, monitors>>
        /\ \A t \in MonitoredTopics : monitors[t].pc = "down"
        /\ StatusesOf(controls_topic, "enablement")
        /\ ControlsTaskOf(controls_task, "enablement")
    BY <1>1 DEF OperatorActs, OperatorTurn, tasks, NothingAcknowledged
  <2>2. ASSUME NEW status \in ControlsInputs, ControlsActs(status)
        PROVE  StatusesOf(controls_topic', "enablement")
    <3>1. status \in Status /\ status.state # "Acknowledged"
      BY EnvironmentAssumption DEF NoStatusAcknowledges
    <3>2. StatusKind(status) \in {"enablement", "other"}
      BY <3>1 DEF StatusKind
    <3>3. controls_topic' = Append(controls_topic, status)
      BY <2>2 DEF ControlsActs, PublishStatus
    <3> QED BY <2>1, <3>1, <3>2, <3>3, AppendHeld DEF StatusesOf
  <2>3. ASSUME NEW input \in PhoebusInputs, PhoebusActs(input)
        PROVE  StatusesOf(controls_topic', "enablement")
    BY <2>1, <2>3 DEF PhoebusActs, StatusesOf
  <2>4. StatusesOf(controls_topic', "enablement")
    BY <1>1, <2>2, <2>3 DEF OperatorActs
  <2> QED BY <2>1, <2>4 DEF ControlsTaskOf
<1>2. CASE RunControls
  BY <1>2, StillNoAcknowledgement
<1>3. CASE RunHydration
  <2>1. UNCHANGED <<controls_topic, controls_task, monitors>> /\ hydration.pc # "done"
    BY <1>3, HydrationKeeps
       DEF RunHydration, HydrationStep, HydrationSnapshot, HydrationApply, HydrationUpdate,
           HydrationNextTopic, HydrationDone
  <2> QED BY <2>1 DEF NothingAcknowledged
<1>4. CASE \E t \in MonitoredTopics : RunMonitor(t)
  BY <1>4 DEF RunMonitor, NothingAcknowledged
<1>5. CASE ClockTicks \/ Await \/ UNCHANGED vars
  <2>1. UNCHANGED <<controls_topic, controls_task, monitors, hydration>>
    BY <1>5 DEF ClockTicks, Tick, Await, vars, external, tasks, topics
  <2> QED BY <2>1 DEF NothingAcknowledged
<1> QED BY <1>1, <1>2, <1>3, <1>4, <1>5 DEF Next

\* Before the action is taken nobody has anything to do.
LEMMA StillWaiting ==
    ASSUME TypeOK, OthersWait, NoFault,
           RunControls \/ RunHydration \/ (\E t \in MonitoredTopics : RunMonitor(t))
               \/ ClockTicks \/ Await \/ UNCHANGED vars
    PROVE  OthersWait'
<1>1. CASE RunHydration
  <2>1. UNCHANGED <<controls_topic, phoebus_topics, controls_task, monitors>>
    BY <1>1, HydrationKeeps
  <2> QED BY <2>1 DEF OthersWait
<1>2. CASE ClockTicks \/ Await \/ UNCHANGED vars
  <2>1. UNCHANGED <<controls_topic, phoebus_topics, controls_task, monitors>>
    BY <1>2 DEF ClockTicks, Tick, Await, vars, external, tasks, topics
  <2> QED BY <2>1 DEF OthersWait
<1> QED BY <1>1, <1>2, ControlsWaits, MonitorWaits

LEMMA OneTurnInductive ==
    ASSUME NoStatusAcknowledges, TypeOK, OneTurn, [Next]_vars, NoFault, actions' <= 1
    PROVE  OneTurn'
<1> USE DEF TypeOK, ExternalTypeOK
<1> DEFINE Holding == \A t \in MonitoredTopics : HoldsItsKind(monitors[t])
           Runs == RunControls \/ RunHydration \/ \E t \in MonitoredTopics : RunMonitor(t)
<1>0. /\ actions = 0 => OthersWait
      /\ OneKind /\ Holding /\ NothingAcknowledged /\ AcknowledgesActive
  BY DEF OneTurn
<1>a. NothingAcknowledged'
  BY <1>0, NothingAcknowledgedInductive
<1>1. CASE OperatorActs
  <2>1. actions' = actions + 1 /\ UNCHANGED <<controls_task, monitors, hydration>>
    BY <1>1 DEF OperatorActs, OperatorTurn, tasks
  <2>2. OthersWait /\ actions' # 0
    BY <1>0, <2>1
  <2>3. OneKind' /\ AcknowledgesActive' /\ Holding'
    BY <1>1, <2>2, OperatorBegins
  <2> QED BY <1>a, <2>2, <2>3 DEF OneTurn
<1>2. CASE Runs
  <2>1. UNCHANGED actions
    BY <1>2 DEF RunControls, ControlsStep, ControlsSubscribe, ControlsStreamEnds, ControlsReceive,
                ControlsDecide, ControlsPublish, ControlsRecord, RunHydration, HydrationStep,
                HydrationSnapshot, HydrationApply, HydrationUpdate, HydrationNextTopic,
                HydrationDone, RunMonitor, MonitorStep, MonitorSubscribe, MonitorStreamEnds,
                MonitorReceive, MonitorDecide, MonitorRpc, MonitorRecord, MonitorUpdate
  <2>2. actions' = 0 => OthersWait'
    BY <1>0, <1>2, <2>1, StillWaiting
  <2>3. Holding'
    <3>1. CASE UNCHANGED monitors
      BY <1>0, <3>1
    <3>2. ASSUME NEW t \in MonitoredTopics, RunMonitor(t) PROVE Holding'
      <4>1. \A u \in MonitoredTopics \ {t} : monitors'[u] = monitors[u]
        BY <3>2 DEF RunMonitor, MonitorStep, MonitorSubscribe, MonitorStreamEnds, MonitorReceive,
                    MonitorReceives, MonitorDecide, MonitorRpc, MonitorRecord, MonitorUpdate,
                    Becomes, MonitorsTypeOK
      <4>2. HoldsItsKind(monitors'[t])
        BY <1>0, <3>2, HoldingStays
      <4> QED BY <1>0, <4>1, <4>2
    <3> QED BY <1>2, <3>1, <3>2 DEF RunControls, RunHydration
  <2>4. OneKind' /\ AcknowledgesActive'
    <3>1. hydration.pc # "done" =>
              ~Acknowledging(controls_task) /\ \A t \in MonitoredTopics : ~Relaying(monitors[t])
      BY <1>0 DEF NothingAcknowledged, Acknowledging, Relaying, ControlsTaskOf, StatusKind
    <3> QED BY <1>0, <1>2, <3>1, KindStays, ActiveStays
  <2> QED BY <1>a, <2>2, <2>3, <2>4 DEF OneTurn
<1>3. CASE ClockTicks \/ Await \/ UNCHANGED vars
  <2>1. UNCHANGED <<alarm_states, controls_topic, controls_task, monitors, hydration, actions>>
    BY <1>3 DEF ClockTicks, Tick, Await, vars, caches, external, tasks, topics
  <2>2. actions' = 0 => OthersWait'
    BY <1>0, <1>3, <2>1, StillWaiting
  <2>3. OneKind'
    BY <1>0, <1>3, KindStays
  <2>4. Holding' /\ AcknowledgesActive'
    BY <1>0, <2>1 DEF AcknowledgesActive
  <2> QED BY <1>a, <2>2, <2>3, <2>4 DEF OneTurn
<1> QED BY <1>1, <1>2, <1>3 DEF Next

-----------------------------------------------------------------------------
(* No evidence replaces a bypass, whatever operators do meanwhile.         *)

\* Until the startup pass is done a bypass, also one that the Controls task records
\* while the pass is at a record of that device, is replaced by another bypass or an
\* unbypass only: never by a severity in the snapshot.  Any number of operators may act
\* at any time, and anything may fail.
THEOREM BypassKept == Spec => BypassKeptAtStartup
<1> DEFINE Silent == NoStatusAcknowledges => NothingAcknowledged
<1>1. Init => Silent
  BY DEF Init, ExternalInit, ControlsInit, ControlsAt, MonitorsInit, MonitorAt,
         NothingAcknowledged, StatusesOf, ControlsTaskOf
<1>2. TypeOK /\ Silent /\ [Next]_vars => Silent'
  <2>1. NoStatusAcknowledges' <=> NoStatusAcknowledges
    BY DEF NoStatusAcknowledges
  <2> QED BY <2>1, NothingAcknowledgedInductive
<1>3. TypeOK /\ Silent /\ [Next]_vars =>
          (NoStatusAcknowledges /\ hydration.pc # "done" =>
               \A d \in Device : LeavesBypassExplicitly(d))
  <2> SUFFICES ASSUME TypeOK, NothingAcknowledged, [Next]_vars, hydration.pc # "done",
                      NEW d \in Device, IsBypassed(alarm_states[d])
               PROVE  alarm_states'[d].state \in {"Bypassed", "Unbypassed"}
    BY DEF IsBypassed, LeavesBypassExplicitly
  <2>1. CASE alarm_states'[d] = alarm_states[d]
    BY <2>1 DEF IsBypassed
  <2>2. ASSUME controls_task.pc = "record", controls_task.alarm.device = d,
               controls_task.alarm \in Mirrored,
               alarm_states'[d] = from_status(controls_task.alarm)
        PROVE  alarm_states'[d].state \in {"Bypassed", "Unbypassed"}
    <3>1. controls_task.alarm.state # "Acknowledged"
      BY <2>2 DEF NothingAcknowledged, ControlsTaskOf, StatusKind, Mirrored
    <3> QED BY <2>2, <3>1, NoneAssumption DEF Mirrored, state_to_operation, from_status
  <2>3. \A t \in MonitoredTopics : monitors[t].pc # "record"
    BY DEF NothingAcknowledged
  <2> QED BY <2>1, <2>2, <2>3, Writes DEF IsEnablement
<1> QED BY <1>1, <1>2, <1>3, TypeCorrect, PTL DEF Spec, BypassKeptAtStartup

-----------------------------------------------------------------------------
(* What is kept while a single action races with the pass.                 *)

Raced ==
    NoStatusAcknowledges /\ actions <= 1 /\ faults = 0 =>
        /\ Agrees /\ intent \in [Device -> Observation]
        /\ OneTurn /\ \A d \in Device : HealsFor(d)

LEMMA RaceInductive ==
    ASSUME TypeOK, ScopeInvariant, RoutableInvariant, Raced, [MirroringNext]_mirror_vars
    PROVE  Raced'
<1> SUFFICES ASSUME NoStatusAcknowledges, actions' <= 1, faults' = 0
             PROVE  /\ Agrees' /\ intent' \in [Device -> Observation]
                    /\ OneTurn' /\ \A d \in Device : HealsFor(d)'
  BY DEF Raced
<1>1. [Next]_vars /\ NoFault /\ faults = 0
  BY StepsOfSynchronizer, FaultsCounted
<1>2. actions \in Nat /\ (OperatorAsks => actions' = actions + 1) /\ (~OperatorAsks => UNCHANGED actions)
  <2>1. RunControls => UNCHANGED actions
    BY DEF RunControls, ControlsStep, ControlsSubscribe, ControlsStreamEnds, ControlsReceive,
           ControlsDecide, ControlsPublish, ControlsRecord
  <2>2. RunHydration => UNCHANGED actions
    BY DEF RunHydration, HydrationStep, HydrationSnapshot, HydrationApply, HydrationUpdate,
           HydrationNextTopic, HydrationDone
  <2>3. ASSUME NEW t \in MonitoredTopics, RunMonitor(t) PROVE UNCHANGED actions
    BY <2>3 DEF RunMonitor, MonitorStep, MonitorSubscribe, MonitorStreamEnds, MonitorReceive,
                MonitorDecide, MonitorRpc, MonitorRecord, MonitorUpdate
  <2>4. ClockTicks \/ Await \/ UNCHANGED vars => UNCHANGED actions
    BY DEF ClockTicks, Tick, Await, vars, external
  <2> QED BY <2>1, <2>2, <2>3, <2>4
          DEF OperatorAsks, OperatorTurn, TypeOK, ExternalTypeOK, MirroringNext, ProgramRuns,
              mirror_vars
<1>3. actions <= 1 /\ (OperatorAsks => actions = 0)
  BY <1>2
<1>4. Racing /\ \A d \in Device : HealsFor(d)
  BY <1>1, <1>3 DEF Raced, Racing, Wished
<1>5. OperatorAsks => OthersWait
  BY <1>3, <1>4 DEF Racing, OneTurn
<1>6. Agrees' /\ intent' \in [Device -> Observation]
  BY <1>4, <1>5, AgreesInductive DEF Racing
<1>7. OneTurn'
  BY <1>1, <1>4, OneTurnInductive DEF Racing
<1>8. ASSUME NEW d \in Device PROVE HealsFor(d)'
  <2>1. CASE OperatorAsks
    BY <1>4, <1>5, <2>1, OperatorHeals
  <2>2. CASE RunControls /\ UNCHANGED intent
    BY <1>1, <1>4, <2>2, ControlsHeals
  <2>3. CASE RunHydration /\ UNCHANGED intent
    BY <1>1, <1>4, <2>3, HydrationHeals
  <2>4. ASSUME NEW t \in MonitoredTopics, RunMonitor(t), UNCHANGED intent
        PROVE  HealsFor(d)'
    BY <1>1, <1>4, <2>4, MonitorHeals
  <2>5. CASE ClockTicks /\ UNCHANGED intent
    BY <1>4, <2>5, TickHeals
  <2>6. CASE UNCHANGED <<vars, intent>>
    BY <1>4, <2>6, StutterHeals
  <2>7. CASE Await /\ UNCHANGED intent
    BY <2>6, <2>7 DEF Await
  <2> QED BY <2>1, <2>2, <2>3, <2>4, <2>5, <2>6, <2>7 DEF MirroringNext, ProgramRuns, mirror_vars
<1> QED BY <1>6, <1>7, <1>8

LEMMA AlwaysRaced ==
    ASSUME WellNamedTopics, ConfiguredAlike
    PROVE  MirroringSpec => []Raced
<1>1. MirroringInit => Raced
  BY InitHeals, InitAgrees DEF Raced
<1>2. TypeOK /\ ScopeInvariant /\ RoutableInvariant /\ Raced /\ [MirroringNext]_mirror_vars => Raced'
  BY RaceInductive
<1>3. MirroringSpec => Spec
  <2>1. MirroringInit => Init
    BY DEF MirroringInit
  <2> QED BY <2>1, StepsOfSynchronizer, PTL DEF MirroringSpec, Spec
<1> QED BY <1>1, <1>2, <1>3, TypeCorrect, ScopeKept, RoutableKept, PTL DEF MirroringSpec

\* If operators do not wait for the startup pass and one of them acts once, a device
\* that is remembered otherwise than Phoebus displays it has a config still to be
\* recorded; until something fails.
THEOREM HealingIsUnderway ==
    ASSUME WellNamedTopics, ConfiguredAlike
    PROVE  MirroringSpec => []HealingUnderway
<1>1. Raced => HealingUnderway
  BY DEF Raced, HealingUnderway
<1> QED BY <1>1, AlwaysRaced, PTL

\* So once all has settled, the race with the startup pass has left no trace: what is
\* remembered of every device in scope is what Phoebus was last sent.
THEOREM RaceHeals ==
    ASSUME WellNamedTopics, ConfiguredAlike
    PROVE  MirroringSpec => []StartupRaceHeals
<1>1. Raced => StartupRaceHeals
  <2> SUFFICES ASSUME Quiet, NEW d \in Device, HealsFor(d), metadata_cache[d] # None
               PROVE  Effective(alarm_states[d]) = Effective(phoebus_view[d])
    BY DEF Raced, StartupRaceHeals, CacheCurrent
  <2>1. ~RecordWaits(d) /\ ~MonitorHolds(d, {"policy", "rpc", "record"}) /\ ~Hydrates(d)
    BY ConfigsForDef DEF Quiet, RecordWaits, MonitorHolds, Hydrates, Unapplied
  <2> QED BY <2>1 DEF HealsFor, CacheCorrected, Corrects, EntersScope
<1> QED BY <1>1, AlwaysRaced, PTL

=============================================================================
