--------------------------- MODULE HydrationResult ---------------------------
(***************************************************************************)
(* What the startup pass promises (phoebus/init/mod.rs:33-42 and the       *)
(* README on startup hydration), as a definition over the records the      *)
(* topics held, without going through them one by one.                     *)
(***************************************************************************)
EXTENDS Synchronizer

\* A record is named by its topic's place and its own place in that topic.
Places == UNION {{<<i, j>> : j \in DOMAIN retained[TopicSeq[i]]} : i \in DOMAIN TopicSeq}

RecordAt(p) == retained[TopicSeq[p[1]]][p[2]]

Precedes(p, q) == p[1] < q[1] \/ (p[1] = q[1] /\ p[2] < q[2])

IsLatest(p, places) == p \in places /\ \A q \in places : q = p \/ Precedes(q, p)

Latest(places) == CHOOSE p \in places : IsLatest(p, places)

ConfiguresAt(p, d) ==
    /\ RecordAt(p).op = "Config" /\ RecordAt(p).device = d
    /\ Normalizable(RecordAt(p).enabled)

IsEvidenceAt(p, d) ==
    /\ RecordAt(p).op = "State" /\ RecordAt(p).device = d
    /\ RecordAt(p).severity # "NONE"

ConfiguredAt(p) == as_cached_state(RecordAt(p).enabled, now)

InferredAt(p) == Plain(severity_to_state(RecordAt(p).severity))

ConfigsIn(places, d) == {p \in places : ConfiguresAt(p, d)}

EvidenceIn(places, d) == {p \in places : IsEvidenceAt(p, d)}

\* The last record counts, save that a bypass in the last config outweighs any
\* evidence after it.
StateFrom(places, d) ==
    LET configs == ConfigsIn(places, d)
        evidence == EvidenceIn(places, d)
        configured == ConfiguredAt(Latest(configs))
        inferred == InferredAt(Latest(evidence))
    IN  IF configs = {} /\ evidence = {} THEN None
        ELSE IF configs = {} THEN inferred
        ELSE IF \/ evidence = {}
                \/ configured.state = "Bypassed"
                \/ Precedes(Latest(evidence), Latest(configs))
             THEN configured ELSE inferred

\* A device is in scope when it has a valid config, with the last one's settings.
MetadataAt(p) == [specific |-> RecordAt(p).specific, path |-> RecordAt(p).path,
                  topic |-> TopicSeq[p[1]]]

MetadataFrom(places, d) ==
    LET configs == ConfigsIn(places, d)
    IN  IF configs = {} THEN None ELSE MetadataAt(Latest(configs))

\* Nobody acted, nothing failed, and no snooze has run out since the start.
Undisturbed == actions = 0 /\ faults = 0 /\ now = 0

\* When the startup pass is done and nothing else has happened, both caches hold
\* what is promised: in particular a config's bypass survives any later state
\* record, and a device known from state records only is not in scope.
HydratedAsPromised ==
    hydration.pc = "done" /\ Undisturbed =>
        \A d \in Device : /\ alarm_states[d] = StateFrom(Places, d)
                          /\ metadata_cache[d] = MetadataFrom(Places, d)

-----------------------------------------------------------------------------
(* Why that holds.                                                         *)

\* The place of the record the startup pass is at.
TopicReached == Len(TopicSeq) - Len(hydration.todo) + 1

Reached ==
    <<TopicReached,
      IF hydration.pc \in {"apply", "update"}
      THEN Len(retained[TopicSeq[TopicReached]]) - Len(hydration.messages) + 1
      ELSE 1>>

Scoped == {p \in Places : Precedes(p, Reached)}

\* The state of a config is recorded before it brings its device into scope.
Applied == Scoped \cup (IF hydration.pc = "update" THEN {Reached} ELSE {})

\* What the pass has before it are the rest of the topics, and of the topic it is at.
HasBefore ==
    /\ hydration.pc = "done" => hydration.todo = <<>>
    /\ TopicReached >= 1 /\ hydration.todo = From(TopicSeq, TopicReached)
    /\ hydration.pc \in {"apply", "update"} =>
          /\ Reached[2] >= 1
          /\ hydration.messages = From(retained[TopicSeq[TopicReached]], Reached[2])

\* At each point of the pass the caches hold what is promised for the records that
\* it has been through. The clock stands still: what a snooze counts for depends on
\* when its record is applied.
AppliedAsPromised ==
    Undisturbed =>
        /\ HasBefore
        /\ OthersWait
        /\ \A d \in Device : /\ alarm_states[d] = StateFrom(Applied, d)
                             /\ metadata_cache[d] = MetadataFrom(Scoped, d)

=============================================================================
