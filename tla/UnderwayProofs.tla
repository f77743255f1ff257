--------------------------- MODULE UnderwayProofs ----------------------------
(***************************************************************************)
(* How much is under way, of which kind, and for how long.  Mirroring does *)
(* not multiply updates, with operators on both sides acting at once; and  *)
(* while they act one at a time, no acknowledgement replaces a bypass and  *)
(* mirroring an action comes to an end.  All for every set of devices,     *)
(* topics, logs and records, and whatever fails.                           *)
(***************************************************************************)
EXTENDS Pacing, Reflection, SynchronizerProofs, FiniteSetTheorems

-----------------------------------------------------------------------------
(* Counting: a step leaves the updates as they are, moves one of them on,  *)
(* or adds one.                                                            *)

\* An update that moves on leaves its place and takes another.
LEMMA MovingOn ==
    ASSUME NEW S, IsFiniteSet(S), NEW T, NEW a \in S, NEW b, T \subseteq (S \ {a}) \cup {b}
    PROVE  IsFiniteSet(T) /\ Cardinality(T) <= Cardinality(S)
<1>1. IsFiniteSet(S \ {a}) /\ Cardinality(S \ {a}) = Cardinality(S) - 1
  BY FS_RemoveElement
<1>2. /\ IsFiniteSet((S \ {a}) \cup {b})
      /\ Cardinality((S \ {a}) \cup {b}) \in {Cardinality(S \ {a}), Cardinality(S \ {a}) + 1}
  BY <1>1, FS_AddElement
<1>3. IsFiniteSet(T) /\ Cardinality(T) <= Cardinality((S \ {a}) \cup {b})
  BY <1>2, FS_Subset
<1>4. Cardinality(S) \in Nat /\ Cardinality(T) \in Nat
  BY <1>3, FS_CardinalityType
<1> QED BY <1>1, <1>2, <1>3, <1>4

LEMMA Adding ==
    ASSUME NEW S, IsFiniteSet(S), NEW T, NEW b, T \subseteq S \cup {b}
    PROVE  IsFiniteSet(T) /\ Cardinality(T) <= Cardinality(S) + 1
<1>1. /\ IsFiniteSet(S \cup {b})
      /\ Cardinality(S \cup {b}) \in {Cardinality(S), Cardinality(S) + 1}
  BY FS_AddElement
<1>2. IsFiniteSet(T) /\ Cardinality(T) <= Cardinality(S \cup {b})
  BY <1>1, FS_Subset
<1>3. Cardinality(S) \in Nat /\ Cardinality(T) \in Nat
  BY <1>2, FS_CardinalityType
<1> QED BY <1>1, <1>2, <1>3

LEMMA Losing ==
    ASSUME NEW S, IsFiniteSet(S), NEW T \in SUBSET S
    PROVE  IsFiniteSet(T) /\ Cardinality(T) <= Cardinality(S)
  BY FS_Subset

\* What the three kinds of step do to a count of updates within its bound.
LEMMA Accounting ==
    ASSUME NEW S, IsFiniteSet(S), NEW T, NEW n \in Nat, NEW m, Cardinality(S) <= n,
           \/ T \subseteq S /\ m = n
           \/ T \subseteq S /\ m = n + 1
           \/ (\E a \in S : \E b : T \subseteq (S \ {a}) \cup {b}) /\ m = n
           \/ (\E b : T \subseteq S \cup {b}) /\ m = n + 1
    PROVE  IsFiniteSet(T) /\ Cardinality(T) <= m
<1>1. Cardinality(S) \in Nat /\ (IsFiniteSet(T) => Cardinality(T) \in Nat)
  BY FS_CardinalityType
<1>2. CASE T \subseteq S /\ (m = n \/ m = n + 1)
  <2>1. IsFiniteSet(T) /\ Cardinality(T) <= Cardinality(S)
    BY <1>2, Losing
  <2> QED BY <1>1, <1>2, <2>1
<1>3. CASE (\E a \in S : \E b : T \subseteq (S \ {a}) \cup {b}) /\ m = n
  <2>1. IsFiniteSet(T) /\ Cardinality(T) <= Cardinality(S)
    BY <1>3, MovingOn
  <2> QED BY <1>1, <1>3, <2>1
<1>4. CASE (\E b : T \subseteq S \cup {b}) /\ m = n + 1
  <2>1. IsFiniteSet(T) /\ Cardinality(T) <= Cardinality(S) + 1
    BY <1>4, Adding
  <2> QED BY <1>1, <1>4, <2>1
<1> QED BY <1>2, <1>3, <1>4, Zenon

-----------------------------------------------------------------------------
(* The updates under way, part by part.                                    *)

Unread(queue) == {<<"status", i>> : i \in DOMAIN queue}

BeingMirrored(pc) == {<<"mirroring", s>> : s \in {pc} \cap {"lookup", "publish"}}

UnreadRecords(queues) ==
    UNION {{<<"record", <<t, i>>>> : i \in DOMAIN queues[t]} : t \in MonitoredTopics}

BeingRelayed(running) ==
    {<<"relaying", t>> : t \in {u \in MonitoredTopics : running[u].pc \in {"policy", "rpc"}}}

LEMMA UpdatesParts ==
    /\ Updates = Unread(controls_topic) \cup BeingMirrored(controls_task.pc)
                     \cup UnreadRecords(phoebus_topics) \cup BeingRelayed(monitors)
    /\ Updates' = Unread(controls_topic') \cup BeingMirrored(controls_task'.pc)
                     \cup UnreadRecords(phoebus_topics') \cup BeingRelayed(monitors')
  BY DEF Updates, Unread, BeingMirrored, UnreadRecords, BeingRelayed

\* A queue read from later on has no more places than before; taking a record
\* frees the last place, adding one takes the next.
LEMMA FewerUnread ==
    ASSUME NEW S, NEW queue \in Seq(S), NEW n \in 1 .. Len(queue) + 1
    PROVE  DOMAIN From(queue, n) \subseteq DOMAIN queue
<1>1. DOMAIN From(queue, n) = 1 .. Len(queue) - n + 1
  BY DEF From
<1> QED BY <1>1

LEMMA PlacesOfQueue ==
    ASSUME NEW S, NEW queue \in Seq(S), NEW e \in S
    PROVE  /\ DOMAIN Append(queue, e) = DOMAIN queue \cup {Len(queue) + 1}
           /\ queue # <<>> => /\ Len(queue) \in DOMAIN queue
                              /\ DOMAIN Tail(queue) = DOMAIN queue \ {Len(queue)}
  OBVIOUS

LEMMA StatusTaken ==
    ASSUME NEW queue, NEW queue2, NEW n \in DOMAIN queue, DOMAIN queue2 = DOMAIN queue \ {n}
    PROVE  /\ Unread(queue2) \subseteq Unread(queue) \ {<<"status", n>>}
           /\ <<"status", n>> \in Unread(queue)
  BY DEF Unread

LEMMA StatusAdded ==
    ASSUME NEW S, NEW queue \in Seq(S), NEW e \in S
    PROVE  Unread(Append(queue, e)) \subseteq Unread(queue) \cup {<<"status", Len(queue) + 1>>}
  BY PlacesOfQueue DEF Unread

\* The same for one topic's queue among all.
LEMMA FewerRecords ==
    ASSUME NEW queues, NEW queues2,
           \A t \in MonitoredTopics : DOMAIN queues2[t] \subseteq DOMAIN queues[t]
    PROVE  UnreadRecords(queues2) \subseteq UnreadRecords(queues)
  BY DEF UnreadRecords

LEMMA RecordTaken ==
    ASSUME NEW queues, NEW queues2, NEW t \in MonitoredTopics, NEW n \in DOMAIN queues[t],
           DOMAIN queues2[t] = DOMAIN queues[t] \ {n},
           \A u \in MonitoredTopics \ {t} : queues2[u] = queues[u]
    PROVE  /\ UnreadRecords(queues2) \subseteq UnreadRecords(queues) \ {<<"record", <<t, n>>>>}
           /\ <<"record", <<t, n>>>> \in UnreadRecords(queues)
  BY DEF UnreadRecords

LEMMA RecordAdded ==
    ASSUME NEW queues, NEW queues2, NEW t \in MonitoredTopics, NEW n,
           DOMAIN queues2[t] = DOMAIN queues[t] \cup {n},
           \A u \in MonitoredTopics \ {t} : queues2[u] = queues[u]
    PROVE  UnreadRecords(queues2) \subseteq UnreadRecords(queues) \cup {<<"record", <<t, n>>>>}
  BY DEF UnreadRecords

LEMMA RelayingAfter ==
    ASSUME NEW task, NEW t \in MonitoredTopics, Becomes(t, task),
           monitors \in [MonitoredTopics -> MonitorTask]
    PROVE  /\ BeingRelayed(monitors') \subseteq BeingRelayed(monitors) \cup {<<"relaying", t>>}
           /\ task.pc \notin {"policy", "rpc"} =>
                  BeingRelayed(monitors') \subseteq BeingRelayed(monitors) \ {<<"relaying", t>>}
           /\ monitors[t].pc \in {"policy", "rpc"} => <<"relaying", t>> \in BeingRelayed(monitors)
  BY DEF BeingRelayed, Becomes

-----------------------------------------------------------------------------
(* No step makes two updates of one.                                       *)

\* What a step may do to the updates under way.
Counted ==
    \/ Updates' \subseteq Updates /\ UNCHANGED <<actions, faults>>
    \/ Updates' \subseteq Updates /\ actions' + faults' = actions + faults + 1
    \/ /\ \E a \in Updates : \E b : Updates' \subseteq (Updates \ {a}) \cup {b}
       /\ UNCHANGED <<actions, faults>>
    \/ /\ \E b : Updates' \subseteq Updates \cup {b}
       /\ actions' + faults' = actions + faults + 1

LEMMA FaultCounts ==
    ASSUME TypeOK, UNCHANGED actions
    PROVE  /\ NoFault => UNCHANGED <<actions, faults>>
           /\ Fault => actions' + faults' = actions + faults + 1
  BY DEF TypeOK, ExternalTypeOK, NoFault, Fault

LEMMA ControlsCounted ==
    ASSUME TypeOK, RunControls
    PROVE  Counted
<1> USE DEF TypeOK, ExternalTypeOK
<1>0. UNCHANGED <<monitors, actions>> /\ UNCHANGED BeingRelayed(monitors)
  BY DEF RunControls, ControlsStep, ControlsSubscribe, ControlsStreamEnds, ControlsReceive,
         ControlsDecide, ControlsPublish, ControlsRecord, BeingRelayed
<1>a. NoFault => UNCHANGED <<actions, faults>>
  BY <1>0, FaultCounts
<1>b. Fault => actions' + faults' = actions + faults + 1
  BY <1>0, FaultCounts
<1>c. UNCHANGED phoebus_topics => UNCHANGED UnreadRecords(phoebus_topics)
  BY DEF UnreadRecords
<1>d. UNCHANGED controls_topic => UNCHANGED Unread(controls_topic)
  BY DEF Unread
<1>e. ASSUME controls_task'.pc \notin {"lookup", "publish"}
      PROVE  BeingMirrored(controls_task.pc)' = {}
  BY <1>e DEF BeingMirrored
<1>1. CASE ControlsSubscribe
  <2>1. PICK n \in 1 .. Len(controls_topic) + 1 :
            controls_topic' = From(controls_topic, n) /\ ResumeAt(n)
    BY <1>1 DEF ControlsSubscribe
  <2>2. Unread(controls_topic)' \subseteq Unread(controls_topic)
    BY <2>1, FewerUnread DEF Unread
  <2>3. UNCHANGED phoebus_topics /\ controls_task'.pc = "idle"
    BY <1>1 DEF ControlsSubscribe, ControlsAt
  <2>4. Updates' \subseteq Updates
    BY <1>0, <1>c, <1>e, <2>2, <2>3, UpdatesParts
  <2> QED BY <1>a, <1>b, <2>1, <2>4 DEF ResumeAt, Counted
<1>2. CASE ControlsStreamEnds
  <2>1. UNCHANGED <<controls_topic, phoebus_topics>> /\ controls_task'.pc = "down" /\ Fault
    BY <1>2 DEF ControlsStreamEnds, ControlsAt, topics
  <2>2. Updates' \subseteq Updates
    BY <1>0, <1>c, <1>d, <1>e, <2>1, UpdatesParts
  <2> QED BY <1>b, <2>1, <2>2 DEF Counted
<1>3. CASE ControlsReceive
  <2> DEFINE n == Len(controls_topic)
             b == <<"mirroring", "lookup">>
  <2>1. /\ controls_topic # <<>> /\ UNCHANGED phoebus_topics
        /\ BeingMirrored(controls_task'.pc) \subseteq {b}
    BY <1>3 DEF ControlsReceive, BeingMirrored
  <2>2. UNCHANGED UnreadRecords(phoebus_topics)
    BY <1>c, <2>1
  <2>3. CASE controls_topic' = Tail(controls_topic) /\ NoFault
    <3>1. n \in DOMAIN controls_topic /\ DOMAIN controls_topic' = DOMAIN controls_topic \ {n}
      BY <2>1, <2>3
    <3>2. /\ Unread(controls_topic') \subseteq Unread(controls_topic) \ {<<"status", n>>}
          /\ <<"status", n>> \in Unread(controls_topic)
      BY <3>1, StatusTaken
    <3>3. /\ <<"status", n>> \notin UnreadRecords(phoebus_topics)
          /\ <<"status", n>> \notin BeingRelayed(monitors)
      BY DEF UnreadRecords, BeingRelayed
    <3> HIDE DEF n, b
    <3>4. /\ <<"status", n>> \in Updates
          /\ Updates' \subseteq (Updates \ {<<"status", n>>}) \cup {b}
      BY <1>0, <2>1, <2>2, <3>2, <3>3, UpdatesParts
    <3> QED BY <1>a, <2>3, <3>4 DEF Counted
  <2>4. CASE UNCHANGED controls_topic /\ Fault
    <3> HIDE DEF n, b
    <3>1. Updates' \subseteq Updates \cup {b}
      BY <1>0, <1>d, <2>1, <2>2, <2>4, UpdatesParts
    <3> QED BY <1>b, <2>4, <3>1 DEF Counted
  <2> QED BY <1>3, <2>3, <2>4 DEF ControlsReceive, TakenFrom
<1>4. CASE ControlsDecide
  <2> DEFINE a == <<"mirroring", "lookup">>
             b == <<"mirroring", "publish">>
  <2>1. UNCHANGED <<controls_topic, phoebus_topics>> /\ NoFault
    BY <1>4 DEF ControlsDecide, topics
  <2>2. /\ BeingMirrored(controls_task.pc) = {a}
        /\ BeingMirrored(controls_task'.pc) \subseteq {b}
    BY <1>4 DEF ControlsDecide, ControlsAt, BeingMirrored
  <2>3. /\ a \notin Unread(controls_topic) /\ a \notin UnreadRecords(phoebus_topics)
        /\ a \notin BeingRelayed(monitors)
    BY DEF Unread, UnreadRecords, BeingRelayed
  <2> HIDE DEF a, b
  <2>4. a \in Updates /\ Updates' \subseteq (Updates \ {a}) \cup {b}
    BY <1>0, <1>c, <1>d, <2>1, <2>2, <2>3, UpdatesParts
  <2> QED BY <1>a, <2>1, <2>4 DEF Counted
<1>5. CASE ControlsPublish
  <2> DEFINE a == <<"mirroring", "publish">>
             topic == OutboundTopic
             msg == controls_to_phoebus(controls_task.alarm,
                        state_to_operation(controls_task.alarm.state), controls_task.metadata)
             b == <<"record", <<topic, Len(phoebus_topics[topic]) + 1>>>>
  <2>1. UNCHANGED controls_topic /\ controls_task.pc = "publish" /\ controls_task'.pc = "record"
    BY <1>5 DEF ControlsPublish, ControlsTypeOK, ControlsTask
  <2>2. BeingMirrored(controls_task.pc) = {a} /\ BeingMirrored(controls_task'.pc) = {}
    BY <2>1 DEF BeingMirrored
  <2>3. /\ a \notin Unread(controls_topic) /\ a \notin UnreadRecords(phoebus_topics)
        /\ a \notin BeingRelayed(monitors)
    BY DEF Unread, UnreadRecords, BeingRelayed
  <2>4. \/ /\ topic \in MonitoredTopics /\ NoFault
           /\ phoebus_topics' = [phoebus_topics EXCEPT ![topic] = Append(@, msg)]
        \/ UNCHANGED phoebus_topics /\ (NoFault \/ Fault)
    BY <1>5 DEF ControlsPublish, PublishPhoebus
  <2>5. msg \in PhoebusMsg
    <3>1. controls_task.alarm \in Mirrored /\ controls_task.metadata \in PvMetadata
      BY <2>1 DEF ControlsTypeOK, ControlsTask
    <3> QED BY <3>1, ControlsToPhoebusType DEF Mirrored
  <2> HIDE DEF a, topic, msg
  <2>6. CASE /\ topic \in MonitoredTopics /\ NoFault
             /\ phoebus_topics' = [phoebus_topics EXCEPT ![topic] = Append(@, msg)]
    <3>1. /\ DOMAIN phoebus_topics'[topic]
                 = DOMAIN phoebus_topics[topic] \cup {Len(phoebus_topics[topic]) + 1}
          /\ \A u \in MonitoredTopics \ {topic} : phoebus_topics'[u] = phoebus_topics[u]
      BY <2>5, <2>6, PlacesOfQueue
    <3>2. UnreadRecords(phoebus_topics') \subseteq UnreadRecords(phoebus_topics) \cup {b}
      BY <2>6, <3>1, RecordAdded
    <3> HIDE DEF b
    <3>3. a \in Updates /\ Updates' \subseteq (Updates \ {a}) \cup {b}
      BY <1>0, <1>d, <2>1, <2>2, <2>3, <3>2, UpdatesParts
    <3> QED BY <1>a, <2>6, <3>3 DEF Counted
  <2>7. CASE UNCHANGED phoebus_topics /\ (NoFault \/ Fault)
    <3>1. Updates' \subseteq Updates
      BY <1>0, <1>c, <1>d, <2>1, <2>2, <2>7, UpdatesParts
    <3> QED BY <1>a, <1>b, <2>7, <3>1 DEF Counted
  <2> QED BY <2>4, <2>6, <2>7
<1>6. CASE ControlsRecord
  <2>1. UNCHANGED <<controls_topic, phoebus_topics>> /\ controls_task'.pc = "idle" /\ NoFault
    BY <1>6 DEF ControlsRecord, ControlsAt, topics
  <2>2. Updates' \subseteq Updates
    BY <1>0, <1>c, <1>d, <1>e, <2>1, UpdatesParts
  <2> QED BY <1>a, <2>1, <2>2 DEF Counted
<1> QED BY <1>1, <1>2, <1>3, <1>4, <1>5, <1>6 DEF RunControls, ControlsStep

LEMMA MonitorCounted ==
    ASSUME TypeOK, NEW t \in MonitoredTopics, RunMonitor(t)
    PROVE  Counted
<1> USE DEF TypeOK, ExternalTypeOK
<1> DEFINE task == monitors[t]
           relayed == <<"relaying", t>>
<1>0. UNCHANGED <<controls_task, actions>> /\ UNCHANGED BeingMirrored(controls_task.pc)
  BY DEF RunMonitor, MonitorStep, MonitorSubscribe, MonitorStreamEnds, MonitorReceive,
         MonitorDecide, MonitorRpc, MonitorRecord, MonitorUpdate, BeingMirrored
<1>a. /\ NoFault => UNCHANGED <<actions, faults>>
      /\ Fault => actions' + faults' = actions + faults + 1
  BY <1>0, FaultCounts
<1>b. UNCHANGED phoebus_topics => UNCHANGED UnreadRecords(phoebus_topics)
  BY DEF UnreadRecords
<1>c. UNCHANGED controls_topic => UNCHANGED Unread(controls_topic)
  BY DEF Unread
<1>d. task \in MonitorTask /\ monitors \in [MonitoredTopics -> MonitorTask]
  BY DEF MonitorsTypeOK
<1>e. relayed \notin Unread(controls_topic) /\ relayed \notin UnreadRecords(phoebus_topics)
      /\ relayed \notin BeingMirrored(controls_task.pc)
  BY DEF Unread, UnreadRecords, BeingMirrored
<1>f. ASSUME NEW new, Becomes(t, new), new.pc \notin {"policy", "rpc"}
      PROVE  BeingRelayed(monitors') \subseteq BeingRelayed(monitors)
  BY <1>d, <1>f, RelayingAfter
<1>g. ASSUME NEW new, Becomes(t, new), task.pc \in {"policy", "rpc"}
      PROVE  BeingRelayed(monitors') \subseteq BeingRelayed(monitors)
  BY <1>d, <1>g, RelayingAfter
<1>h. MonitorAt("idle").pc = "idle" /\ MonitorAt("down").pc = "down"
  BY DEF MonitorAt
<1> HIDE DEF relayed
<1>i. ASSUME UNCHANGED <<controls_topic, phoebus_topics>>,
             BeingRelayed(monitors') \subseteq BeingRelayed(monitors)
      PROVE  Updates' \subseteq Updates
  BY <1>0, <1>b, <1>c, <1>i, UpdatesParts
<1>1. CASE MonitorSubscribe(t)
  <2>1. PICK n \in 1 .. Len(phoebus_topics[t]) + 1 :
            /\ phoebus_topics' = [phoebus_topics EXCEPT ![t] = From(@, n)]
            /\ ResumeAt(n)
    BY <1>1 DEF MonitorSubscribe
  <2>2. \A u \in MonitoredTopics : DOMAIN phoebus_topics'[u] \subseteq DOMAIN phoebus_topics[u]
    BY <2>1, FewerUnread
  <2>3. UnreadRecords(phoebus_topics') \subseteq UnreadRecords(phoebus_topics)
    BY <2>2, FewerRecords
  <2>4. UNCHANGED controls_topic /\ BeingRelayed(monitors') \subseteq BeingRelayed(monitors)
    BY <1>1, <1>f, <1>h DEF MonitorSubscribe
  <2>5. Updates' \subseteq Updates
    BY <1>0, <1>c, <2>3, <2>4, UpdatesParts
  <2> QED BY <1>a, <2>1, <2>5 DEF ResumeAt, Counted
<1>2. CASE MonitorStreamEnds(t)
  <2>1. UNCHANGED <<controls_topic, phoebus_topics>> /\ Fault
    BY <1>2 DEF MonitorStreamEnds, topics
  <2>2. Updates' \subseteq Updates
    BY <1>2, <1>f, <1>h, <1>i, <2>1 DEF MonitorStreamEnds
  <2> QED BY <1>a, <2>1, <2>2 DEF Counted
<1>3. CASE MonitorReceive(t)
  <2> DEFINE n == Len(phoebus_topics[t])
             a == <<"record", <<t, n>>>>
  <2>1. phoebus_topics[t] # <<>> /\ UNCHANGED controls_topic
    BY <1>3 DEF MonitorReceive
  <2>2. PICK rest \in {Tail(phoebus_topics[t]), phoebus_topics[t]} :
            /\ TakenFrom(phoebus_topics[t], rest)
            /\ phoebus_topics' = [phoebus_topics EXCEPT ![t] = rest]
    BY <1>3 DEF MonitorReceive
  <2>3. BeingRelayed(monitors') \subseteq BeingRelayed(monitors) \cup {relayed}
    <3>1. UNCHANGED monitors => BeingRelayed(monitors') = BeingRelayed(monitors)
      BY DEF BeingRelayed
    <3>2. UNCHANGED monitors \/ \E new : Becomes(t, new)
      BY <1>3 DEF MonitorReceive, MonitorReceives
    <3> QED BY <1>d, <3>1, <3>2, RelayingAfter DEF relayed
  <2>4. CASE rest = Tail(phoebus_topics[t]) /\ NoFault
    <3>1. /\ n \in DOMAIN phoebus_topics[t]
          /\ DOMAIN phoebus_topics'[t] = DOMAIN phoebus_topics[t] \ {n}
          /\ \A u \in MonitoredTopics \ {t} : phoebus_topics'[u] = phoebus_topics[u]
      BY <2>1, <2>2, <2>4
    <3>2. /\ UnreadRecords(phoebus_topics') \subseteq UnreadRecords(phoebus_topics) \ {a}
          /\ a \in UnreadRecords(phoebus_topics)
      BY <3>1, RecordTaken
    <3>3. a \notin Unread(controls_topic) /\ a \notin BeingRelayed(monitors)
          /\ a \notin BeingMirrored(controls_task.pc)
      BY DEF Unread, BeingRelayed, BeingMirrored
    <3> HIDE DEF a
    <3>4. a \in Updates /\ Updates' \subseteq (Updates \ {a}) \cup {relayed}
      BY <1>0, <1>c, <2>1, <2>3, <3>2, <3>3, UpdatesParts
    <3> QED BY <1>a, <2>4, <3>4 DEF Counted
  <2>5. CASE rest = phoebus_topics[t] /\ Fault
    <3>1. UNCHANGED phoebus_topics
      BY <2>2, <2>5
    <3>2. Updates' \subseteq Updates \cup {relayed}
      BY <1>0, <1>b, <1>c, <2>1, <2>3, <3>1, UpdatesParts
    <3> QED BY <1>a, <2>5, <3>2 DEF Counted
  <2> QED BY <2>2, <2>4, <2>5 DEF TakenFrom
<1>4. CASE MonitorDecide(t)
  <2>1. UNCHANGED <<controls_topic, phoebus_topics>> /\ NoFault /\ task.pc = "policy"
    BY <1>4 DEF MonitorDecide, topics
  <2>2. \E new : Becomes(t, new)
    BY <1>4 DEF MonitorDecide
  <2>3. Updates' \subseteq Updates
    BY <1>g, <1>i, <2>1, <2>2
  <2> QED BY <1>a, <2>1, <2>3 DEF Counted
<1>5. CASE MonitorRpc(t)
  <2> DEFINE status == [parses |-> TRUE, source |-> "Epics", device |-> task.msg.device,
                        state |-> task.updated.state, wake |-> task.updated.wake,
                        hops |-> NextHop(task.msg.hops)]
             b == <<"status", Len(controls_topic) + 1>>
  <2>1. task.pc = "rpc" /\ UNCHANGED phoebus_topics /\ relayed \in BeingRelayed(monitors)
    BY <1>5, <1>d, RelayingAfter DEF MonitorRpc, relayed, BeingRelayed
  <2>2. /\ task.msg \in CommandMsg \cup ConfigMsg /\ task.updated \in CachedState
        /\ [task EXCEPT !.pc = "record"].pc = "record"
    BY <1>d, <2>1 DEF MonitorTask
  <2>3. status \in Status
    BY <2>2, NextHopType DEF Status, CachedState, CommandMsg, ConfigMsg
  <2>4. \/ /\ controls_topic' = Append(controls_topic, status) /\ NoFault
           /\ Becomes(t, [task EXCEPT !.pc = "record"])
        \/ /\ controls_topic' = Append(controls_topic, status) /\ Fault
           /\ \E new : Becomes(t, new)
        \/ UNCHANGED controls_topic /\ Fault /\ \E new : Becomes(t, new)
    BY <1>5 DEF MonitorRpc, ServeCommand, PublishStatus
  <2> HIDE DEF status
  <2>5. Unread(Append(controls_topic, status)) \subseteq Unread(controls_topic) \cup {b}
    BY <2>3, StatusAdded
  <2> HIDE DEF b
  <2>6. CASE /\ controls_topic' = Append(controls_topic, status) /\ NoFault
             /\ Becomes(t, [task EXCEPT !.pc = "record"])
    <3>1. BeingRelayed(monitors') \subseteq BeingRelayed(monitors) \ {relayed}
      BY <1>d, <2>2, <2>6, RelayingAfter DEF relayed
    <3>2. relayed \in Updates /\ Updates' \subseteq (Updates \ {relayed}) \cup {b}
      BY <1>0, <1>b, <1>e, <2>1, <2>5, <2>6, <3>1, UpdatesParts
    <3> QED BY <1>a, <2>6, <3>2 DEF Counted
  <2>7. CASE /\ controls_topic' = Append(controls_topic, status) /\ Fault
             /\ \E new : Becomes(t, new)
    <3>1. BeingRelayed(monitors') \subseteq BeingRelayed(monitors)
      BY <1>g, <2>1, <2>7
    <3>2. Updates' \subseteq Updates \cup {b}
      BY <1>0, <1>b, <2>1, <2>5, <2>7, <3>1, UpdatesParts
    <3> QED BY <1>a, <2>7, <3>2 DEF Counted
  <2>8. CASE UNCHANGED controls_topic /\ Fault /\ \E new : Becomes(t, new)
    <3>1. Updates' \subseteq Updates
      BY <1>g, <1>i, <2>1, <2>8
    <3> QED BY <1>a, <2>8, <3>1 DEF Counted
  <2> QED BY <2>4, <2>6, <2>7, <2>8
<1>6. CASE MonitorRecord(t)
  <2>1. UNCHANGED <<controls_topic, phoebus_topics>> /\ NoFault /\ task.pc = "record"
    BY <1>6 DEF MonitorRecord, topics
  <2>2. [task EXCEPT !.pc = "update", !.updated = None, !.attempt = 1].pc = "update"
    BY <1>d, <2>1 DEF MonitorTask
  <2>3. Updates' \subseteq Updates
    BY <1>6, <1>f, <1>h, <1>i, <2>1, <2>2 DEF MonitorRecord
  <2> QED BY <1>a, <2>1, <2>3 DEF Counted
<1>7. CASE MonitorUpdate(t)
  <2>1. UNCHANGED <<controls_topic, phoebus_topics>> /\ NoFault
    BY <1>7 DEF MonitorUpdate, topics
  <2>2. Updates' \subseteq Updates
    BY <1>7, <1>f, <1>h, <1>i, <2>1 DEF MonitorUpdate
  <2> QED BY <1>a, <2>1, <2>2 DEF Counted
<1> QED BY <1>1, <1>2, <1>3, <1>4, <1>5, <1>6, <1>7 DEF RunMonitor, MonitorStep

\* The startup pass and the clock leave the updates under way alone.
LEMMA OthersCounted ==
    ASSUME TypeOK, RunHydration \/ ClockTicks \/ UNCHANGED vars
    PROVE  Counted
<1>1. UNCHANGED <<controls_topic, phoebus_topics, controls_task, monitors, actions>>
  BY DEF RunHydration, HydrationStep, HydrationSnapshot, HydrationApply, HydrationUpdate,
         HydrationNextTopic, HydrationDone, ClockTicks, Tick, topics, tasks, vars, external
<1>2. UNCHANGED Updates
  BY <1>1 DEF Updates
<1>3. NoFault \/ Fault
  BY DEF RunHydration, HydrationStep, HydrationSnapshot, HydrationApply, HydrationUpdate,
         HydrationNextTopic, HydrationDone, ClockTicks, Tick, vars, external, NoFault
<1> QED BY <1>1, <1>2, <1>3, FaultCounts DEF Counted

LEMMA OperatorCounted ==
    ASSUME TypeOK, OperatorActs
    PROVE  Counted
<1> USE DEF TypeOK, ExternalTypeOK
<1>0. /\ UNCHANGED <<controls_task, monitors>> /\ actions' + faults' = actions + faults + 1
      /\ UNCHANGED BeingMirrored(controls_task.pc) /\ UNCHANGED BeingRelayed(monitors)
  BY DEF OperatorActs, OperatorTurn, tasks, BeingMirrored, BeingRelayed
<1>1. ASSUME NEW status \in ControlsInputs, ControlsActs(status)
      PROVE  \E b : Updates' \subseteq Updates \cup {b}
  <2> DEFINE b == <<"status", Len(controls_topic) + 1>>
  <2>1. controls_topic' = Append(controls_topic, status) /\ UNCHANGED phoebus_topics
    BY <1>1 DEF ControlsActs, PublishStatus
  <2>2. Unread(controls_topic') \subseteq Unread(controls_topic) \cup {b}
    BY <2>1, StatusAdded, EnvironmentAssumption
  <2>3. UNCHANGED UnreadRecords(phoebus_topics)
    BY <2>1 DEF UnreadRecords
  <2> HIDE DEF b
  <2>4. Updates' \subseteq Updates \cup {b}
    BY <1>0, <2>2, <2>3, UpdatesParts
  <2> QED BY <2>4, Zenon
<1>2. ASSUME NEW input \in PhoebusInputs, PhoebusActs(input)
      PROVE  \E b : Updates' \subseteq Updates \cup {b}
  <2> DEFINE t == input[1]
             b == <<"record", <<t, Len(phoebus_topics[t]) + 1>>>>
  <2>1. t \in MonitoredTopics /\ input[2] \in PhoebusMsg
    BY EnvironmentAssumption
  <2>2. /\ UNCHANGED controls_topic
        /\ phoebus_topics' = [phoebus_topics EXCEPT ![t] = Append(@, input[2])]
    BY <1>2 DEF PhoebusActs, PublishPhoebus
  <2> HIDE DEF t
  <2>3. /\ DOMAIN phoebus_topics'[t] = DOMAIN phoebus_topics[t] \cup {Len(phoebus_topics[t]) + 1}
        /\ \A u \in MonitoredTopics \ {t} : phoebus_topics'[u] = phoebus_topics[u]
    BY <2>1, <2>2, PlacesOfQueue
  <2>4. UnreadRecords(phoebus_topics') \subseteq UnreadRecords(phoebus_topics) \cup {b}
    BY <2>1, <2>3, RecordAdded
  <2>5. UNCHANGED Unread(controls_topic)
    BY <2>2 DEF Unread
  <2> HIDE DEF b
  <2>6. Updates' \subseteq Updates \cup {b}
    BY <1>0, <2>4, <2>5, UpdatesParts
  <2> QED BY <2>6, Zenon
<1> QED BY <1>0, <1>1, <1>2 DEF OperatorActs, Counted

Total == actions + faults

\* The inductive invariant: no more updates than actions and failures, counted.
Bounded == IsFiniteSet(Updates) /\ NoAmplification

LEMMA BoundedInductive ==
    /\ Init => Bounded
    /\ TypeOK /\ Bounded /\ [Next]_vars => Bounded'
<1>1. ASSUME Init PROVE Bounded
  <2>1. Updates = {}
    BY <1>1 DEF Init, ExternalInit, ControlsInit, ControlsAt, MonitorsInit, MonitorAt, Updates
  <2> QED BY <1>1, <2>1, FS_EmptySet DEF Bounded, NoAmplification, Init, ExternalInit
<1>2. ASSUME TypeOK, Bounded, [Next]_vars PROVE Bounded'
  <2>1. Counted
    BY <1>2, ControlsCounted, MonitorCounted, OthersCounted, OperatorCounted DEF Next, Await
  <2>2. Total \in Nat /\ IsFiniteSet(Updates) /\ Cardinality(Updates) <= Total
    BY <1>2 DEF Bounded, NoAmplification, TypeOK, ExternalTypeOK, Total
  <2>3. \/ Updates' \subseteq Updates /\ Total' = Total
        \/ Updates' \subseteq Updates /\ Total' = Total + 1
        \/ /\ \E a \in Updates : \E b : Updates' \subseteq (Updates \ {a}) \cup {b}
           /\ Total' = Total
        \/ (\E b : Updates' \subseteq Updates \cup {b}) /\ Total' = Total + 1
    <3>1. UNCHANGED <<actions, faults>> => Total' = Total
      BY DEF Total
    <3>2. actions' + faults' = actions + faults + 1 => Total' = Total + 1
      BY DEF Total
    <3> QED BY <2>1, <3>1, <3>2, Zenon DEF Counted
  <2> HIDE DEF Counted
  <2>4. IsFiniteSet(Updates') /\ Cardinality(Updates') <= Total'
    BY <2>2, <2>3, Accounting
  <2> QED BY <2>4 DEF Bounded, NoAmplification, Total
<1> QED BY <1>1, <1>2

\* Even with operators on both sides acting at once, and whatever fails, there is
\* never more than one update under way for each action and each failure.
THEOREM UpdatesBounded == Spec => []NoAmplification
<1>1. Bounded => NoAmplification
  BY DEF Bounded
<1> QED BY <1>1, BoundedInductive, TypeCorrect, PTL DEF Spec

\* An operator who waits finds nothing under way.
LEMMA QuietIsEmpty ==
    ASSUME Quiet
    PROVE  Updates = {}
  BY DEF Quiet, Updates

\* The same count while operators wait.
BoundedByFaults == IsFiniteSet(Updates) /\ Cardinality(Updates) <= 1 + faults

LEMMA SingleInductive ==
    /\ Init => BoundedByFaults
    /\ Paced /\ TypeOK /\ BoundedByFaults /\ [Next]_vars => BoundedByFaults'
<1>1. ASSUME Init PROVE BoundedByFaults
  <2>1. Updates = {}
    BY <1>1 DEF Init, ExternalInit, ControlsInit, ControlsAt, MonitorsInit, MonitorAt, Updates
  <2> QED BY <1>1, <2>1, FS_EmptySet DEF BoundedByFaults, Init, ExternalInit
<1>2. ASSUME Paced, TypeOK, BoundedByFaults, [Next]_vars PROVE BoundedByFaults'
  <2> DEFINE n == 1 + faults
  <2>1. /\ IsFiniteSet(Updates) /\ Cardinality(Updates) <= n /\ n \in Nat
        /\ faults \in Nat /\ actions \in Nat
    BY <1>2 DEF BoundedByFaults, TypeOK, ExternalTypeOK
  <2>2. CASE OperatorActs
    <3>1. Updates = {} /\ actions' = actions + 1
      BY <1>2, <2>2, QuietIsEmpty DEF OperatorActs, OperatorTurn
    <3>2. Counted /\ UNCHANGED faults
      BY <1>2, <2>2, OperatorCounted DEF OperatorActs, OperatorTurn
    <3>3. \E b : Updates' \subseteq {b}
      BY <2>1, <3>1, <3>2 DEF Counted
    <3>4. PICK b : Updates' \subseteq {b}
      BY <3>3, Zenon
    <3>5. IsFiniteSet({b}) /\ Cardinality({b}) = 1
      BY FS_Singleton
    <3>6. IsFiniteSet(Updates') /\ Cardinality(Updates') <= 1
      BY <3>4, <3>5, FS_Subset
    <3>7. Cardinality(Updates') \in Nat
      BY <3>6, FS_CardinalityType
    <3> QED BY <2>1, <3>2, <3>6, <3>7 DEF BoundedByFaults
  <2>3. CASE ~OperatorActs
    <3>1. Counted /\ UNCHANGED actions
      <4>1. Counted
        BY <1>2, <2>3, ControlsCounted, MonitorCounted, OthersCounted DEF Next, Await
      <4>2. RunControls \/ RunHydration => UNCHANGED actions
        BY DEF RunControls, ControlsStep, ControlsSubscribe, ControlsStreamEnds, ControlsReceive,
               ControlsDecide, ControlsPublish, ControlsRecord, RunHydration, HydrationStep,
               HydrationSnapshot, HydrationApply, HydrationUpdate, HydrationNextTopic,
               HydrationDone, external
      <4>3. (\E t \in MonitoredTopics : RunMonitor(t)) => UNCHANGED actions
        BY DEF RunMonitor, MonitorStep, MonitorSubscribe, MonitorStreamEnds, MonitorReceive,
               MonitorDecide, MonitorRpc, MonitorRecord, MonitorUpdate
      <4>4. ClockTicks \/ Await \/ UNCHANGED vars => UNCHANGED actions
        BY DEF ClockTicks, Tick, Await, vars, external
      <4> QED BY <1>2, <2>3, <4>1, <4>2, <4>3, <4>4 DEF Next
    <3>2. \/ Updates' \subseteq Updates /\ n' = n
          \/ Updates' \subseteq Updates /\ n' = n + 1
          \/ /\ \E a \in Updates : \E b : Updates' \subseteq (Updates \ {a}) \cup {b}
             /\ n' = n
          \/ (\E b : Updates' \subseteq Updates \cup {b}) /\ n' = n + 1
      <4>1. UNCHANGED <<actions, faults>> => n' = n
        OBVIOUS
      <4>2. faults' \in Nat
        BY <1>2, TypesKept DEF TypeOK, ExternalTypeOK
      <4>3. actions' + faults' = actions + faults + 1 => n' = n + 1
        <5>1. actions' = actions
          BY <3>1
        <5>2. \A a, f, g \in Nat : a + g = a + f + 1 => g = f + 1
          OBVIOUS
        <5>3. actions' + faults' = actions + faults + 1 => faults' = faults + 1
          BY <2>1, <4>2, <5>1, <5>2, Zenon
        <5> QED BY <2>1, <5>3
      <4> HIDE DEF n
      <4> QED BY <3>1, <4>1, <4>3, Zenon DEF Counted
    <3> HIDE DEF n
    <3>3. IsFiniteSet(Updates') /\ Cardinality(Updates') <= n'
      BY <2>1, <3>2, Accounting
    <3> QED BY <3>3 DEF n, BoundedByFaults
  <2> QED BY <2>2, <2>3
<1> QED BY <1>1, <1>2

\* While operators act one at a time, their action is a single update however often
\* it is mirrored; only a failed call or a repeated record adds one to it.
THEOREM UpdatesSingle == Spec => []SingleUpdate
<1>1. CASE Paced
  <2>1. BoundedByFaults => SingleUpdate
    BY DEF BoundedByFaults, SingleUpdate
  <2> QED BY <1>1, <2>1, SingleInductive, TypeCorrect, PTL DEF Spec
<1>2. CASE ~Paced
  <2>1. SingleUpdate
    BY <1>2 DEF SingleUpdate
  <2> QED BY <2>1, PTL
<1> QED BY <1>1, <1>2

-----------------------------------------------------------------------------
(* What the longer actions do, in terms of what the tasks hold.            *)

\* The record that ControlsPublish sends.
MirroredRecord ==
    controls_to_phoebus(controls_task.alarm, state_to_operation(controls_task.alarm.state),
                        controls_task.metadata)

LEMMA PublishEffect ==
    ASSUME TypeOK, ControlsPublish
    PROVE  /\ controls_task.alarm \in Mirrored /\ controls_task.metadata \in PvMetadata
           /\ MirroredRecord \in PhoebusMsg
           /\ controls_task'.pc = "record" /\ controls_task'.alarm = controls_task.alarm
           /\ controls_task'.metadata = controls_task.metadata
           /\ \/ /\ OutboundTopic \in MonitoredTopics
                 /\ phoebus_topics' = [phoebus_topics EXCEPT ![OutboundTopic]
                                           = Append(@, MirroredRecord)]
              \/ UNCHANGED phoebus_topics
           /\ UNCHANGED <<caches, controls_topic, controls_view, now>>
<1>1. /\ controls_task.alarm \in Mirrored /\ controls_task.metadata \in PvMetadata
      /\ controls_task'.pc = "record" /\ controls_task'.alarm = controls_task.alarm
      /\ controls_task'.metadata = controls_task.metadata
  BY DEF ControlsPublish, TypeOK, ControlsTypeOK, ControlsTask
<1>2. MirroredRecord \in PhoebusMsg
  BY <1>1, ControlsToPhoebusType DEF Mirrored, MirroredRecord
<1> QED BY <1>1, <1>2 DEF ControlsPublish, PublishPhoebus, MirroredRecord

\* The status by which the Controls service reports what a monitor told it.
ServedStatus(task) ==
    [parses |-> TRUE, source |-> "Epics", device |-> task.msg.device,
     state |-> task.updated.state, wake |-> task.updated.wake, hops |-> NextHop(task.msg.hops)]

\* What a monitor holds while it calls and until it has recorded.
InHand(task) ==
    /\ task.msg \in CommandMsg \cup ConfigMsg /\ task.msg.device \in Device
    /\ task.updated \in CachedState

LEMMA InHandType ==
    ASSUME NEW task \in MonitorTask, task.pc \in {"rpc", "record"}
    PROVE  InHand(task)
  BY DEF InHand, MonitorTask, CommandMsg, ConfigMsg

LEMMA RpcEffect ==
    ASSUME TypeOK, NEW t \in MonitoredTopics, MonitorRpc(t)
    PROVE  /\ monitors[t].pc = "rpc" /\ InHand(monitors[t])
           /\ ServedStatus(monitors[t]) \in Status
           /\ from_status(ServedStatus(monitors[t])) = monitors[t].updated
           /\ \/ UNCHANGED <<controls_topic, controls_view>> /\ Fault
              \/ /\ controls_topic' = Append(controls_topic, ServedStatus(monitors[t]))
                 /\ PublishStatus(ServedStatus(monitors[t]))
           /\ \E new : /\ Becomes(t, new)
                       /\ new.pc \in {"rpc", "record"} /\ (NoFault => new.pc = "record")
                       /\ new.msg = monitors[t].msg /\ new.updated = monitors[t].updated
           /\ UNCHANGED <<caches, phoebus_topics, phoebus_side, now>>
<1> DEFINE task == monitors[t]
<1>1. task.pc = "rpc" /\ task \in MonitorTask
  BY DEF MonitorRpc, TypeOK, MonitorsTypeOK
<1>2. InHand(task)
  BY <1>1, InHandType
<1>3. ServedStatus(task) \in Status /\ from_status(ServedStatus(task)) = task.updated
  BY <1>2, NextHopType
     DEF InHand, ServedStatus, Status, from_status, CachedState, CommandMsg, ConfigMsg
<1>4. \/ UNCHANGED <<controls_topic, controls_view>> /\ Fault
      \/ PublishStatus(ServedStatus(task))
  BY DEF MonitorRpc, ServeCommand, ServedStatus
<1>5. /\ [task EXCEPT !.pc = "record"].pc = "record"
      /\ [task EXCEPT !.pc = "record"].msg = task.msg
      /\ [task EXCEPT !.pc = "record"].updated = task.updated
      /\ [task EXCEPT !.attempt = 2].pc = "rpc"
      /\ [task EXCEPT !.attempt = 2].msg = task.msg
      /\ [task EXCEPT !.attempt = 2].updated = task.updated
  BY <1>1 DEF MonitorTask
<1>6. \/ Becomes(t, [task EXCEPT !.pc = "record"])
      \/ Becomes(t, [task EXCEPT !.attempt = 2]) /\ Fault
  BY DEF MonitorRpc
<1>7. NoFault => ~Fault
  BY DEF TypeOK, ExternalTypeOK, NoFault, Fault
<1>8. UNCHANGED <<caches, phoebus_topics, phoebus_side, now>>
  BY DEF MonitorRpc
<1>9. \E new : /\ Becomes(t, new)
               /\ new.pc \in {"rpc", "record"} /\ (NoFault => new.pc = "record")
               /\ new.msg = task.msg /\ new.updated = task.updated
  BY <1>5, <1>6, <1>7
<1> QED BY <1>1, <1>2, <1>3, <1>4, <1>8, <1>9 DEF PublishStatus

\* What a monitor holds after it has received a record.
LEMMA ReceiveEffect ==
    ASSUME TypeOK, NEW t \in MonitoredTopics, MonitorReceive(t)
    PROVE  LET msg == Head(phoebus_topics[t]) IN
           /\ phoebus_topics[t] # <<>> /\ msg \in PhoebusMsg /\ monitors[t].pc = "idle"
           /\ \E rest \in {Tail(phoebus_topics[t]), phoebus_topics[t]} :
                 phoebus_topics' = [phoebus_topics EXCEPT ![t] = rest]
           /\ \/ UNCHANGED monitors /\ (msg.op = "Config" => msg.enabled.kind = "NotJson")
              \/ \E new : /\ Becomes(t, new) /\ new.msg = msg
                          /\ \/ /\ msg.op = "Command" /\ Acknowledges(msg)
                                /\ new.pc = "rpc" /\ new.updated = Plain("Acknowledged")
                             \/ /\ msg.op = "Config" /\ new.pc = "policy"
                                /\ new.metadata = get_pv_metadata(msg, t)
           /\ UNCHANGED <<caches, controls_topic, views, now>>
<1> DEFINE msg == Head(phoebus_topics[t])
<1>1. phoebus_topics[t] # <<>> /\ msg \in PhoebusMsg /\ monitors[t].pc = "idle"
  BY DEF MonitorReceive, TypeOK, ExternalTypeOK
<1>2. /\ \E rest \in {Tail(phoebus_topics[t]), phoebus_topics[t]} :
             phoebus_topics' = [phoebus_topics EXCEPT ![t] = rest]
      /\ UNCHANGED <<caches, controls_topic, views, now>>
      /\ MonitorReceives(t, msg)
  BY DEF MonitorReceive
<1> HIDE DEF msg
<1>3. \/ UNCHANGED monitors /\ (msg.op = "Config" => msg.enabled.kind = "NotJson")
      \/ \E new : /\ Becomes(t, new) /\ new.msg = msg
                  /\ \/ /\ msg.op = "Command" /\ Acknowledges(msg)
                        /\ new.pc = "rpc" /\ new.updated = Plain("Acknowledged")
                     \/ /\ msg.op = "Config" /\ new.pc = "policy"
                        /\ new.metadata = get_pv_metadata(msg, t)
  <2> DEFINE forCommand == [pc |-> "rpc", msg |-> msg, metadata |-> None,
                            updated |-> Plain("Acknowledged"), attempt |-> 1]
             forConfig == [pc |-> "policy", msg |-> msg, metadata |-> get_pv_metadata(msg, t),
                           updated |-> None, attempt |-> 1]
  <2>1. CASE msg.op = "Command" /\ Acknowledges(msg)
    <3>1. Becomes(t, forCommand)
      BY <1>2, <2>1 DEF MonitorReceives
    <3>2. forCommand.msg = msg /\ forCommand.pc = "rpc" /\ forCommand.updated = Plain("Acknowledged")
      OBVIOUS
    <3> HIDE DEF forCommand
    <3> QED BY <2>1, <3>1, <3>2
  <2>2. CASE msg.op = "Config" /\ msg.enabled.kind # "NotJson"
    <3>1. Becomes(t, forConfig)
      BY <1>2, <2>2 DEF MonitorReceives
    <3>2. forConfig.msg = msg /\ forConfig.pc = "policy" /\ forConfig.metadata = get_pv_metadata(msg, t)
      OBVIOUS
    <3> HIDE DEF forConfig
    <3> QED BY <2>2, <3>1, <3>2
  <2> QED BY <1>2, <2>1, <2>2 DEF MonitorReceives
<1> QED BY <1>1, <1>2, <1>3 DEF msg

-----------------------------------------------------------------------------
(* What is under way stays of one kind.                                    *)

\* What the Controls task publishes is of the kind of what it was told, and what
\* a monitor tells Controls is of the kind of what it has read.
LEMMA MirroredKind ==
    ASSUME NEW status \in Mirrored, NEW metadata
    PROVE  RecordKind(controls_to_phoebus(status, state_to_operation(status.state), metadata))
               = StatusKind(status)
<1>1. state_to_operation(status.state) \in {"Command", "Config"}
  BY DEF Mirrored
<1>2. CASE status.state = "Acknowledged"
  BY <1>2 DEF state_to_operation, controls_to_phoebus, RecordKind, StatusKind
<1>3. CASE status.state \in {"Bypassed", "Unbypassed"}
  BY <1>3 DEF state_to_operation, controls_to_phoebus, RecordKind, StatusKind, IsEnablement
<1>4. status.state \in {"Acknowledged", "Bypassed", "Unbypassed"}
  BY <1>1, NoneAssumption DEF state_to_operation
<1> QED BY <1>2, <1>3, <1>4

LEMMA ServedKind ==
    ASSUME NEW task \in MonitorTask, task.pc \in {"rpc", "record"}, HoldsItsKind(task)
    PROVE  /\ StatusKind(ServedStatus(task)) = RecordKind(task.msg)
           /\ RecordKind(task.msg) \in {"acknowledgement", "enablement"}
           /\ task.updated.state = "Bypassed" => RecordKind(task.msg) = "enablement"
<1>1. task.msg.op \in {"Command", "Config"}
  BY DEF MonitorTask, CommandMsg, ConfigMsg
<1>2. CASE task.msg.op = "Command"
  BY <1>2 DEF HoldsItsKind, ServedStatus, StatusKind, RecordKind, Plain
<1>3. CASE task.msg.op = "Config"
  BY <1>3 DEF HoldsItsKind, ServedStatus, StatusKind, RecordKind, IsEnablement
<1> QED BY <1>1, <1>2, <1>3

LEMMA ControlsKeepsKind ==
    ASSUME TypeOK, NEW kind, OnlyKind(kind), RunControls
    PROVE  OnlyKind(kind)'
<1> USE DEF TypeOK, ExternalTypeOK
<1>0. UNCHANGED monitors
  BY DEF RunControls
<1>a. \A t \in MonitoredTopics : MonitorOf(monitors[t], kind)'
  BY <1>0 DEF OnlyKind
<1>b. ASSUME UNCHANGED phoebus_topics
      PROVE  \A t \in MonitoredTopics : RecordsOf(phoebus_topics[t], kind)'
  BY <1>b DEF OnlyKind
<1>c. ASSUME UNCHANGED controls_topic PROVE StatusesOf(controls_topic, kind)'
  BY <1>c DEF OnlyKind
<1>d. ASSUME controls_task'.pc \notin {"lookup", "publish", "record"}
      PROVE  ControlsTaskOf(controls_task, kind)'
  BY <1>d DEF ControlsTaskOf
<1>1. CASE ControlsSubscribe
  <2>1. StatusesOf(controls_topic, kind)'
    BY <1>1, FromHeld DEF ControlsSubscribe, StatusesOf, OnlyKind
  <2>2. UNCHANGED phoebus_topics /\ controls_task'.pc = "idle"
    BY <1>1 DEF ControlsSubscribe, ControlsAt
  <2> QED BY <1>a, <1>b, <1>d, <2>1, <2>2 DEF OnlyKind
<1>2. CASE ControlsStreamEnds
  <2>1. UNCHANGED <<controls_topic, phoebus_topics>> /\ controls_task'.pc = "down"
    BY <1>2 DEF ControlsStreamEnds, ControlsAt, topics
  <2> QED BY <1>a, <1>b, <1>c, <1>d, <2>1 DEF OnlyKind
<1>3. CASE ControlsReceive
  <2>1. StatusKind(Head(controls_topic)) \in {kind, "other"}
    BY <1>3, TailHeld DEF ControlsReceive, StatusesOf, OnlyKind
  <2>2. StatusesOf(Tail(controls_topic), kind)
    BY <1>3, TailHeld DEF ControlsReceive, StatusesOf, OnlyKind
  <2>3. StatusesOf(controls_topic, kind)'
    BY <1>3, <1>c, <2>2 DEF ControlsReceive
  <2>4. ControlsTaskOf(controls_task, kind)'
    BY <1>3, <2>1 DEF ControlsReceive, ControlsTaskOf, OnlyKind
  <2>5. UNCHANGED phoebus_topics
    BY <1>3 DEF ControlsReceive
  <2> QED BY <1>a, <1>b, <2>3, <2>4, <2>5 DEF OnlyKind
<1>4. CASE ControlsDecide
  <2>1. UNCHANGED <<controls_topic, phoebus_topics>>
    BY <1>4 DEF ControlsDecide, topics
  <2>2. ControlsTaskOf(controls_task, kind)'
    BY <1>4 DEF ControlsDecide, ControlsAt, ControlsTaskOf, OnlyKind
  <2> QED BY <1>a, <1>b, <1>c, <2>1, <2>2 DEF OnlyKind
<1>5. CASE ControlsPublish
  <2>1. /\ controls_task'.pc = "record" /\ controls_task'.alarm = controls_task.alarm
        /\ MirroredRecord \in PhoebusMsg /\ controls_task.alarm \in Mirrored
        /\ UNCHANGED controls_topic
    BY <1>5, PublishEffect
  <2>2. StatusKind(controls_task.alarm) \in {kind, "other"}
    BY <1>5 DEF ControlsPublish, ControlsTaskOf, OnlyKind
  <2>3. RecordKind(MirroredRecord) \in {kind, "other"}
    BY <2>1, <2>2, MirroredKind DEF MirroredRecord
  <2>4. ControlsTaskOf(controls_task, kind)'
    BY <2>1, <2>2 DEF ControlsTaskOf
  <2>5. ASSUME NEW t \in MonitoredTopics
        PROVE  RecordsOf(Append(phoebus_topics[t], MirroredRecord), kind)
    BY <2>1, <2>3, AppendHeld DEF RecordsOf, OnlyKind
  <2>6. \A t \in MonitoredTopics : phoebus_topics'[t] \in
             {phoebus_topics[t], Append(phoebus_topics[t], MirroredRecord)}
    BY <1>5, PublishEffect
  <2>7. \A t \in MonitoredTopics : RecordsOf(phoebus_topics[t], kind)'
    BY <2>5, <2>6 DEF OnlyKind
  <2> QED BY <1>a, <1>c, <2>1, <2>4, <2>7 DEF OnlyKind
<1>6. CASE ControlsRecord
  <2>1. UNCHANGED <<controls_topic, phoebus_topics>> /\ controls_task'.pc = "idle"
    BY <1>6 DEF ControlsRecord, ControlsAt, topics
  <2> QED BY <1>a, <1>b, <1>c, <1>d, <2>1 DEF OnlyKind
<1> QED BY <1>1, <1>2, <1>3, <1>4, <1>5, <1>6 DEF RunControls, ControlsStep

LEMMA MonitorKeepsKind ==
    ASSUME TypeOK, NEW kind, OnlyKind(kind), NEW t \in MonitoredTopics,
           HoldsItsKind(monitors[t]), RunMonitor(t)
    PROVE  OnlyKind(kind)'
<1> USE DEF TypeOK, ExternalTypeOK
<1> DEFINE task == monitors[t]
<1>0. UNCHANGED controls_task
  BY DEF RunMonitor
<1>a. ControlsTaskOf(controls_task, kind)'
  BY <1>0 DEF OnlyKind
<1>b. ASSUME UNCHANGED phoebus_topics
      PROVE  \A u \in MonitoredTopics : RecordsOf(phoebus_topics[u], kind)'
  BY <1>b DEF OnlyKind
<1>c. ASSUME UNCHANGED controls_topic PROVE StatusesOf(controls_topic, kind)'
  BY <1>c DEF OnlyKind
<1>d. ASSUME NEW new, Becomes(t, new), MonitorOf(new, kind)
      PROVE  \A u \in MonitoredTopics : MonitorOf(monitors[u], kind)'
  BY <1>d DEF Becomes, MonitorsTypeOK, OnlyKind
<1>e. MonitorOf(MonitorAt("idle"), kind) /\ MonitorOf(MonitorAt("down"), kind)
  BY DEF MonitorOf, MonitorAt
<1>f. task \in MonitorTask /\ MonitorOf(task, kind)
  BY DEF MonitorsTypeOK, OnlyKind
<1>g. ASSUME NEW queue, phoebus_topics' = [phoebus_topics EXCEPT ![t] = queue],
             RecordsOf(queue, kind)
      PROVE  \A u \in MonitoredTopics : RecordsOf(phoebus_topics[u], kind)'
  BY <1>g DEF OnlyKind
<1>h. RecordsOf(phoebus_topics[t], kind) /\ phoebus_topics[t] \in Seq(PhoebusMsg)
  BY DEF OnlyKind
<1>1. CASE MonitorSubscribe(t)
  <2>1. PICK n \in 1 .. Len(phoebus_topics[t]) + 1 :
          phoebus_topics' = [phoebus_topics EXCEPT ![t] = From(@, n)]
    BY <1>1 DEF MonitorSubscribe
  <2>a. \A i \in DOMAIN From(phoebus_topics[t], n) : \E j \in DOMAIN phoebus_topics[t] :
            From(phoebus_topics[t], n)[i] = phoebus_topics[t][j]
    BY <1>h, FromHeld
  <2>2. RecordsOf(From(phoebus_topics[t], n), kind)
    BY <1>h, <2>a DEF RecordsOf
  <2>3. UNCHANGED controls_topic /\ Becomes(t, MonitorAt("idle"))
    BY <1>1 DEF MonitorSubscribe
  <2>4. \A u \in MonitoredTopics : RecordsOf(phoebus_topics[u], kind)'
    BY <1>g, <2>1, <2>2
  <2> QED BY <1>a, <1>c, <1>d, <1>e, <2>3, <2>4 DEF OnlyKind
<1>2. CASE MonitorStreamEnds(t)
  <2>1. UNCHANGED <<controls_topic, phoebus_topics>> /\ Becomes(t, MonitorAt("down"))
    BY <1>2 DEF MonitorStreamEnds, topics
  <2> QED BY <1>a, <1>b, <1>c, <1>d, <1>e, <2>1 DEF OnlyKind
<1>3. CASE MonitorReceive(t)
  <2> DEFINE msg == Head(phoebus_topics[t])
  <2>1. /\ phoebus_topics[t] # <<>> /\ UNCHANGED controls_topic
        /\ \E rest \in {Tail(phoebus_topics[t]), phoebus_topics[t]} :
              phoebus_topics' = [phoebus_topics EXCEPT ![t] = rest]
        /\ UNCHANGED monitors \/ \E new : Becomes(t, new) /\ new.msg = msg
    BY <1>3, ReceiveEffect
  <2>2. RecordsOf(Tail(phoebus_topics[t]), kind) /\ RecordKind(msg) \in {kind, "other"}
    BY <1>h, <2>1, TailHeld DEF RecordsOf
  <2>3. \A u \in MonitoredTopics : RecordsOf(phoebus_topics[u], kind)'
    BY <1>g, <1>h, <2>1, <2>2
  <2> HIDE DEF msg
  <2>4. \A u \in MonitoredTopics : MonitorOf(monitors[u], kind)'
    <3>1. CASE UNCHANGED monitors
      BY <3>1 DEF OnlyKind
    <3>2. ASSUME NEW new, Becomes(t, new), new.msg = msg
          PROVE  \A u \in MonitoredTopics : MonitorOf(monitors[u], kind)'
      <4>1. MonitorOf(new, kind)
        BY <2>2, <3>2 DEF MonitorOf
      <4> QED BY <1>d, <3>2, <4>1
    <3> QED BY <2>1, <3>1, <3>2
  <2> QED BY <1>a, <1>c, <2>1, <2>3, <2>4 DEF OnlyKind
<1>4. CASE MonitorDecide(t)
  <2> DEFINE updated == as_cached_state(task.msg.enabled, now)
  <2>1. /\ task.pc = "policy"
        /\ task \in [pc : {"policy", "update"}, msg : ConfigMsg, metadata : PvMetadata,
                     updated : {None}, attempt : {1}]
    BY <1>4, <1>f DEF MonitorDecide, MonitorTask
  <2>2. RecordKind(task.msg) \in {kind, "other"}
    BY <1>f, <2>1 DEF MonitorOf
  <2>3. /\ [task EXCEPT !.pc = "update"].pc = "update"
        /\ [task EXCEPT !.pc = "rpc", !.updated = updated].msg = task.msg
    BY <2>1
  <2>4. /\ MonitorOf([task EXCEPT !.pc = "update"], kind)
        /\ MonitorOf([task EXCEPT !.pc = "rpc", !.updated = updated], kind)
    BY <2>2, <2>3 DEF MonitorOf
  <2>5. \A u \in MonitoredTopics : MonitorOf(monitors[u], kind)'
    BY <1>4, <1>d, <1>e, <2>4 DEF MonitorDecide
  <2>6. UNCHANGED <<controls_topic, phoebus_topics>>
    BY <1>4 DEF MonitorDecide, topics
  <2> QED BY <1>a, <1>b, <1>c, <2>5, <2>6 DEF OnlyKind
<1>5. CASE MonitorRpc(t)
  <2>1. /\ task.pc = "rpc" /\ ServedStatus(task) \in Status
        /\ UNCHANGED controls_topic \/ controls_topic' = Append(controls_topic, ServedStatus(task))
        /\ UNCHANGED phoebus_topics
        /\ \E new : Becomes(t, new) /\ new.msg = task.msg
    BY <1>5, RpcEffect
  <2>2. RecordKind(task.msg) \in {kind, "other"}
    BY <1>f, <2>1 DEF MonitorOf
  <2>3. StatusKind(ServedStatus(task)) \in {kind, "other"}
    BY <1>f, <2>1, <2>2, ServedKind
  <2>4. StatusesOf(Append(controls_topic, ServedStatus(task)), kind)
    BY <2>1, <2>3, AppendHeld DEF StatusesOf, OnlyKind
  <2>5. StatusesOf(controls_topic, kind)'
    BY <1>c, <2>1, <2>4
  <2>6. \A u \in MonitoredTopics : MonitorOf(monitors[u], kind)'
    <3>1. PICK new : Becomes(t, new) /\ new.msg = task.msg
      BY <2>1
    <3>2. MonitorOf(new, kind)
      BY <2>2, <3>1 DEF MonitorOf
    <3> QED BY <1>d, <3>1, <3>2
  <2> QED BY <1>a, <1>b, <2>1, <2>5, <2>6 DEF OnlyKind
<1>6. CASE MonitorRecord(t)
  <2>1. \E msgs, metas : task \in [pc : {"rpc", "record"}, msg : msgs, metadata : metas,
                                   updated : CachedState, attempt : {1, 2}]
    BY <1>6, <1>f DEF MonitorRecord, MonitorTask
  <2>2. [task EXCEPT !.pc = "update", !.updated = None, !.attempt = 1].pc = "update"
    BY <2>1
  <2>3. MonitorOf([task EXCEPT !.pc = "update", !.updated = None, !.attempt = 1], kind)
    BY <2>2 DEF MonitorOf
  <2>4. \A u \in MonitoredTopics : MonitorOf(monitors[u], kind)'
    BY <1>6, <1>d, <1>e, <2>3 DEF MonitorRecord
  <2>5. UNCHANGED <<controls_topic, phoebus_topics>>
    BY <1>6 DEF MonitorRecord, topics
  <2> QED BY <1>a, <1>b, <1>c, <2>4, <2>5 DEF OnlyKind
<1>7. CASE MonitorUpdate(t)
  <2>1. \A u \in MonitoredTopics : MonitorOf(monitors[u], kind)'
    BY <1>7, <1>d, <1>e DEF MonitorUpdate
  <2>2. UNCHANGED <<controls_topic, phoebus_topics>>
    BY <1>7 DEF MonitorUpdate, topics
  <2> QED BY <1>a, <1>b, <1>c, <2>1, <2>2 DEF OnlyKind
<1> QED BY <1>1, <1>2, <1>3, <1>4, <1>5, <1>6, <1>7 DEF RunMonitor, MonitorStep

-----------------------------------------------------------------------------
(* The other parts of TurnsAreTaken.                                       *)

\* Only an operator changes OneKind; it acts when nothing is under way, so that
\* its action alone says of what kind the next updates are.
LEMMA KindStays ==
    ASSUME TypeOK, OneKind, \A t \in MonitoredTopics : HoldsItsKind(monitors[t]),
           RunControls \/ RunHydration \/ (\E t \in MonitoredTopics : RunMonitor(t))
               \/ ClockTicks \/ Await \/ UNCHANGED vars
    PROVE  OneKind'
<1>1. PICK kind \in {"acknowledgement", "enablement"} : OnlyKind(kind)
  BY DEF OneKind
<1>2. ASSUME UNCHANGED <<topics, controls_task, monitors>> PROVE OnlyKind(kind)'
  BY <1>1, <1>2 DEF OnlyKind, topics
<1>3. ASSUME RunHydration \/ ClockTicks \/ Await \/ UNCHANGED vars
      PROVE  UNCHANGED <<topics, controls_task, monitors>>
  <2>1. CASE RunHydration
    BY <2>1 DEF RunHydration, HydrationStep, HydrationSnapshot, HydrationApply, HydrationUpdate,
                HydrationNextTopic, HydrationDone
  <2>2. CASE ClockTicks \/ Await \/ UNCHANGED vars
    BY <2>2 DEF ClockTicks, Tick, Await, vars, external, tasks
  <2> QED BY <1>3, <2>1, <2>2
<1>4. OnlyKind(kind)'
  <2>1. CASE RunControls
    BY <1>1, <2>1, ControlsKeepsKind
  <2>2. CASE \E t \in MonitoredTopics : RunMonitor(t)
    BY <1>1, <2>2, MonitorKeepsKind
  <2> QED BY <1>2, <1>3, <2>1, <2>2
<1> QED BY <1>4 DEF OneKind

LEMMA OperatorBegins ==
    ASSUME OthersWait, TypeOK, OperatorActs
    PROVE  /\ OneKind' /\ AcknowledgesActive'
           /\ \A t \in MonitoredTopics : HoldsItsKind(monitors[t])'
<1> USE DEF TypeOK, ExternalTypeOK
<1>0. UNCHANGED <<controls_task, monitors, hydration>>
  BY DEF OperatorActs, OperatorTurn, tasks
<1>1. /\ AcknowledgesActive'
      /\ \A t \in MonitoredTopics : HoldsItsKind(monitors[t])'
  BY <1>0 DEF OthersWait, AcknowledgesActive, Acknowledging, Relaying, HoldsItsKind
<1>2. ASSUME NEW kind
      PROVE  /\ ControlsTaskOf(controls_task, kind)'
             /\ \A t \in MonitoredTopics : MonitorOf(monitors[t], kind)'
  BY <1>0 DEF OthersWait, ControlsTaskOf, MonitorOf
<1>3. ASSUME NEW kind, NEW status \in ControlsInputs, ControlsActs(status),
             StatusKind(status) \in {kind, "other"}
      PROVE  OnlyKind(kind)'
  <2>1. controls_topic' = <<status>> /\ UNCHANGED phoebus_topics
    BY <1>0, <1>3, EnvironmentAssumption DEF OthersWait, ControlsActs, PublishStatus
  <2>2. StatusesOf(controls_topic, kind)'
    BY <1>3, <2>1 DEF StatusesOf
  <2>3. \A t \in MonitoredTopics : RecordsOf(phoebus_topics[t], kind)'
    BY <1>0, <2>1 DEF OthersWait, RecordsOf
  <2> QED BY <1>2, <2>2, <2>3 DEF OnlyKind
<1>4. ASSUME NEW kind, NEW input \in PhoebusInputs, PhoebusActs(input),
             RecordKind(input[2]) \in {kind, "other"}
      PROVE  OnlyKind(kind)'
  <2>1. input[1] \in MonitoredTopics /\ input[2] \in PhoebusMsg
    BY EnvironmentAssumption
  <2>2. /\ phoebus_topics' = [phoebus_topics EXCEPT ![input[1]] = Append(@, input[2])]
        /\ UNCHANGED controls_topic
    BY <1>4 DEF PhoebusActs, PublishPhoebus
  <2>3. \A t \in MonitoredTopics :
            phoebus_topics'[t] = IF t = input[1] THEN Append(<<>>, input[2]) ELSE <<>>
    BY <1>0, <2>1, <2>2 DEF OthersWait
  <2>4. <<>> \in Seq(PhoebusMsg) /\ DOMAIN <<>> = {}
    OBVIOUS
  <2>5. \A i \in DOMAIN Append(<<>>, input[2]) : Append(<<>>, input[2])[i] = input[2]
    BY <2>1, <2>4, AppendHeld
  <2>6. \A t \in MonitoredTopics : RecordsOf(phoebus_topics[t], kind)'
    BY <1>4, <2>3, <2>4, <2>5 DEF RecordsOf
  <2>7. StatusesOf(controls_topic, kind)'
    BY <1>0, <2>2 DEF OthersWait, StatusesOf
  <2> QED BY <1>2, <2>6, <2>7 DEF OnlyKind
<1>5. OneKind'
  <2>1. CASE \E status \in ControlsInputs : ControlsActs(status)
    <3>1. PICK status \in ControlsInputs : ControlsActs(status)
      BY <2>1
    <3>2. StatusKind(status) \in {"acknowledgement", "enablement", "other"}
      BY DEF StatusKind
    <3>3. PICK kind \in {"acknowledgement", "enablement"} : StatusKind(status) \in {kind, "other"}
      BY <3>2
    <3> QED BY <1>3, <3>1, <3>3 DEF OneKind
  <2>2. CASE \E input \in PhoebusInputs : PhoebusActs(input)
    <3>1. PICK input \in PhoebusInputs : PhoebusActs(input)
      BY <2>2
    <3>2. RecordKind(input[2]) \in {"acknowledgement", "enablement", "other"}
      BY DEF RecordKind
    <3>3. PICK kind \in {"acknowledgement", "enablement"} : RecordKind(input[2]) \in {kind, "other"}
      BY <3>2
    <3> QED BY <1>4, <3>1, <3>3 DEF OneKind
  <2> QED BY <2>1, <2>2 DEF OperatorActs
<1> QED BY <1>1, <1>5

\* What a monitor holds is decided when it receives a record and when it consults
\* the policy.
LEMMA HoldingStays ==
    ASSUME TypeOK, NEW t \in MonitoredTopics, HoldsItsKind(monitors[t]), RunMonitor(t)
    PROVE  HoldsItsKind(monitors'[t])
<1> USE DEF TypeOK, ExternalTypeOK
<1> DEFINE task == monitors[t]
<1>a. ASSUME NEW new, Becomes(t, new) PROVE monitors'[t] = new
  BY <1>a DEF Becomes, MonitorsTypeOK
<1>b. HoldsItsKind(MonitorAt("idle")) /\ HoldsItsKind(MonitorAt("down"))
  BY DEF HoldsItsKind, MonitorAt
<1>c. task \in MonitorTask
  BY DEF MonitorsTypeOK
<1>1. CASE MonitorSubscribe(t) \/ MonitorStreamEnds(t) \/ MonitorUpdate(t)
  <2>1. Becomes(t, MonitorAt("idle")) \/ Becomes(t, MonitorAt("down"))
    BY <1>1 DEF MonitorSubscribe, MonitorStreamEnds, MonitorUpdate
  <2> QED BY <1>a, <1>b, <2>1
<1>2. CASE MonitorReceive(t)
  <2> DEFINE Taken(new) ==
                 \/ /\ new.msg.op = "Command" /\ new.msg.command = "acknowledge"
                    /\ new.pc = "rpc" /\ new.updated = Plain("Acknowledged")
                 \/ new.msg.op = "Config" /\ new.pc = "policy"
  <2>1. UNCHANGED monitors \/ \E new : Becomes(t, new) /\ Taken(new)
    BY <1>2, ReceiveEffect DEF Acknowledges
  <2>2. ASSUME NEW new, Taken(new) PROVE HoldsItsKind(new)
    BY <2>2 DEF HoldsItsKind
  <2> HIDE DEF Taken
  <2> QED BY <1>a, <2>1, <2>2
<1>3. CASE MonitorDecide(t)
  <2> DEFINE updated == as_cached_state(task.msg.enabled, now)
             after == [task EXCEPT !.pc = "rpc", !.updated = updated]
             refreshed == [task EXCEPT !.pc = "update"]
  <2>1. /\ task \in [pc : {"policy", "update"}, msg : ConfigMsg, metadata : PvMetadata,
                     updated : {None}, attempt : {1}]
    BY <1>3, <1>c DEF MonitorDecide, MonitorTask
  <2>2. IsEnablement(updated.state) /\ task.msg.op = "Config"
    BY <2>1 DEF as_cached_state, Plain, IsEnablement, ConfigMsg
  <2>3. monitors'[t] \in {MonitorAt("idle"), refreshed, after}
        /\ (monitors'[t] # MonitorAt("idle") => Normalizable(task.msg.enabled))
    BY <1>3, <1>a DEF MonitorDecide
  <2>4. refreshed.pc = "update" /\ refreshed.msg = task.msg
    BY <2>1
  <2> HIDE DEF updated
  <2>5. after.pc = "rpc" /\ after.msg = task.msg /\ after.updated = updated
    BY <2>1
  <2> HIDE DEF after, refreshed
  <2> QED BY <1>b, <2>2, <2>3, <2>4, <2>5 DEF HoldsItsKind
<1>4. CASE MonitorRpc(t)
  <2>1. PICK new : /\ Becomes(t, new) /\ new.pc \in {"rpc", "record"}
                   /\ new.msg = task.msg /\ new.updated = task.updated
    BY <1>4, RpcEffect
  <2> QED BY <1>4, <1>a, <2>1 DEF MonitorRpc, HoldsItsKind
<1>5. CASE MonitorRecord(t)
  <2> DEFINE after == [task EXCEPT !.pc = "update", !.updated = None, !.attempt = 1]
  <2>1. \E msgs, metas : task \in [pc : {"rpc", "record"}, msg : msgs, metadata : metas,
                                   updated : CachedState, attempt : {1, 2}]
    BY <1>5, <1>c DEF MonitorRecord, MonitorTask
  <2>2. after.pc = "update" /\ after.msg = task.msg
    BY <2>1
  <2>3. monitors'[t] = IF task.msg.op = "Config" THEN after ELSE MonitorAt("idle")
    BY <1>5, <1>a DEF MonitorRecord
  <2> HIDE DEF after
  <2> QED BY <1>5, <1>b, <2>2, <2>3 DEF HoldsItsKind, MonitorRecord
<1> QED BY <1>1, <1>2, <1>3, <1>4, <1>5 DEF RunMonitor, MonitorStep

\* The startup pass is over before anything is mirrored.
LEMMA StillStays ==
    ASSUME TypeOK, StillAtStartup,
           RunControls \/ RunHydration \/ (\E t \in MonitoredTopics : RunMonitor(t))
    PROVE  StillAtStartup'
<1> USE DEF TypeOK, ExternalTypeOK
<1>1. CASE hydration.pc = "done"
  <2>1. ~RunHydration
    BY <1>1 DEF RunHydration, HydrationStep, HydrationSnapshot, HydrationApply, HydrationUpdate,
                HydrationNextTopic, HydrationDone
  <2>2. UNCHANGED hydration
    BY <2>1 DEF RunControls, RunMonitor
  <2> QED BY <1>1, <2>2 DEF StillAtStartup
<1>2. CASE hydration.pc # "done" /\ RunHydration
  <2>1. UNCHANGED <<controls_topic, phoebus_topics, controls_task, monitors>>
    BY <1>2 DEF RunHydration, HydrationStep, HydrationSnapshot, HydrationApply, HydrationUpdate,
                HydrationNextTopic, HydrationDone, topics
  <2> QED BY <1>2, <2>1 DEF StillAtStartup
<1>3. CASE hydration.pc # "done" /\ RunControls
  <2>1. controls_topic = <<>> /\ controls_task.pc \in {"down", "idle"}
    BY <1>3 DEF StillAtStartup
  <2>2. ControlsSubscribe \/ ControlsStreamEnds
    BY <1>3, <2>1 DEF RunControls, ControlsStep, ControlsReceive, ControlsDecide,
                      ControlsPublish, ControlsRecord
  <2>3. UNCHANGED phoebus_topics /\ controls_task'.pc \in {"down", "idle"}
    BY <2>2 DEF ControlsSubscribe, ControlsStreamEnds, ControlsAt, topics
  <2>4. controls_topic' = <<>>
    <3>1. CASE ControlsStreamEnds
      BY <2>1, <3>1 DEF ControlsStreamEnds, topics
    <3>2. CASE ControlsSubscribe
      <4>1. PICK n \in 1 .. Len(controls_topic) + 1 : controls_topic' = From(controls_topic, n)
        BY <3>2 DEF ControlsSubscribe
      <4>2. n = 1
        BY <2>1
      <4> QED BY <2>1, <4>1, <4>2 DEF From
    <3> QED BY <2>2, <3>1, <3>2
  <2> QED BY <1>3, <2>3, <2>4 DEF StillAtStartup, RunControls
<1> QED BY <1>1, <1>2, <1>3 DEF RunMonitor

LEMMA ActiveStays ==
    ASSUME TypeOK, OneKind, \A t \in MonitoredTopics : HoldsItsKind(monitors[t]),
           AcknowledgesActive,
           hydration.pc # "done" =>
               ~Acknowledging(controls_task) /\ \A t \in MonitoredTopics : ~Relaying(monitors[t]),
           RunControls \/ RunHydration \/ (\E t \in MonitoredTopics : RunMonitor(t))
    PROVE  AcknowledgesActive'
<1> USE DEF TypeOK, CachesTypeOK, ExternalTypeOK
<1>0. PICK kind \in {"acknowledgement", "enablement"} : OnlyKind(kind)
  BY DEF OneKind
<1>a. ASSUME NEW t \in MonitoredTopics, Relaying(monitors[t]) PROVE kind = "acknowledgement"
  BY <1>0, <1>a DEF Relaying, HoldsItsKind, OnlyKind, MonitorOf, RecordKind
<1>b. ASSUME Acknowledging(controls_task) PROVE kind = "acknowledgement"
  BY <1>0, <1>b DEF Acknowledging, OnlyKind, ControlsTaskOf, StatusKind
<1>1. CASE RunHydration
  <2>1. hydration.pc # "done" /\ UNCHANGED <<controls_task, monitors>>
    BY <1>1 DEF RunHydration, HydrationStep, HydrationSnapshot, HydrationApply, HydrationUpdate,
                HydrationNextTopic, HydrationDone
  <2> QED BY <2>1 DEF AcknowledgesActive
<1>2. CASE RunControls /\ controls_task.pc = "record"
  <2> DEFINE alarm == controls_task.alarm
  <2>1. /\ alarm_states' = [alarm_states EXCEPT ![alarm.device] = from_status(alarm)]
        /\ controls_task'.pc = "idle" /\ UNCHANGED monitors
    BY <1>2 DEF RunControls, ControlsStep, ControlsSubscribe, ControlsStreamEnds,
                ControlsReceive, ControlsDecide, ControlsPublish, ControlsRecord,
                record_alarm_state, ControlsAt
  <2>2. alarm \in Mirrored /\ alarm.device \in Device
    BY <1>2 DEF ControlsTypeOK, ControlsTask, Mirrored, Status
  <2>3. ASSUME NEW t \in MonitoredTopics, Relaying(monitors[t])
        PROVE  from_status(alarm).state # "Bypassed"
    <3>1. StatusKind(alarm) \in {"acknowledgement", "other"}
      BY <1>0, <1>2, <1>a, <2>3 DEF OnlyKind, ControlsTaskOf
    <3> QED BY <3>1 DEF StatusKind, IsEnablement, from_status
  <2>4. ASSUME NEW t \in MonitoredTopics, Relaying(monitors[t])
        PROVE  ~IsBypassed(alarm_states'[monitors[t].msg.device])
    <3>1. ~IsBypassed(alarm_states[monitors[t].msg.device])
      BY <2>4 DEF AcknowledgesActive
    <3>2. monitors[t].msg.device \in Device
      BY <2>4 DEF Relaying, MonitorsTypeOK, MonitorTask, CommandMsg, ConfigMsg
    <3>3. ~IsBypassed(from_status(alarm))
      BY <2>3, <2>4 DEF IsBypassed
    <3> QED BY <2>1, <2>2, <3>1, <3>2, <3>3
  <2> QED BY <2>1, <2>4 DEF AcknowledgesActive, Acknowledging
<1>3. CASE RunControls /\ controls_task.pc # "record"
  <2>1. UNCHANGED <<alarm_states, monitors>>
    BY <1>3 DEF RunControls, ControlsStep, ControlsSubscribe, ControlsStreamEnds,
                ControlsReceive, ControlsDecide, ControlsPublish, ControlsRecord, caches
  <2>2. ASSUME Acknowledging(controls_task')
        PROVE  ~IsBypassed(alarm_states[controls_task'.alarm.device])
    <3>1. CASE ControlsReceive
      BY <2>2, <3>1 DEF ControlsReceive, Acknowledging
    <3>2. CASE ControlsDecide
      <4>1. /\ controls_task'.alarm = controls_task.alarm
            /\ controls_task.alarm.state = "Acknowledged"
            /\ ~suppresses_incoming(controls_task.observed, from_status(controls_task.alarm))
        BY <2>2, <3>2 DEF ControlsDecide, Acknowledging, ControlsAt, SyncsToPhoebus
      <4>2. ~IsBypassed(controls_task.observed)
        BY <4>1 DEF suppresses_incoming, is_transition_forbidden, IsBypassed, from_status
      <4> QED BY <3>2, <4>1, <4>2 DEF AcknowledgesActive, Acknowledging, ControlsDecide
    <3>3. CASE ControlsPublish
      <4>1. controls_task'.alarm = controls_task.alarm /\ controls_task.pc = "publish"
        BY <3>3, PublishEffect DEF ControlsPublish
      <4> QED BY <2>2, <4>1 DEF AcknowledgesActive, Acknowledging
    <3>4. CASE ControlsSubscribe \/ ControlsStreamEnds
      BY <2>2, <3>4 DEF ControlsSubscribe, ControlsStreamEnds, ControlsAt, Acknowledging
    <3> QED BY <1>3, <3>1, <3>2, <3>3, <3>4 DEF RunControls, ControlsStep, ControlsRecord
  <2> QED BY <2>1, <2>2 DEF AcknowledgesActive
<1>4. ASSUME NEW t \in MonitoredTopics, RunMonitor(t), monitors[t].pc = "record"
      PROVE  AcknowledgesActive'
  <2> DEFINE task == monitors[t]
  <2>1. /\ alarm_states' = [alarm_states EXCEPT ![task.msg.device] = task.updated]
        /\ \E new : Becomes(t, new) /\ new.pc \in {"update", "idle"}
        /\ UNCHANGED controls_task
    <3>1. MonitorRecord(t) /\ UNCHANGED controls_task
      BY <1>4 DEF RunMonitor, MonitorStep, MonitorSubscribe, MonitorStreamEnds,
                  MonitorReceive, MonitorDecide, MonitorRpc, MonitorUpdate
    <3>2. \E msgs, metas : task \in [pc : {"rpc", "record"}, msg : msgs, metadata : metas,
                                     updated : CachedState, attempt : {1, 2}]
      BY <1>4 DEF MonitorsTypeOK, MonitorTask
    <3>3. [task EXCEPT !.pc = "update", !.updated = None, !.attempt = 1].pc = "update"
      BY <3>2
    <3> DEFINE after == [task EXCEPT !.pc = "update", !.updated = None, !.attempt = 1]
    <3>4. /\ alarm_states' = [alarm_states EXCEPT ![task.msg.device] = task.updated]
          /\ Becomes(t, after) \/ Becomes(t, MonitorAt("idle"))
      BY <3>1 DEF MonitorRecord, record_alarm_state
    <3>5. MonitorAt("idle").pc = "idle"
      BY DEF MonitorAt
    <3> HIDE DEF after
    <3> QED BY <3>1, <3>3, <3>4, <3>5 DEF after
  <2>2. task \in MonitorTask /\ task.msg.device \in Device
    BY <1>4 DEF MonitorsTypeOK, MonitorTask, CommandMsg, ConfigMsg
  <2>3. ASSUME task.updated.state = "Bypassed"
        PROVE  kind = "enablement"
    <3>1. RecordKind(task.msg) = "enablement"
      BY <1>4, <2>2, <2>3, ServedKind
    <3> QED BY <1>0, <1>4, <3>1 DEF OnlyKind, MonitorOf
  <2>4. ASSUME NEW d \in Device, kind = "acknowledgement", ~IsBypassed(alarm_states[d])
        PROVE  ~IsBypassed(alarm_states'[d])
    BY <2>1, <2>2, <2>3, <2>4 DEF IsBypassed
  <2>5. ASSUME Acknowledging(controls_task)
        PROVE  ~IsBypassed(alarm_states'[controls_task.alarm.device])
    <3>1. controls_task.alarm.device \in Device
      BY <2>5 DEF Acknowledging, ControlsTypeOK, ControlsTask, Mirrored, Status
    <3> QED BY <1>b, <2>4, <2>5, <3>1 DEF AcknowledgesActive
  <2>6. ASSUME NEW u \in MonitoredTopics, Relaying(monitors[u])
        PROVE  ~IsBypassed(alarm_states'[monitors[u].msg.device])
    <3>1. monitors[u].msg.device \in Device
      BY <2>6 DEF Relaying, MonitorsTypeOK, MonitorTask, CommandMsg, ConfigMsg
    <3> QED BY <1>a, <2>4, <2>6, <3>1 DEF AcknowledgesActive
  <2>7. ASSUME NEW u \in MonitoredTopics, Relaying(monitors'[u])
        PROVE  monitors'[u] = monitors[u]
    BY <2>1, <2>7 DEF Becomes, MonitorsTypeOK, Relaying
  <2> QED BY <2>1, <2>5, <2>6, <2>7 DEF AcknowledgesActive
<1>5. ASSUME NEW t \in MonitoredTopics, RunMonitor(t), monitors[t].pc # "record"
      PROVE  AcknowledgesActive'
  <2> DEFINE task == monitors[t]
             Harmless(new) == Relaying(new) => ~IsBypassed(alarm_states[new.msg.device])
  <2>1. UNCHANGED <<alarm_states, controls_task>>
    BY <1>5 DEF RunMonitor, MonitorStep, MonitorSubscribe, MonitorStreamEnds, MonitorReceive,
                MonitorDecide, MonitorRpc, MonitorRecord, MonitorUpdate, caches
  <2>2. Harmless(task) /\ task \in MonitorTask
    BY DEF AcknowledgesActive, MonitorsTypeOK
  <2>3. ASSUME NEW new, Becomes(t, new), Harmless(new) PROVE AcknowledgesActive'
    BY <2>1, <2>3 DEF Becomes, MonitorsTypeOK, AcknowledgesActive
  <2>4. ASSUME NEW new, new.pc \notin {"rpc", "record"} PROVE Harmless(new)
    BY <2>4 DEF Relaying
  <2>5. CASE MonitorSubscribe(t) \/ MonitorStreamEnds(t) \/ MonitorUpdate(t)
    <3>1. Becomes(t, MonitorAt("idle")) \/ Becomes(t, MonitorAt("down"))
      BY <2>5 DEF MonitorSubscribe, MonitorStreamEnds, MonitorUpdate
    <3>2. MonitorAt("idle").pc = "idle" /\ MonitorAt("down").pc = "down"
      BY DEF MonitorAt
    <3> QED BY <2>3, <2>4, <3>1, <3>2
  <2>6. CASE MonitorReceive(t)
    <3>1. CASE UNCHANGED monitors
      BY <2>1, <3>1 DEF AcknowledgesActive
    <3>2. ASSUME NEW new, Becomes(t, new), Acknowledges(new.msg) \/ new.pc = "policy"
          PROVE  AcknowledgesActive'
      <4>1. Acknowledges(new.msg) => ~IsBypassed(alarm_states[new.msg.device])
        BY DEF Acknowledges, suppresses_incoming, is_transition_forbidden, IsBypassed, Plain
      <4>2. Harmless(new)
        BY <3>2, <4>1 DEF Relaying
      <4> QED BY <2>3, <3>2, <4>2
    <3> DEFINE msg == Head(phoebus_topics[t])
    <3>3. \/ UNCHANGED monitors
          \/ \E new : Becomes(t, new) /\ new.msg = msg /\ (Acknowledges(msg) \/ new.pc = "policy")
      BY <2>6, ReceiveEffect
    <3> HIDE DEF msg
    <3> QED BY <3>1, <3>2, <3>3
  <2>7. CASE MonitorDecide(t)
    <3> DEFINE after == [task EXCEPT !.pc = "rpc",
                                     !.updated = as_cached_state(task.msg.enabled, now)]
               refreshed == [task EXCEPT !.pc = "update"]
    <3>1. task \in [pc : {"policy", "update"}, msg : ConfigMsg, metadata : PvMetadata,
                    updated : {None}, attempt : {1}]
      BY <2>2, <2>7 DEF MonitorDecide, MonitorTask
    <3>2. after.msg = task.msg /\ refreshed.pc = "update" /\ task.msg.op = "Config"
      BY <3>1 DEF ConfigMsg
    <3>3. \/ Becomes(t, MonitorAt("idle")) \/ Becomes(t, refreshed) \/ Becomes(t, after)
      BY <2>7 DEF MonitorDecide
    <3> HIDE DEF after, refreshed
    <3>4. Harmless(MonitorAt("idle")) /\ Harmless(refreshed) /\ Harmless(after)
      BY <3>2 DEF Relaying, MonitorAt
    <3> QED BY <2>3, <3>3, <3>4
  <2>8. CASE MonitorRpc(t)
    <3>1. PICK new : Becomes(t, new) /\ new.msg = task.msg /\ task.pc = "rpc"
      BY <2>8, RpcEffect
    <3>2. Harmless(new)
      BY <2>2, <3>1 DEF Relaying
    <3> QED BY <2>3, <3>1, <3>2
  <2> QED BY <1>5, <2>5, <2>6, <2>7, <2>8 DEF RunMonitor, MonitorStep, MonitorRecord
<1> QED BY <1>1, <1>2, <1>3, <1>4, <1>5

\* TurnsAreTaken is inductive with the types, for operators who wait.
LEMMA TurnsInductive == Paced /\ TypeOK /\ TurnsAreTaken /\ [Next]_vars => TurnsAreTaken'
<1> SUFFICES ASSUME Paced, TypeOK, TurnsAreTaken, [Next]_vars PROVE TurnsAreTaken'
  OBVIOUS
<1> DEFINE Holding == \A t \in MonitoredTopics : HoldsItsKind(monitors[t])
<1>0. OneKind /\ Holding /\ StillAtStartup /\ AcknowledgesActive
  BY DEF TurnsAreTaken
<1>1. CASE OperatorActs
  <2>1. Quiet /\ UNCHANGED hydration
    BY <1>1 DEF OperatorActs, OperatorTurn, tasks
  <2>2. OthersWait /\ StillAtStartup'
    BY <2>1 DEF Quiet, OthersWait, StillAtStartup
  <2> QED BY <1>1, <2>2, OperatorBegins DEF TurnsAreTaken
<1>2. CASE RunControls \/ RunHydration \/ \E t \in MonitoredTopics : RunMonitor(t)
  <2>1. Holding'
    <3>1. CASE UNCHANGED monitors
      BY <1>0, <3>1
    <3>2. ASSUME NEW t \in MonitoredTopics, RunMonitor(t) PROVE Holding'
      <4>1. \A u \in MonitoredTopics \ {t} : monitors'[u] = monitors[u]
        BY <3>2 DEF RunMonitor, MonitorStep, MonitorSubscribe, MonitorStreamEnds, MonitorReceive,
                    MonitorReceives, MonitorDecide, MonitorRpc, MonitorRecord, MonitorUpdate,
                    Becomes, TypeOK, MonitorsTypeOK
      <4>2. HoldsItsKind(monitors'[t])
        BY <1>0, <3>2, HoldingStays
      <4> QED BY <1>0, <4>1, <4>2
    <3> QED BY <1>2, <3>1, <3>2 DEF RunControls, RunHydration
  <2>2. OneKind' /\ StillAtStartup' /\ AcknowledgesActive'
    <3>1. hydration.pc # "done" =>
              ~Acknowledging(controls_task) /\ \A t \in MonitoredTopics : ~Relaying(monitors[t])
      BY <1>0 DEF StillAtStartup, Acknowledging, Relaying
    <3> QED BY <1>0, <1>2, <3>1, KindStays, StillStays, ActiveStays
  <2> QED BY <2>1, <2>2 DEF TurnsAreTaken
<1>3. CASE ClockTicks \/ Await \/ UNCHANGED vars
  <2>1. UNCHANGED <<alarm_states, controls_topic, phoebus_topics, controls_task, monitors, hydration>>
    BY <1>3 DEF ClockTicks, Tick, Await, vars, caches, external, tasks, topics
  <2>2. OneKind'
    BY <1>0, <1>3, KindStays
  <2>3. Holding' /\ StillAtStartup' /\ AcknowledgesActive'
    BY <1>0, <2>1 DEF StillAtStartup, AcknowledgesActive
  <2> QED BY <2>2, <2>3 DEF TurnsAreTaken
<1> QED BY <1>1, <1>2, <1>3 DEF Next

\* While operators act one at a time, acknowledgements and enablements are never
\* under way together, and nothing is before the startup pass is over: whatever
\* is lost, delivered twice or fails.
THEOREM TurnsTaken ==
    ASSUME Paced
    PROVE  Spec => []TurnsAreTaken
<1>1. Init => TurnsAreTaken
  BY DEF Init, ExternalInit, ControlsInit, ControlsAt, MonitorsInit, MonitorAt, HydrationInit,
         TurnsAreTaken, OneKind, OnlyKind, StatusesOf, RecordsOf, ControlsTaskOf, MonitorOf,
         HoldsItsKind, StillAtStartup, AcknowledgesActive, Acknowledging, Relaying
<1> QED BY <1>1, TypeCorrect, TurnsInductive, PTL DEF Spec

-----------------------------------------------------------------------------
(* What is recorded for a bypassed device.                                 *)

\* Who writes an observed state, and what: the Controls task what it mirrored, a
\* monitor what it told Controls, the startup pass an enablement or evidence.
LEMMA Writes ==
    ASSUME TypeOK, [Next]_vars, NEW d \in Device, alarm_states'[d] # alarm_states[d]
    PROVE  \/ /\ controls_task.pc = "record" /\ controls_task.alarm.device = d
              /\ controls_task.alarm \in Mirrored
              /\ alarm_states'[d] = from_status(controls_task.alarm)
           \/ \E t \in MonitoredTopics :
                 /\ monitors[t].pc = "record" /\ monitors[t].msg.device = d
                 /\ alarm_states'[d] = monitors[t].updated
           \/ IsEnablement(alarm_states'[d].state)
           \/ ~IsBypassed(alarm_states[d])
<1> USE DEF TypeOK, CachesTypeOK
<1>1. CASE RunControls
  <2>1. ControlsRecord
    BY <1>1 DEF RunControls, ControlsStep, ControlsSubscribe, ControlsStreamEnds,
                ControlsReceive, ControlsDecide, ControlsPublish, caches
  <2> QED BY <2>1 DEF ControlsRecord, record_alarm_state, ControlsTypeOK, ControlsTask
<1>2. CASE RunHydration
  <2> DEFINE msg == Head(hydration.messages)
  <2>1. HydrationApply
    BY <1>2 DEF RunHydration, HydrationStep, HydrationSnapshot, HydrationUpdate,
                HydrationNextTopic, HydrationDone, caches
  <2>2. CASE msg.op = "Config"
    <3>1. alarm_states' = [alarm_states EXCEPT ![msg.device] = as_cached_state(msg.enabled, now)]
      BY <2>1, <2>2 DEF HydrationApply, record_alarm_state
    <3>2. IsEnablement(as_cached_state(msg.enabled, now).state)
      BY DEF as_cached_state, Plain, IsEnablement
    <3> QED BY <3>1, <3>2
  <2>3. CASE msg.op = "State"
    BY <2>1, <2>3 DEF HydrationApply, record_alarm_state, record_startup_state_evidence, IsBypassed
  <2> QED BY <2>1, <2>2, <2>3 DEF HydrationApply
<1>3. ASSUME NEW t \in MonitoredTopics, RunMonitor(t)
      PROVE  /\ monitors[t].pc = "record" /\ monitors[t].msg.device = d
             /\ alarm_states'[d] = monitors[t].updated
  <2>1. MonitorRecord(t)
    BY <1>3 DEF RunMonitor, MonitorStep, MonitorSubscribe, MonitorStreamEnds, MonitorReceive,
                MonitorDecide, MonitorRpc, MonitorUpdate, caches
  <2> QED BY <2>1 DEF MonitorRecord, record_alarm_state
<1>4. CASE OperatorActs \/ ClockTicks \/ Await \/ UNCHANGED vars
  BY <1>4 DEF OperatorActs, OperatorTurn, ClockTicks, Await, vars, caches
<1> QED BY <1>1, <1>2, <1>3, <1>4 DEF Next

\* The observed state of a bypassed device changes only to another bypass or by
\* an explicit unbypass: an acknowledgement that is still on its way, read from
\* the queue before the bypass or delivered twice, never replaces one.
THEOREM BypassesLeftExplicitly ==
    ASSUME Paced
    PROVE  Spec => BypassLeftExplicitly
<1>1. TypeOK /\ TurnsAreTaken /\ [Next]_vars => \A d \in Device : LeavesBypassExplicitly(d)
  <2> SUFFICES ASSUME TypeOK, TurnsAreTaken, [Next]_vars,
                      NEW d \in Device, IsBypassed(alarm_states[d])
               PROVE  alarm_states'[d].state \in {"Bypassed", "Unbypassed"}
    BY DEF IsBypassed, LeavesBypassExplicitly
  <2>1. CASE alarm_states'[d] = alarm_states[d]
    BY <2>1 DEF IsBypassed
  <2>2. ASSUME controls_task.pc = "record", controls_task.alarm.device = d,
               controls_task.alarm \in Mirrored,
               alarm_states'[d] = from_status(controls_task.alarm)
        PROVE  alarm_states'[d].state \in {"Bypassed", "Unbypassed"}
    <3>1. controls_task.alarm.state # "Acknowledged"
      BY <2>2 DEF TurnsAreTaken, AcknowledgesActive, Acknowledging
    <3> QED BY <2>2, <3>1, NoneAssumption DEF Mirrored, state_to_operation, from_status
  <2>3. ASSUME NEW t \in MonitoredTopics, monitors[t].pc = "record", monitors[t].msg.device = d,
               alarm_states'[d] = monitors[t].updated
        PROVE  alarm_states'[d].state \in {"Bypassed", "Unbypassed"}
    <3>1. monitors[t].msg.op # "Command"
      BY <2>3 DEF TurnsAreTaken, AcknowledgesActive, Relaying
    <3> QED BY <2>3, <3>1 DEF TurnsAreTaken, HoldsItsKind, IsEnablement
  <2> QED BY <2>1, <2>2, <2>3, Writes DEF IsEnablement
<1> QED BY <1>1, TypeCorrect, TurnsTaken, PTL DEF Spec, BypassLeftExplicitly

-----------------------------------------------------------------------------
(* Mirroring an action comes to an end: what a mirroring makes of a state.  *)

LEMMA ExactFacts ==
    /\ Exact \subseteq CachedState
    /\ \A v \in Exact : v.state \in {"Acknowledged", "Bypassed", "Unbypassed"}
    /\ \A v \in Exact : v.state # "Bypassed" => v.wake = NoWake
    /\ \A v \in Exact : v.state = "Bypassed" =>
          v.wake = NoWake \/ (v.wake \in Time /\ v.wake > 0)
  BY TimeAssumption DEF Exact, CachedState, State, Wake, Plain

\* The record of a config amounts to an exact state.
LEMMA ConfigAmount ==
    ASSUME NEW enabled \in Enablement, Normalizable(enabled)
    PROVE  as_cached_state(enabled, 0) \in Exact
<1>1. CASE enabled.kind = "SnoozedUntil"
  <2>1. enabled.until \in Time /\ enabled.until \in Nat
    BY <1>1, TimeAssumption DEF Enablement
  <2>2. CASE enabled.until <= 0
    BY <1>1, <2>2 DEF as_cached_state, Exact
  <2>3. CASE enabled.until > 0
    <3>1. as_cached_state(enabled, 0) = [state |-> "Bypassed", wake |-> enabled.until]
      BY <1>1, <2>1, <2>3 DEF as_cached_state
    <3> QED BY <2>1, <2>3, <3>1 DEF Exact
  <2> QED BY <2>1, <2>2, <2>3
<1>2. CASE enabled.kind = "Active"
  BY <1>2 DEF as_cached_state, Exact
<1>3. CASE enabled.kind = "Bypassed"
  <2>1. enabled.until = NoWake
    BY <1>3 DEF Enablement
  <2>2. as_cached_state(enabled, 0) = [state |-> "Bypassed", wake |-> NoWake]
    BY <1>3, <2>1 DEF as_cached_state
  <2> QED BY <2>2 DEF Exact
<1> QED BY <1>1, <1>2, <1>3 DEF Normalizable

\* What a record amounts to, and what a status comes back as, survives the way
\* through Phoebus.
LEMMA AmountExact ==
    ASSUME NEW msg \in PhoebusMsg, Relays(msg)
    PROVE  msg.device \in Device /\ Amount(msg) \in Exact /\ msg.hops \in Hops
<1>1. CASE msg.op = "Command"
  <2>1. msg \in CommandMsg
    BY <1>1 DEF PhoebusMsg, ConfigMsg, StateMsg, BadKeyMsg
  <2> QED BY <1>1, <2>1 DEF Amount, Exact, CommandMsg
<1>2. CASE msg.op = "Config"
  <2>1. msg \in ConfigMsg
    BY <1>2 DEF PhoebusMsg, CommandMsg, StateMsg, BadKeyMsg
  <2>2. msg.enabled \in Enablement /\ Normalizable(msg.enabled)
    BY <1>2, <2>1 DEF ConfigMsg, Relays
  <2> QED BY <1>2, <2>1, <2>2, ConfigAmount DEF Amount, ConfigMsg
<1> QED BY <1>1, <1>2 DEF Relays

LEMMA EnablementRead ==
    ASSUME NEW status \in Status
    PROVE  /\ normalized_enablement_from_controls(status) \in Enablement
           /\ Normalizable(normalized_enablement_from_controls(status))
  BY DEF normalized_enablement_from_controls, Enablement, Normalizable, Status

LEMMA EchoExact ==
    ASSUME NEW status \in Status
    PROVE  Echo(status) \in Exact
<1>1. CASE status.state = "Acknowledged"
  BY <1>1 DEF Echo, Exact
<1>2. CASE status.state # "Acknowledged"
  BY <1>2, EnablementRead, ConfigAmount DEF Echo
<1> QED BY <1>1, <1>2

\* An exact state comes back as it went.
LEMMA ExactEchoes ==
    ASSUME NEW status \in Status, from_status(status) \in Exact
    PROVE  Mirrorable(status) /\ Echo(status) = from_status(status)
<1> DEFINE v == from_status(status)
<1>1. v = [state |-> status.state, wake |-> status.wake]
  BY DEF from_status
<1>2. v \in CachedState /\ v.state = status.state /\ v.wake = status.wake
  BY <1>1, ExactFacts
<1>3. CASE status.state = "Bypassed"
  <2>1. status.wake = NoWake \/ (status.wake \in Time /\ status.wake > 0)
    BY <1>2, <1>3, ExactFacts
  <2>2. CASE status.wake = NoWake
    <3>1. Echo(status) = [state |-> "Bypassed", wake |-> NoWake]
      BY <1>3, <2>2, WakeAssumption
         DEF Echo, normalized_enablement_from_controls, as_cached_state
    <3> QED BY <1>1, <1>3, <2>2, <3>1, NoneAssumption DEF Mirrorable, state_to_operation
  <2>3. CASE status.wake \in Time /\ status.wake > 0
    <3>1. ~(status.wake <= 0)
      <4>1. status.wake \in Nat
        BY <2>3, TimeAssumption
      <4> QED BY <2>3, <4>1
    <3>2. Echo(status) = [state |-> "Bypassed", wake |-> status.wake]
      BY <1>3, <2>3, <3>1 DEF Echo, normalized_enablement_from_controls, as_cached_state
    <3> QED BY <1>1, <1>3, <3>2, NoneAssumption DEF Mirrorable, state_to_operation
  <2> QED BY <2>1, <2>2, <2>3
<1>4. CASE status.state # "Bypassed"
  <2>1. status.wake = NoWake /\ status.state \in {"Acknowledged", "Unbypassed"}
    BY <1>2, <1>4, ExactFacts
  <2>2. Echo(status) = Plain(status.state)
    BY <1>4, <2>1 DEF Echo, normalized_enablement_from_controls, as_cached_state
  <2> QED BY <1>1, <2>1, <2>2, NoneAssumption DEF Mirrorable, state_to_operation, Plain
<1> QED BY <1>3, <1>4

LEMMA NextHopBound ==
    ASSUME NEW hops \in Hops
    PROVE  NextHop(hops) <= hops + 1 /\ NextHop(hops) \in Int
  BY HopsAssumption DEF NextHop, Hops

\* The record a status is mirrored as amounts to its echo.
LEMMA MirroredAmount ==
    ASSUME NEW status \in Mirrored, NEW metadata
    PROVE  LET msg == controls_to_phoebus(status, state_to_operation(status.state), metadata)
           IN  /\ Relays(msg) /\ Amount(msg) = Echo(status)
               /\ msg.device = status.device /\ msg.hops = NextHop(status.hops)
<1>1. status \in Status /\ state_to_operation(status.state) \in {"Command", "Config"}
  BY DEF Mirrored
<1>2. CASE status.state = "Acknowledged"
  <2>1. state_to_operation(status.state) = "Command"
    BY <1>2 DEF state_to_operation
  <2> QED BY <1>2, <2>1 DEF controls_to_phoebus, Relays, Amount, Echo
<1>3. CASE status.state # "Acknowledged"
  <2>1. state_to_operation(status.state) = "Config"
    BY <1>1, <1>3, NoneAssumption DEF state_to_operation
  <2>2. Normalizable(normalized_enablement_from_controls(status))
    BY <1>1, EnablementRead
  <2> QED BY <1>3, <2>1, <2>2 DEF controls_to_phoebus, Relays, Amount, Echo
<1> QED BY <1>2, <1>3

-----------------------------------------------------------------------------
(* What is under way keeps to the aim.                                     *)

\* What a task has not read yet, or reads again, is the end of a queue.
EndOf(queue2, queue) ==
    \E k \in Nat : \A i \in DOMAIN queue2 :
        i \in Nat /\ i + k \in DOMAIN queue /\ queue2[i] = queue[i + k]

LEMMA QueueEnds ==
    ASSUME NEW S, NEW queue \in Seq(S)
    PROVE  /\ EndOf(queue, queue)
           /\ \A n \in 1 .. Len(queue) + 1 : EndOf(From(queue, n), queue)
           /\ queue # <<>> => EndOf(Tail(queue), queue)
<1>1. \A i \in DOMAIN queue : i \in Nat /\ i + 0 \in DOMAIN queue /\ queue[i] = queue[i + 0]
  OBVIOUS
<1>2. ASSUME NEW n \in 1 .. Len(queue) + 1
      PROVE  EndOf(From(queue, n), queue)
  <2>1. /\ Len(From(queue, n)) = Len(queue) - n + 1
        /\ \A i \in 1 .. Len(queue) - n + 1 : From(queue, n)[i] = queue[i + n - 1]
    BY DEF From
  <2>2. DOMAIN From(queue, n) = 1 .. Len(queue) - n + 1
    BY <2>1 DEF From
  <2>3. \A i \in 1 .. Len(queue) - n + 1 :
            i \in Nat /\ i + (n - 1) \in DOMAIN queue /\ i + n - 1 = i + (n - 1)
    OBVIOUS
  <2>4. n - 1 \in Nat
    OBVIOUS
  <2>5. \A i \in DOMAIN From(queue, n) :
            /\ i \in Nat /\ i + (n - 1) \in DOMAIN queue
            /\ From(queue, n)[i] = queue[i + (n - 1)]
    BY <2>1, <2>2, <2>3, Zenon
  <2> QED BY <2>4, <2>5, Zenon DEF EndOf
<1>3. ASSUME queue # <<>>
      PROVE  EndOf(Tail(queue), queue)
  <2>1. \A i \in DOMAIN Tail(queue) :
            i \in Nat /\ i + 1 \in DOMAIN queue /\ Tail(queue)[i] = queue[i + 1]
    BY <1>3
  <2> QED BY <2>1 DEF EndOf
<1> QED BY <1>1, <1>2, <1>3 DEF EndOf

LEMMA EndFits ==
    ASSUME NEW queue, NEW queue2, EndOf(queue2, queue), NEW aim
    PROVE  /\ \A d : NoneStale(queue, d, aim) => NoneStale(queue2, d, aim)
           /\ InOrder(queue, aim) => InOrder(queue2, aim)
           /\ \A i \in DOMAIN queue2 : \E j \in DOMAIN queue : queue2[i] = queue[j]
<1>1. PICK k \in Nat : \A i \in DOMAIN queue2 :
                           i \in Nat /\ i + k \in DOMAIN queue /\ queue2[i] = queue[i + k]
  BY DEF EndOf
<1>2. \A i \in DOMAIN queue2 : \E j \in DOMAIN queue : queue2[i] = queue[j]
  BY <1>1
<1>3. ASSUME InOrder(queue, aim)
      PROVE  InOrder(queue2, aim)
  <2> SUFFICES ASSUME NEW i \in DOMAIN queue2, NEW j \in DOMAIN queue2,
                      i < j, queue2[i].device = queue2[j].device,
                      Mirrorable(queue2[i]), Stale(queue2[j], aim)
               PROVE  Stale(queue2[i], aim)
    BY DEF InOrder
  <2>1. i + k < j + k
    BY <1>1
  <2> QED BY <1>1, <1>3, <2>1, Zenon DEF InOrder
<1> QED BY <1>2, <1>3 DEF NoneStale

LEMMA AddedFits ==
    ASSUME NEW S, NEW queue \in Seq(S), NEW e \in S, NEW aim, ~Stale(e, aim)
    PROVE  /\ \A d : NoneStale(queue, d, aim) => NoneStale(Append(queue, e), d, aim)
           /\ InOrder(queue, aim) => InOrder(Append(queue, e), aim)
<1> DEFINE queue2 == Append(queue, e)
<1>1. \A i \in DOMAIN queue2 : queue2[i] = e \/ (i \in DOMAIN queue /\ queue2[i] = queue[i])
  BY AppendHeld
<1>2. \A i, j \in DOMAIN queue2 : i < j => i \in DOMAIN queue /\ queue2[i] = queue[i]
  OBVIOUS
<1> HIDE DEF queue2
<1>3. \A d : NoneStale(queue, d, aim) => NoneStale(queue2, d, aim)
  BY <1>1 DEF NoneStale
<1>4. InOrder(queue, aim) => InOrder(queue2, aim)
  BY <1>1, <1>2, Zenon DEF InOrder
<1> QED BY <1>3, <1>4 DEF queue2

\* More is allowed where the aim has arrived.
LEMMA FitsStay ==
    ASSUME NEW aim, NEW arrived, NEW arrived2, arrived \subseteq arrived2
    PROVE  /\ \A status : StatusFits(status, aim, arrived) => StatusFits(status, aim, arrived2)
           /\ \A msg : RecordFits(msg, aim, arrived) => RecordFits(msg, aim, arrived2)
           /\ \A task : MonitorFits(task, aim, arrived) => MonitorFits(task, aim, arrived2)
<1>1. \A status : StatusFits(status, aim, arrived) => StatusFits(status, aim, arrived2)
  BY DEF StatusFits
<1>2. \A msg : RecordFits(msg, aim, arrived) => RecordFits(msg, aim, arrived2)
  BY DEF RecordFits
<1> QED BY <1>1, <1>2, Zenon DEF MonitorFits

\* The devices where the aim has arrived, before a step and after it.
ArrivedNow(aim) == Arrived(controls_topic, controls_task, alarm_states, aim)

\* What the aim leads to, part by part.
LEMMA LeadsParts ==
    ASSUME NEW aim
    PROVE  /\ Leads(aim) <=>
                 /\ \A i \in DOMAIN controls_topic :
                       StatusFits(controls_topic[i], aim, ArrivedNow(aim))
                 /\ InOrder(controls_topic, aim)
                 /\ ControlsFits(controls_task, controls_topic, aim)
                 /\ \A t \in MonitoredTopics :
                       /\ \A i \in DOMAIN phoebus_topics[t] :
                             RecordFits(phoebus_topics[t][i], aim, ArrivedNow(aim))
                       /\ MonitorFits(monitors[t], aim, ArrivedNow(aim))
           /\ Leads(aim)' <=>
                 /\ \A i \in DOMAIN controls_topic' :
                       StatusFits(controls_topic'[i], aim, ArrivedNow(aim)')
                 /\ InOrder(controls_topic', aim)
                 /\ ControlsFits(controls_task', controls_topic', aim)
                 /\ \A t \in MonitoredTopics :
                       /\ \A i \in DOMAIN phoebus_topics'[t] :
                             RecordFits(phoebus_topics'[t][i], aim, ArrivedNow(aim)')
                       /\ MonitorFits(monitors'[t], aim, ArrivedNow(aim)')
  BY DEF Leads, ArrivedNow

LEMMA ArrivedMeans ==
    ASSUME NEW aim, NEW d \in Device
    PROVE  /\ d \in ArrivedNow(aim) <=>
                 /\ NoneStale(controls_topic, d, aim)
                 /\ Has(controls_task, d) => ~Stale(controls_task.alarm, aim)
                 /\ alarm_states[d] = aim[d] \/ (Has(controls_task, d) /\ controls_task.pc = "record")
           /\ d \in ArrivedNow(aim)' <=>
                 /\ NoneStale(controls_topic', d, aim)
                 /\ Has(controls_task', d) => ~Stale(controls_task'.alarm, aim)
                 /\ alarm_states'[d] = aim[d] \/ (Has(controls_task', d) /\ controls_task'.pc = "record")
  BY DEF ArrivedNow, Arrived

LEMMA ArrivedDevices ==
    ASSUME NEW aim
    PROVE  ArrivedNow(aim) \subseteq Device
  BY DEF ArrivedNow, Arrived

LEMMA ControlsLeads ==
    ASSUME TypeOK, now = 0, NEW aim \in [Device -> Exact], Leads(aim), RunControls
    PROVE  Leads(aim)'
<1> USE DEF TypeOK, CachesTypeOK, ExternalTypeOK, ControlsTypeOK
<1> DEFINE alarm == controls_task.alarm
           S == ArrivedNow(aim)
           N == ArrivedNow(aim)'
<1>0. /\ \A i \in DOMAIN controls_topic : StatusFits(controls_topic[i], aim, S)
      /\ InOrder(controls_topic, aim)
      /\ ControlsFits(controls_task, controls_topic, aim)
      /\ \A t \in MonitoredTopics :
            /\ \A i \in DOMAIN phoebus_topics[t] : RecordFits(phoebus_topics[t][i], aim, S)
            /\ MonitorFits(monitors[t], aim, S)
  BY LeadsParts, Zenon
<1>a. UNCHANGED monitors
  BY DEF RunControls
\* What is left of a step once it is known that what has arrived stays.
<1>b. ASSUME S \subseteq N, EndOf(controls_topic', controls_topic), UNCHANGED phoebus_topics,
             ControlsFits(controls_task', controls_topic', aim)
      PROVE  Leads(aim)'
  <2>1. /\ \A status : StatusFits(status, aim, S) => StatusFits(status, aim, N)
        /\ \A msg : RecordFits(msg, aim, S) => RecordFits(msg, aim, N)
        /\ \A task : MonitorFits(task, aim, S) => MonitorFits(task, aim, N)
    BY <1>b, FitsStay, Zenon
  <2>2. /\ InOrder(controls_topic', aim)
        /\ \A i \in DOMAIN controls_topic' : \E j \in DOMAIN controls_topic :
              controls_topic'[i] = controls_topic[j]
    BY <1>0, <1>b, EndFits, Zenon
  <2>3. \A i \in DOMAIN controls_topic' : StatusFits(controls_topic'[i], aim, N)
    BY <1>0, <2>1, <2>2, Zenon
  <2>4. \A t \in MonitoredTopics :
            /\ \A i \in DOMAIN phoebus_topics'[t] : RecordFits(phoebus_topics'[t][i], aim, N)
            /\ MonitorFits(monitors'[t], aim, N)
    BY <1>0, <1>a, <1>b, <2>1
  <2> QED BY <1>b, <2>2, <2>3, <2>4, LeadsParts, Zenon
<1>c. controls_topic \in Seq(Status) /\ controls_task \in ControlsTask
  OBVIOUS
<1>1. CASE ControlsSubscribe \/ ControlsStreamEnds
  <2>1. EndOf(controls_topic', controls_topic)
    BY <1>1, <1>c, QueueEnds DEF ControlsSubscribe, ControlsStreamEnds, topics
  <2>2. /\ UNCHANGED <<phoebus_topics, alarm_states>>
        /\ controls_task.pc \in {"idle", "down"} /\ controls_task'.pc \in {"idle", "down"}
    BY <1>1 DEF ControlsSubscribe, ControlsStreamEnds, topics, caches, ControlsAt
  <2>3. ControlsFits(controls_task', controls_topic', aim)
    BY <2>2 DEF ControlsFits
  <2>4. S \subseteq N
    <3> SUFFICES ASSUME NEW d \in Device, d \in S PROVE d \in N
      BY ArrivedDevices, Zenon
    <3>1. NoneStale(controls_topic', d, aim)
      BY <2>1, EndFits, ArrivedMeans, Zenon
    <3>2. alarm_states'[d] = aim[d] /\ ~Has(controls_task', d)
      BY <2>2, ArrivedMeans DEF Has
    <3> QED BY <3>1, <3>2, ArrivedMeans, Zenon
  <2> QED BY <1>b, <2>1, <2>2, <2>3, <2>4
<1>2. CASE ControlsReceive
  <2> DEFINE received == Head(controls_topic)
  <2>1. EndOf(controls_topic', controls_topic)
    BY <1>2, <1>c, QueueEnds DEF ControlsReceive
  <2>2. /\ UNCHANGED <<phoebus_topics, alarm_states>> /\ controls_task.pc = "idle"
        /\ \/ UNCHANGED controls_task
           \/ /\ controls_task'.pc = "lookup" /\ controls_task'.alarm = received
              /\ controls_task'.observed = alarm_states[received.device]
    BY <1>2 DEF ControlsReceive, caches
  <2>3. received = controls_topic[1] /\ 1 \in DOMAIN controls_topic /\ received \in Status
    BY <1>2, <1>c, TailHeld DEF ControlsReceive
  <2>4. received.device \in Device /\ StatusFits(received, aim, S)
    BY <1>0, <2>3 DEF Status
  <2>5. received.device \in S =>
            ~Stale(received, aim) /\ alarm_states[received.device] = aim[received.device]
    <3>1. received.device \in S => alarm_states[received.device] = aim[received.device]
      BY <2>2, <2>4, ArrivedMeans DEF Has
    <3>2. received.device \in S => NoneStale(controls_topic, received.device, aim)
      BY <2>4, ArrivedMeans, Zenon
    <3> QED BY <2>3, <3>1, <3>2 DEF NoneStale
  <2>6. ASSUME ~Stale(received, aim), Mirrorable(received)
        PROVE  NoneStale(controls_topic, received.device, aim)
    <3> SUFFICES ASSUME NEW i \in DOMAIN controls_topic,
                        controls_topic[i].device = received.device,
                        Stale(controls_topic[i], aim)
                 PROVE  FALSE
      BY DEF NoneStale
    <3>1. i = 1 \/ 1 < i
      BY <1>c
    <3> QED BY <1>0, <2>3, <2>6, <3>1 DEF InOrder
  <2> HIDE DEF received
  <2>7. ControlsFits(controls_task', controls_topic', aim)
    <3>1. CASE UNCHANGED controls_task
      BY <2>2, <3>1 DEF ControlsFits
    <3>2. ASSUME controls_task'.pc = "lookup", controls_task'.alarm = received,
                 controls_task'.observed = alarm_states[received.device],
                 Mirrorable(received)
          PROVE  ControlsFits(controls_task', controls_topic', aim)
      <4>1. /\ Echo(received) = aim[received.device]
            /\ Stale(received, aim) => received.hops = 0 /\ ~StatusesEchoed
            /\ received.hops <= Free \/ received.device \in S
        BY <2>4, <3>2 DEF StatusFits
      <4>2. ~Stale(received, aim) => NoneStale(controls_topic', received.device, aim)
        BY <2>1, <2>6, <3>2, EndFits, Zenon
      <4>3. received.device \in S => alarm_states[received.device] = from_status(received)
        BY <2>5, <3>2 DEF Stale
      <4> QED BY <3>2, <4>1, <4>2, <4>3 DEF ControlsFits
    <3>3. controls_task'.pc = "lookup" /\ ~Mirrorable(controls_task'.alarm)
              => ControlsFits(controls_task', controls_topic', aim)
      BY DEF ControlsFits
    <3> QED BY <2>2, <3>1, <3>2, <3>3
  <2>8. S \subseteq N
    <3> SUFFICES ASSUME NEW d \in Device, d \in S PROVE d \in N
      BY ArrivedDevices, Zenon
    <3>1. NoneStale(controls_topic', d, aim)
      BY <2>1, EndFits, ArrivedMeans, Zenon
    <3>2. alarm_states'[d] = aim[d]
      BY <2>2, ArrivedMeans DEF Has
    <3>3. Has(controls_task', d) => ~Stale(controls_task'.alarm, aim)
      BY <2>2, <2>5 DEF Has
    <3> QED BY <3>1, <3>2, <3>3, ArrivedMeans, Zenon
  <2> QED BY <1>b, <2>1, <2>2, <2>7, <2>8
<1>3. CASE ControlsDecide
  <2>1. /\ UNCHANGED <<controls_topic, phoebus_topics, alarm_states>>
        /\ controls_task.pc = "lookup"
        /\ \/ controls_task'.pc = "idle"
           \/ /\ controls_task'.pc = "publish" /\ controls_task'.alarm = alarm
              /\ ~suppresses_incoming(controls_task.observed, from_status(alarm))
    BY <1>3 DEF ControlsDecide, ControlsAt, SyncsToPhoebus, caches, topics
  <2>2. alarm \in Status
    BY <2>1 DEF ControlsTask
  <2>3. EndOf(controls_topic', controls_topic)
    BY <1>c, <2>1, QueueEnds
  <2>4. ControlsFits(controls_task', controls_topic', aim)
    <3>1. CASE controls_task'.pc = "idle"
      BY <3>1 DEF ControlsFits
    <3>2. CASE controls_task'.pc = "publish"
      <4>1. controls_task'.alarm = alarm /\ controls_task.observed # from_status(alarm)
        <5>1. from_status(alarm) # None
          BY <2>2, FromStatusType, NoneAssumption
        <5> QED BY <2>1, <3>2, <5>1 DEF suppresses_incoming
      <4> QED BY <1>0, <2>1, <3>2, <4>1 DEF ControlsFits
    <3> QED BY <2>1, <3>1, <3>2
  <2>5. S \subseteq N
    <3> SUFFICES ASSUME NEW d \in Device, d \in S PROVE d \in N
      BY ArrivedDevices, Zenon
    <3>1. NoneStale(controls_topic', d, aim)
      BY <2>1, ArrivedMeans
    <3>2. alarm_states'[d] = aim[d]
      BY <2>1, ArrivedMeans DEF Has
    <3>3. Has(controls_task', d) => ~Stale(controls_task'.alarm, aim)
      BY <2>1, ArrivedMeans DEF Has
    <3> QED BY <3>1, <3>2, <3>3, ArrivedMeans, Zenon
  <2> QED BY <1>b, <2>1, <2>3, <2>4, <2>5
<1>4. CASE ControlsPublish
  <2>1. /\ UNCHANGED <<controls_topic, alarm_states>>
        /\ controls_task.pc = "publish" /\ alarm \in Mirrored
        /\ controls_task'.pc = "record" /\ controls_task'.alarm = alarm
        /\ MirroredRecord \in PhoebusMsg
        /\ \/ /\ OutboundTopic \in MonitoredTopics
              /\ phoebus_topics' = [phoebus_topics EXCEPT ![OutboundTopic]
                                        = Append(@, MirroredRecord)]
           \/ UNCHANGED phoebus_topics
    BY <1>4, PublishEffect DEF ControlsPublish, caches
  <2>2. /\ Mirrorable(alarm) /\ alarm.device \in Device /\ alarm.hops \in Hops
        /\ Relays(MirroredRecord) /\ Amount(MirroredRecord) = Echo(alarm)
        /\ MirroredRecord.device = alarm.device /\ MirroredRecord.hops = NextHop(alarm.hops)
    BY <2>1, MirroredAmount, NoneAssumption DEF MirroredRecord, Mirrored, Mirrorable, Status
  <2>3. /\ Echo(alarm) = aim[alarm.device] /\ alarm.hops <= Free
        /\ Stale(alarm, aim) => alarm.hops = 0 /\ ~StatusesEchoed
        /\ ~Stale(alarm, aim) => NoneStale(controls_topic, alarm.device, aim)
    BY <1>0, <2>1, <2>2 DEF ControlsFits
  <2>4. ControlsFits(controls_task', controls_topic', aim)
    BY <2>1, <2>3 DEF ControlsFits
  <2>5. S \subseteq N
    <3> SUFFICES ASSUME NEW d \in Device, d \in S PROVE d \in N
      BY ArrivedDevices, Zenon
    <3>1. NoneStale(controls_topic', d, aim)
      BY <2>1, ArrivedMeans
    <3>2. alarm_states'[d] = aim[d]
      BY <2>1, ArrivedMeans
    <3>3. Has(controls_task', d) => ~Stale(controls_task'.alarm, aim)
      BY <2>1, ArrivedMeans DEF Has
    <3> QED BY <3>1, <3>2, <3>3, ArrivedMeans, Zenon
  <2>6. ~Stale(alarm, aim) => alarm.device \in N
    BY <2>1, <2>2, <2>3, ArrivedMeans DEF Has
  <2>7. RecordFits(MirroredRecord, aim, N)
    <3>1. NextHop(alarm.hops) <= alarm.hops + 1 /\ NextHop(alarm.hops) \in Int /\ alarm.hops \in Int
      BY <2>2, NextHopBound DEF Hops
    <3>2. CASE Stale(alarm, aim)
      <4>1. NextHop(alarm.hops) < Free
        BY <2>3, <3>1, <3>2 DEF Free
      <4> QED BY <2>2, <2>3, <4>1 DEF RecordFits
    <3>3. CASE ~Stale(alarm, aim)
      <4>1. NextHop(alarm.hops) <= Free + 1
        BY <2>3, <3>1 DEF Free
      <4> QED BY <2>2, <2>3, <2>6, <3>3, <4>1 DEF RecordFits
    <3> QED BY <3>2, <3>3
  <2>8. CASE UNCHANGED phoebus_topics
    <3>1. EndOf(controls_topic', controls_topic)
      BY <1>c, <2>1, QueueEnds
    <3> QED BY <1>b, <2>4, <2>5, <2>8, <3>1
  <2>9. CASE /\ OutboundTopic \in MonitoredTopics
             /\ phoebus_topics' = [phoebus_topics EXCEPT ![OutboundTopic]
                                       = Append(@, MirroredRecord)]
    <3>1. /\ \A status : StatusFits(status, aim, S) => StatusFits(status, aim, N)
          /\ \A msg : RecordFits(msg, aim, S) => RecordFits(msg, aim, N)
          /\ \A task : MonitorFits(task, aim, S) => MonitorFits(task, aim, N)
      BY <2>5, FitsStay, Zenon
    <3>2. ASSUME NEW t \in MonitoredTopics, NEW i \in DOMAIN phoebus_topics'[t]
          PROVE  RecordFits(phoebus_topics'[t][i], aim, N)
      <4>1. \/ phoebus_topics'[t][i] = MirroredRecord
            \/ i \in DOMAIN phoebus_topics[t] /\ phoebus_topics'[t][i] = phoebus_topics[t][i]
        <5>1. CASE t = OutboundTopic
          <6>1. phoebus_topics'[t] = Append(phoebus_topics[t], MirroredRecord)
            BY <2>9, <5>1
          <6>2. phoebus_topics[t] \in Seq(PhoebusMsg)
            OBVIOUS
          <6> QED BY <2>1, <3>2, <6>1, <6>2, AppendHeld
        <5>2. CASE t # OutboundTopic
          BY <2>9, <3>2, <5>2
        <5> QED BY <5>1, <5>2
      <4> QED BY <1>0, <2>7, <3>1, <4>1, Zenon
    <3>3. \A i \in DOMAIN controls_topic' : StatusFits(controls_topic'[i], aim, N)
      BY <1>0, <2>1, <3>1
    <3>4. \A t \in MonitoredTopics : MonitorFits(monitors'[t], aim, N)
      BY <1>0, <1>a, <3>1
    <3> QED BY <1>0, <2>1, <2>4, <3>2, <3>3, <3>4, LeadsParts
  <2> QED BY <2>1, <2>8, <2>9
<1>5. CASE ControlsRecord
  <2>1. /\ UNCHANGED <<controls_topic, phoebus_topics>>
        /\ controls_task.pc = "record" /\ alarm \in Mirrored
        /\ alarm_states' = [alarm_states EXCEPT ![alarm.device] = from_status(alarm)]
        /\ controls_task'.pc = "idle"
    BY <1>5 DEF ControlsRecord, record_alarm_state, ControlsAt, topics, ControlsTask
  <2>2. Mirrorable(alarm) /\ alarm.device \in Device
    BY <2>1, NoneAssumption DEF Mirrored, Mirrorable, Status
  <2>3. ControlsFits(controls_task', controls_topic', aim) /\ EndOf(controls_topic', controls_topic)
    BY <1>c, <2>1, QueueEnds DEF ControlsFits
  <2>4. S \subseteq N
    <3> SUFFICES ASSUME NEW d \in Device, d \in S PROVE d \in N
      BY ArrivedDevices, Zenon
    <3>1. NoneStale(controls_topic', d, aim)
      BY <2>1, ArrivedMeans
    <3>2. ~Has(controls_task', d)
      BY <2>1 DEF Has
    <3>3. alarm_states'[d] = aim[d]
      <4>1. CASE d = alarm.device
        <5>1. Has(controls_task, d)
          BY <2>1, <4>1 DEF Has
        <5>2. from_status(alarm) = aim[d]
          BY <2>2, <4>1, <5>1, ArrivedMeans DEF Stale
        <5> QED BY <2>1, <4>1, <5>2
      <4>2. CASE d # alarm.device
        BY <2>1, <4>2, ArrivedMeans DEF Has
      <4> QED BY <4>1, <4>2
    <3> QED BY <3>1, <3>2, <3>3, ArrivedMeans, Zenon
  <2> QED BY <1>b, <2>1, <2>3, <2>4
<1> QED BY <1>1, <1>2, <1>3, <1>4, <1>5 DEF RunControls, ControlsStep

LEMMA MonitorLeads ==
    ASSUME TypeOK, now = 0, NEW aim \in [Device -> Exact], Leads(aim),
           NEW t \in MonitoredTopics, RunMonitor(t)
    PROVE  Leads(aim)'
<1> USE DEF TypeOK, CachesTypeOK, ExternalTypeOK, MonitorsTypeOK
<1> DEFINE task == monitors[t]
           S == ArrivedNow(aim)
           N == ArrivedNow(aim)'
<1>0. /\ \A i \in DOMAIN controls_topic : StatusFits(controls_topic[i], aim, S)
      /\ InOrder(controls_topic, aim)
      /\ ControlsFits(controls_task, controls_topic, aim)
      /\ \A u \in MonitoredTopics :
            /\ \A i \in DOMAIN phoebus_topics[u] : RecordFits(phoebus_topics[u][i], aim, S)
            /\ MonitorFits(monitors[u], aim, S)
  BY LeadsParts, Zenon
<1>a. UNCHANGED controls_task /\ task \in MonitorTask /\ controls_topic \in Seq(Status)
  BY DEF RunMonitor
\* What is left of a step that tells Controls nothing.
<1>b. ASSUME UNCHANGED controls_topic, S \subseteq N, NEW new, Becomes(t, new),
             MonitorFits(new, aim, S),
             \/ UNCHANGED phoebus_topics
             \/ \E rest : /\ phoebus_topics' = [phoebus_topics EXCEPT ![t] = rest]
                          /\ EndOf(rest, phoebus_topics[t])
      PROVE  Leads(aim)'
  <2>1. /\ \A status : StatusFits(status, aim, S) => StatusFits(status, aim, N)
        /\ \A msg : RecordFits(msg, aim, S) => RecordFits(msg, aim, N)
        /\ \A held : MonitorFits(held, aim, S) => MonitorFits(held, aim, N)
    BY <1>b, FitsStay, Zenon
  <2>2. ASSUME NEW u \in MonitoredTopics, NEW i \in DOMAIN phoebus_topics'[u]
        PROVE  RecordFits(phoebus_topics'[u][i], aim, N)
    <3>1. \E j \in DOMAIN phoebus_topics[u] : phoebus_topics'[u][i] = phoebus_topics[u][j]
      <4>1. CASE UNCHANGED phoebus_topics
        BY <2>2, <4>1
      <4>2. ASSUME NEW rest, EndOf(rest, phoebus_topics[t]),
                   phoebus_topics' = [phoebus_topics EXCEPT ![t] = rest]
            PROVE  \E j \in DOMAIN phoebus_topics[u] :
                       phoebus_topics'[u][i] = phoebus_topics[u][j]
        <5>1. \A k \in DOMAIN rest : \E j \in DOMAIN phoebus_topics[t] :
                  rest[k] = phoebus_topics[t][j]
          BY <4>2, EndFits, Zenon
        <5>2. phoebus_topics'[u] = IF u = t THEN rest ELSE phoebus_topics[u]
          BY <4>2
        <5> QED BY <2>2, <5>1, <5>2
      <4> QED BY <1>b, <4>1, <4>2
    <3> QED BY <1>0, <2>1, <3>1, Zenon
  <2>3. ASSUME NEW u \in MonitoredTopics
        PROVE  MonitorFits(monitors'[u], aim, N)
    <3>1. monitors'[u] = IF u = t THEN new ELSE monitors[u]
      BY <1>b DEF Becomes
    <3> QED BY <1>0, <1>b, <2>1, <3>1
  <2>4. /\ \A i \in DOMAIN controls_topic' : StatusFits(controls_topic'[i], aim, N)
        /\ InOrder(controls_topic', aim)
        /\ ControlsFits(controls_task', controls_topic', aim)
    BY <1>0, <1>a, <1>b, <2>1
  <2> QED BY <2>2, <2>3, <2>4, LeadsParts, Zenon
<1>c. UNCHANGED <<controls_topic, alarm_states>> => S \subseteq N
  BY <1>a DEF ArrivedNow
<1>d. \A new : new.pc \notin {"policy", "rpc", "record"} => MonitorFits(new, aim, S)
  BY DEF MonitorFits
<1>e. MonitorFits(task, aim, S)
  BY <1>0
<1>1. CASE MonitorSubscribe(t)
  <2>1. /\ UNCHANGED <<controls_topic, alarm_states>> /\ Becomes(t, MonitorAt("idle"))
        /\ \E n \in 1 .. Len(phoebus_topics[t]) + 1 :
              phoebus_topics' = [phoebus_topics EXCEPT ![t] = From(phoebus_topics[t], n)]
    BY <1>1 DEF MonitorSubscribe, caches
  <2>2. \E rest : /\ phoebus_topics' = [phoebus_topics EXCEPT ![t] = rest]
                  /\ EndOf(rest, phoebus_topics[t])
    <3>1. \A n \in 1 .. Len(phoebus_topics[t]) + 1 :
              EndOf(From(phoebus_topics[t], n), phoebus_topics[t])
      BY QueueEnds
    <3> QED BY <2>1, <3>1
  <2>3. MonitorFits(MonitorAt("idle"), aim, S)
    BY <1>d DEF MonitorAt
  <2> QED BY <1>b, <1>c, <2>1, <2>2, <2>3
<1>2. CASE MonitorStreamEnds(t) \/ MonitorUpdate(t)
  <2>1. /\ UNCHANGED <<controls_topic, phoebus_topics, alarm_states>>
        /\ Becomes(t, MonitorAt("idle")) \/ Becomes(t, MonitorAt("down"))
    BY <1>2 DEF MonitorStreamEnds, MonitorUpdate, topics, caches
  <2>2. MonitorFits(MonitorAt("idle"), aim, S) /\ MonitorFits(MonitorAt("down"), aim, S)
    BY <1>d DEF MonitorAt
  <2> QED BY <1>b, <1>c, <2>1, <2>2
<1>3. CASE MonitorReceive(t)
  <2> DEFINE msg == Head(phoebus_topics[t])
  <2>1. /\ phoebus_topics[t] # <<>> /\ msg \in PhoebusMsg /\ task.pc = "idle"
        /\ \E rest \in {Tail(phoebus_topics[t]), phoebus_topics[t]} :
              phoebus_topics' = [phoebus_topics EXCEPT ![t] = rest]
        /\ UNCHANGED <<controls_topic, alarm_states>>
    BY <1>3, ReceiveEffect DEF caches
  <2>2. \E rest : /\ phoebus_topics' = [phoebus_topics EXCEPT ![t] = rest]
                  /\ EndOf(rest, phoebus_topics[t])
    <3>1. EndOf(Tail(phoebus_topics[t]), phoebus_topics[t]) /\ EndOf(phoebus_topics[t], phoebus_topics[t])
      BY <2>1, QueueEnds
    <3> QED BY <2>1, <3>1
  <2>3. msg = phoebus_topics[t][1] /\ 1 \in DOMAIN phoebus_topics[t]
    BY <2>1, TailHeld
  <2>4. RecordFits(msg, aim, S)
    BY <1>0, <2>3
  <2>5. \/ UNCHANGED monitors
        \/ \E new : /\ Becomes(t, new) /\ new.msg = msg
                    /\ \/ /\ msg.op = "Command" /\ Acknowledges(msg)
                          /\ new.pc = "rpc" /\ new.updated = Plain("Acknowledged")
                       \/ msg.op = "Config" /\ new.pc = "policy"
    BY <1>3, ReceiveEffect
  <2> HIDE DEF msg
  <2>6. ASSUME NEW new, Becomes(t, new), new.msg = msg,
               \/ /\ msg.op = "Command" /\ Acknowledges(msg)
                  /\ new.pc = "rpc" /\ new.updated = Plain("Acknowledged")
               \/ msg.op = "Config" /\ new.pc = "policy"
        PROVE  MonitorFits(new, aim, S)
    <3>1. CASE msg.op = "Config" /\ new.pc = "policy"
      BY <2>4, <2>6, <3>1 DEF MonitorFits
    <3>2. CASE /\ msg.op = "Command" /\ Acknowledges(msg)
               /\ new.pc = "rpc" /\ new.updated = Plain("Acknowledged")
      <4>1. Relays(msg) /\ Amount(msg) = Plain("Acknowledged")
        BY <3>2 DEF Relays, Amount, Acknowledges
      <4>2. Amount(msg) = aim[msg.device]
        BY <2>4, <4>1 DEF RecordFits
      <4> QED BY <2>4, <2>6, <3>2, <4>1, <4>2 DEF MonitorFits
    <3> QED BY <2>6, <3>1, <3>2
  <2>7. UNCHANGED monitors => Becomes(t, task)
    BY DEF Becomes
  <2> QED BY <1>b, <1>c, <1>e, <2>1, <2>2, <2>5, <2>6, <2>7
<1>4. CASE MonitorDecide(t)
  <2> DEFINE after == [task EXCEPT !.pc = "rpc",
                                   !.updated = as_cached_state(task.msg.enabled, now)]
             refreshed == [task EXCEPT !.pc = "update"]
  <2>1. UNCHANGED <<controls_topic, phoebus_topics, alarm_states>> /\ task.pc = "policy"
    BY <1>4 DEF MonitorDecide, topics, caches
  <2>2. \/ Becomes(t, MonitorAt("idle")) \/ Becomes(t, refreshed)
        \/ Becomes(t, after) /\ Normalizable(task.msg.enabled)
    BY <1>4 DEF MonitorDecide
  <2>3. /\ refreshed.pc = "update" /\ after.pc = "rpc" /\ after.msg = task.msg
        /\ after.updated = as_cached_state(task.msg.enabled, 0) /\ task.msg.op = "Config"
    BY <1>a, <2>1 DEF MonitorTask, ConfigMsg
  <2> HIDE DEF after, refreshed
  <2>4. MonitorFits(MonitorAt("idle"), aim, S) /\ MonitorFits(refreshed, aim, S)
    BY <1>d, <2>3 DEF MonitorAt
  <2>5. ASSUME Normalizable(task.msg.enabled)
        PROVE  MonitorFits(after, aim, S)
    <3>1. RecordFits(task.msg, aim, S)
      BY <1>e, <2>1 DEF MonitorFits
    <3>2. Relays(task.msg) /\ Amount(task.msg) = after.updated
      BY <2>3, <2>5 DEF Relays, Amount
    <3>3. Amount(task.msg) = aim[task.msg.device]
      BY <3>1, <3>2 DEF RecordFits
    <3> QED BY <2>3, <3>1, <3>2, <3>3 DEF MonitorFits
  <2> QED BY <1>b, <1>c, <2>1, <2>2, <2>4, <2>5
<1>5. CASE MonitorRpc(t)
  <2> DEFINE status == ServedStatus(task)
  <2>1. /\ task.pc = "rpc" /\ InHand(task) /\ status \in Status
        /\ from_status(status) = task.updated
        /\ UNCHANGED <<phoebus_topics, alarm_states>>
        /\ UNCHANGED controls_topic \/ controls_topic' = Append(controls_topic, status)
    BY <1>5, RpcEffect DEF caches
  <2>2. PICK new : /\ Becomes(t, new) /\ new.pc \in {"rpc", "record"}
                   /\ new.msg = task.msg /\ new.updated = task.updated
    BY <1>5, RpcEffect
  <2>3. /\ RecordFits(task.msg, aim, S) /\ Relays(task.msg)
        /\ task.updated = aim[task.msg.device] /\ task.msg.device \in Device
    BY <1>e, <2>1 DEF MonitorFits, InHand
  <2>4. MonitorFits(new, aim, S)
    BY <2>2, <2>3 DEF MonitorFits
  <2>5. CASE UNCHANGED controls_topic
    BY <1>b, <1>c, <2>1, <2>2, <2>4, <2>5
  <2>6. CASE controls_topic' = Append(controls_topic, status)
    <3>1. status.device = task.msg.device /\ status.hops = NextHop(task.msg.hops)
      BY DEF ServedStatus
    <3>2. from_status(status) \in Exact
      BY <2>1, <2>3
    <3> HIDE DEF status
    <3>3. Mirrorable(status) /\ Echo(status) = aim[status.device] /\ ~Stale(status, aim)
      BY <2>1, <2>3, <3>1, <3>2, ExactEchoes DEF Stale
    <3>4. task.msg.hops \in Int /\ NextHop(task.msg.hops) \in Int
          /\ NextHop(task.msg.hops) <= task.msg.hops + 1
      BY <2>1, NextHopBound DEF InHand, CommandMsg, ConfigMsg, Hops
    <3>5. StatusFits(status, aim, S)
      <4>1. Free \in Int
        BY DEF Free
      <4>2. CASE task.msg.hops < Free
        BY <3>1, <3>3, <3>4, <4>1, <4>2 DEF StatusFits
      <4>3. CASE task.msg.device \in S /\ task.msg.hops <= Free + 1
        BY <3>1, <3>3, <3>4, <4>1, <4>3 DEF StatusFits
      <4> QED BY <2>3, <4>2, <4>3 DEF RecordFits
    <3>6. /\ \A d : NoneStale(controls_topic, d, aim) => NoneStale(controls_topic', d, aim)
          /\ InOrder(controls_topic', aim)
      BY <1>0, <1>a, <2>1, <2>6, <3>3, AddedFits
    <3>7. S \subseteq N
      <4> SUFFICES ASSUME NEW d \in Device, d \in S PROVE d \in N
        BY ArrivedDevices, Zenon
      <4> QED BY <1>a, <2>1, <3>6, ArrivedMeans
    <3>8. /\ \A other : StatusFits(other, aim, S) => StatusFits(other, aim, N)
          /\ \A msg : RecordFits(msg, aim, S) => RecordFits(msg, aim, N)
          /\ \A held : MonitorFits(held, aim, S) => MonitorFits(held, aim, N)
      BY <3>7, FitsStay, Zenon
    <3>9. \A i \in DOMAIN controls_topic' : StatusFits(controls_topic'[i], aim, N)
      <4>1. \A i \in DOMAIN controls_topic' :
                \/ controls_topic'[i] = status
                \/ i \in DOMAIN controls_topic /\ controls_topic'[i] = controls_topic[i]
        BY <1>a, <2>1, <2>6, AppendHeld
      <4> QED BY <1>0, <3>5, <3>8, <4>1, Zenon
    <3>10. ControlsFits(controls_task', controls_topic', aim)
      BY <1>0, <1>a, <3>6 DEF ControlsFits
    <3>11. ASSUME NEW u \in MonitoredTopics
           PROVE  /\ \A i \in DOMAIN phoebus_topics'[u] : RecordFits(phoebus_topics'[u][i], aim, N)
                  /\ MonitorFits(monitors'[u], aim, N)
      <4>1. monitors'[u] = IF u = t THEN new ELSE monitors[u]
        BY <2>2 DEF Becomes
      <4> QED BY <1>0, <2>1, <2>4, <3>8, <4>1
    <3> QED BY <3>6, <3>9, <3>10, <3>11, LeadsParts, Zenon
  <2> QED BY <2>1, <2>5, <2>6
<1>6. CASE MonitorRecord(t)
  <2> DEFINE after == [task EXCEPT !.pc = "update", !.updated = None, !.attempt = 1]
  <2>1. /\ UNCHANGED <<controls_topic, phoebus_topics>> /\ task.pc = "record"
        /\ alarm_states' = [alarm_states EXCEPT ![task.msg.device] = task.updated]
        /\ Becomes(t, after) \/ Becomes(t, MonitorAt("idle"))
    BY <1>6 DEF MonitorRecord, record_alarm_state, topics
  <2>2. after.pc = "update"
    BY <1>a, <2>1 DEF MonitorTask
  <2>3. InHand(task) /\ task.updated = aim[task.msg.device]
    BY <1>a, <1>e, <2>1, InHandType DEF MonitorFits
  <2> HIDE DEF after
  <2>4. MonitorFits(MonitorAt("idle"), aim, S) /\ MonitorFits(after, aim, S)
    BY <1>d, <2>2 DEF MonitorAt
  <2>5. S \subseteq N
    <3> SUFFICES ASSUME NEW d \in Device, d \in S PROVE d \in N
      BY ArrivedDevices, Zenon
    <3>1. alarm_states'[d] = aim[d] \/ alarm_states'[d] = alarm_states[d]
      BY <2>1, <2>3 DEF InHand
    <3> QED BY <1>a, <2>1, <3>1, ArrivedMeans
  <2> QED BY <1>b, <2>1, <2>4, <2>5
<1> QED BY <1>1, <1>2, <1>3, <1>4, <1>5, <1>6 DEF RunMonitor, MonitorStep

\* With nothing under way, any aim will do: the operator's action sets the one
\* of its device.
LEMMA OperatorLeads ==
    ASSUME TypeOK, Quiet, OperatorActs, NEW aim \in [Device -> Exact]
    PROVE  \E aim2 \in [Device -> Exact] : Leads(aim2)'
<1> USE DEF TypeOK, ExternalTypeOK
<1>1. /\ controls_topic = <<>> /\ controls_task'.pc = "idle"
      /\ \A t \in MonitoredTopics : phoebus_topics[t] = <<>> /\ monitors'[t].pc = "idle"
  BY DEF Quiet, OperatorActs, OperatorTurn, tasks
<1>2. \A aim2, N : \A t \in MonitoredTopics : MonitorFits(monitors'[t], aim2, N)
  BY <1>1 DEF MonitorFits
<1>3. \A aim2 : ControlsFits(controls_task', controls_topic', aim2)
  BY <1>1 DEF ControlsFits
<1>4. ASSUME NEW status \in ControlsInputs, ControlsActs(status)
      PROVE  \E aim2 \in [Device -> Exact] : Leads(aim2)'
  <2> DEFINE aim2 == [aim EXCEPT ![status.device] = Echo(status)]
  <2>1. status \in Status /\ status.hops = 0 /\ status.device \in Device
    BY EnvironmentAssumption, ActionAssumption DEF Status
  <2>2. /\ aim2 \in [Device -> Exact] /\ aim2[status.device] = Echo(status)
    BY <2>1, EchoExact
  <2>3. /\ DOMAIN controls_topic' = {1} /\ controls_topic'[1] = status
        /\ UNCHANGED phoebus_topics
    BY <1>1, <1>4, <2>1 DEF ControlsActs, PublishStatus
  <2> HIDE DEF aim2
  <2>4. StatusFits(status, aim2, ArrivedNow(aim2)')
    <3>1. Mirrorable(status) /\ StatusesEchoed => ~Stale(status, aim2)
      BY <2>2 DEF StatusesEchoed, Mirrorable, Stale
    <3>2. Stale(status, aim2) => Mirrorable(status)
      BY DEF Stale
    <3> QED BY <2>1, <2>2, <3>1, <3>2 DEF StatusFits, Free
  <2>5. InOrder(controls_topic', aim2)
    BY <2>3 DEF InOrder
  <2>6. \A i \in DOMAIN controls_topic' :
            StatusFits(controls_topic'[i], aim2, ArrivedNow(aim2)')
    BY <2>3, <2>4
  <2>7. ASSUME NEW t \in MonitoredTopics
        PROVE  /\ \A i \in DOMAIN phoebus_topics'[t] :
                     RecordFits(phoebus_topics'[t][i], aim2, ArrivedNow(aim2)')
               /\ MonitorFits(monitors'[t], aim2, ArrivedNow(aim2)')
    <3>1. DOMAIN phoebus_topics'[t] = {}
      BY <1>1, <2>3
    <3>2. MonitorFits(monitors'[t], aim2, ArrivedNow(aim2)')
      BY <1>2, Zenon
    <3> QED BY <3>1, <3>2
  <2>8. Leads(aim2)'
    BY <1>3, <2>5, <2>6, <2>7, LeadsParts, Zenon
  <2> QED BY <2>2, <2>8
<1>5. ASSUME NEW input \in PhoebusInputs, PhoebusActs(input)
      PROVE  \E aim2 \in [Device -> Exact] : Leads(aim2)'
  <2> DEFINE msg == input[2]
             aim2 == IF Relays(msg) THEN [aim EXCEPT ![msg.device] = Amount(msg)] ELSE aim
  <2>1. input[1] \in MonitoredTopics /\ msg \in PhoebusMsg /\ msg.hops = 0
    BY EnvironmentAssumption, ActionAssumption
  <2>2. /\ UNCHANGED controls_topic
        /\ phoebus_topics' = [phoebus_topics EXCEPT ![input[1]] = Append(@, msg)]
    BY <1>5 DEF PhoebusActs, PublishPhoebus
  <2> HIDE DEF msg
  <2>3. aim2 \in [Device -> Exact] /\ (Relays(msg) => aim2[msg.device] = Amount(msg))
    BY <2>1, AmountExact
  <2> HIDE DEF aim2
  <2>4. RecordFits(msg, aim2, ArrivedNow(aim2)')
    BY <2>1, <2>3 DEF RecordFits, Free
  <2>5. ASSUME NEW t \in MonitoredTopics, NEW i \in DOMAIN phoebus_topics'[t]
        PROVE  RecordFits(phoebus_topics'[t][i], aim2, ArrivedNow(aim2)')
    <3>1. phoebus_topics'[t][i] = msg
      BY <1>1, <2>1, <2>2, <2>5
    <3> QED BY <2>4, <3>1
  <2>6. DOMAIN controls_topic' = {}
    BY <1>1, <2>2
  <2>7. InOrder(controls_topic', aim2)
    BY <2>6 DEF InOrder
  <2>8. Leads(aim2)'
    BY <1>2, <1>3, <2>5, <2>6, <2>7, LeadsParts, Zenon
  <2> QED BY <2>3, <2>8
<1> QED BY <1>4, <1>5 DEF OperatorActs

\* Reflected is inductive with the types and with the stillness at startup, for
\* operators who wait.
LEMMA ReflectedInductive ==
    Paced /\ TypeOK /\ TurnsAreTaken /\ Reflected /\ [Next]_vars => Reflected'
<1> SUFFICES ASSUME Paced, TypeOK, TurnsAreTaken, Reflected, [Next]_vars, now' = 0
             PROVE  \E aim \in [Device -> Exact] : Leads(aim)'
  BY DEF Reflected
<1>1. CASE ClockTicks
  <2>1. now \in Nat /\ now' = now + 1
    BY <1>1 DEF ClockTicks, Tick, TypeOK, ExternalTypeOK
  <2> QED BY <2>1
<1>2. CASE ~ClockTicks
  <2>1. now = 0
    <3>1. CASE RunControls
      BY <3>1 DEF RunControls, ControlsStep, ControlsSubscribe, ControlsStreamEnds,
                  ControlsReceive, ControlsDecide, ControlsPublish, ControlsRecord
    <3>2. CASE RunHydration
      BY <3>2 DEF RunHydration, HydrationStep, HydrationSnapshot, HydrationApply,
                  HydrationUpdate, HydrationNextTopic, HydrationDone, external
    <3>3. CASE \E t \in MonitoredTopics : RunMonitor(t)
      BY <3>3 DEF RunMonitor, MonitorStep, MonitorSubscribe, MonitorStreamEnds, MonitorReceive,
                  MonitorDecide, MonitorRpc, MonitorRecord, MonitorUpdate
    <3>4. CASE OperatorActs \/ Await \/ UNCHANGED vars
      BY <3>4 DEF OperatorActs, OperatorTurn, Await, vars, external
    <3> QED BY <1>2, <3>1, <3>2, <3>3, <3>4 DEF Next
  <2>2. PICK aim \in [Device -> Exact] : Leads(aim)
    BY <2>1 DEF Reflected
  <2>3. CASE RunControls
    BY <2>1, <2>2, <2>3, ControlsLeads
  <2>4. CASE \E t \in MonitoredTopics : RunMonitor(t)
    BY <2>1, <2>2, <2>4, MonitorLeads
  <2>5. CASE OperatorActs
    <3>1. Quiet
      BY <2>5 DEF OperatorActs, OperatorTurn
    <3> QED BY <2>2, <2>5, <3>1, OperatorLeads
  <2>6. CASE RunHydration
    <3>1. /\ hydration.pc # "done"
          /\ UNCHANGED <<controls_topic, phoebus_topics, controls_task, monitors>>
      BY <2>6 DEF RunHydration, HydrationStep, HydrationSnapshot, HydrationApply,
                  HydrationUpdate, HydrationNextTopic, HydrationDone, external, topics
    <3>2. /\ controls_topic' = <<>> /\ controls_task'.pc \in {"down", "idle"}
          /\ \A t \in MonitoredTopics : phoebus_topics'[t] = <<>> /\ monitors'[t].pc = "down"
      BY <3>1 DEF TurnsAreTaken, StillAtStartup
    <3>3. Leads(aim)'
      <4>1. InOrder(controls_topic', aim) /\ ControlsFits(controls_task', controls_topic', aim)
        BY <3>2 DEF InOrder, ControlsFits
      <4>2. \A t \in MonitoredTopics : MonitorFits(monitors'[t], aim, ArrivedNow(aim)')
        BY <3>2 DEF MonitorFits
      <4> QED BY <3>2, <4>1, <4>2, LeadsParts
    <3> QED BY <3>3
  <2>7. CASE Await \/ UNCHANGED vars
    <3>1. UNCHANGED <<alarm_states, controls_topic, phoebus_topics, controls_task, monitors>>
      BY <2>7 DEF Await, vars, caches, external, topics
    <3>2. Leads(aim)'
      BY <2>2, <3>1 DEF Leads
    <3> QED BY <3>2
  <2> QED BY <1>2, <2>3, <2>4, <2>5, <2>6, <2>7 DEF Next
<1> QED BY <1>1, <1>2

\* What an aim is led to by has not been mirrored more often than the bound.
LEMMA LeadsBounded ==
    ASSUME TypeOK, Reflected
    PROVE  ReflectionBounded
<1> USE DEF TypeOK, ExternalTypeOK
<1> DEFINE bound == IF StatusesEchoed THEN 3 ELSE 4
<1> SUFFICES ASSUME now = 0
             PROVE  /\ \A i \in DOMAIN controls_topic : controls_topic[i].hops <= bound
                    /\ \A t \in MonitoredTopics : \A i \in DOMAIN phoebus_topics[t] :
                          phoebus_topics[t][i].hops < bound
  BY DEF ReflectionBounded
<1>1. PICK aim \in [Device -> Exact] : Leads(aim)
  BY DEF Reflected
<1>2. bound = Free + 2 /\ Free \in {1, 2}
  BY DEF Free
<1> HIDE DEF bound
<1>3. ASSUME NEW i \in DOMAIN controls_topic
      PROVE  controls_topic[i].hops <= bound
  <2>1. StatusFits(controls_topic[i], aim, ArrivedNow(aim))
    BY <1>1, LeadsParts, Zenon
  <2>2. controls_topic[i] \in Status
    OBVIOUS
  <2>3. controls_topic[i].hops \in Int
    BY <2>2 DEF Status, Hops
  <2> QED BY <1>2, <2>1, <2>3 DEF StatusFits
<1>4. ASSUME NEW t \in MonitoredTopics, NEW i \in DOMAIN phoebus_topics[t]
      PROVE  phoebus_topics[t][i].hops < bound
  <2>1. RecordFits(phoebus_topics[t][i], aim, ArrivedNow(aim))
    BY <1>1, LeadsParts, Zenon
  <2>2. phoebus_topics[t][i] \in PhoebusMsg
    OBVIOUS
  <2>3. phoebus_topics[t][i].hops \in Int
    BY <2>2 DEF PhoebusMsg, CommandMsg, ConfigMsg, StateMsg, BadKeyMsg, Hops
  <2> QED BY <1>2, <2>1, <2>3 DEF RecordFits
<1> QED BY <1>3, <1>4

\* While operators act one at a time, there is one state for each device that
\* everything under way leads to, whatever is lost, delivered twice or fails.
THEOREM AimsKept ==
    ASSUME Paced
    PROVE  Spec => []Reflected
<1>1. Init => Reflected
  <2> SUFFICES ASSUME Init PROVE \E aim \in [Device -> Exact] : Leads(aim)
    BY DEF Reflected
  <2> DEFINE aim == [d \in Device |-> Plain("Unbypassed")]
  <2>1. aim \in [Device -> Exact]
    BY DEF Exact
  <2> HIDE DEF aim
  <2>2. /\ controls_topic = <<>> /\ controls_task.pc = "down"
        /\ \A t \in MonitoredTopics : phoebus_topics[t] = <<>> /\ monitors[t].pc = "down"
    BY DEF Init, ExternalInit, ControlsInit, ControlsAt, MonitorsInit, MonitorAt
  <2>3. InOrder(controls_topic, aim) /\ ControlsFits(controls_task, controls_topic, aim)
    BY <2>2 DEF InOrder, ControlsFits
  <2>4. \A t \in MonitoredTopics : MonitorFits(monitors[t], aim, ArrivedNow(aim))
    BY <2>2 DEF MonitorFits
  <2>5. Leads(aim)
    BY <2>2, <2>3, <2>4, LeadsParts
  <2> QED BY <2>1, <2>5
<1> QED BY <1>1, ReflectedInductive, TypeCorrect, TurnsTaken, PTL DEF Spec

\* While the clock stands still, an action is mirrored three times at most, or
\* four if a status may come back as another state.
THEOREM ReflectionsEnd ==
    ASSUME Paced
    PROVE  Spec => []ReflectionBounded
<1>1. TypeOK /\ Reflected => ReflectionBounded
  BY LeadsBounded
<1> QED BY <1>1, AimsKept, TypeCorrect, PTL

=============================================================================
