-------------------------- MODULE SynchronizerProofs -------------------------
(***************************************************************************)
(* Theorems about Synchronizer for every device, topic, record and bound.  *)
(***************************************************************************)
EXTENDS Synchronizer, TLAPS

-----------------------------------------------------------------------------
(* The operators the tasks are built from return what the next stage needs. *)

\* Every topic the program monitors is a well-formed name.
LEMMA TopicFacts ==
    /\ PhoebusTopics \subseteq Topic
    /\ MonitoredTopics \subseteq Topic
    /\ PhoebusTopics \subseteq MonitoredTopics
    /\ \A t \in Topic : get_command_topic(t) \in Topic /\ normalize_topic(t) \in Topic
<1>1. PhoebusTopics \subseteq Topic
  BY TopicAssumption DEF PhoebusTopics, Range, Topic
<1>2. \A t \in Topic : get_command_topic(t) \in Topic
  BY DEF Topic, get_command_topic
<1>3. \A t \in Topic : normalize_topic(t) \in Topic
  BY DEF Topic, normalize_topic
<1> QED BY <1>1, <1>2, <1>3 DEF MonitoredTopics

\* An enablement read from a config is a cached state: active, bypassed, or
\* bypassed until a time still to come.
LEMMA AsCachedStateType ==
    ASSUME NEW enabled \in Enablement, NEW t \in Nat
    PROVE  as_cached_state(enabled, t) \in CachedState
  BY TimeAssumption DEF Enablement, as_cached_state, CachedState, State, Wake, Plain

LEMMA FromStatusType ==
    ASSUME NEW status \in Status
    PROVE  from_status(status) \in CachedState
  BY DEF Status, from_status, CachedState

LEMMA SeverityType ==
    ASSUME NEW severity
    PROVE  Plain(severity_to_state(severity)) \in CachedState
  BY DEF severity_to_state, Plain, CachedState, State, Wake

LEMMA NextHopType ==
    ASSUME NEW hops \in Hops
    PROVE  NextHop(hops) \in Hops
  BY HopsAssumption DEF NextHop, Hops

\* What the Controls task publishes is a record the monitors understand.
LEMMA ControlsToPhoebusType ==
    ASSUME NEW status \in Status, NEW metadata \in PvMetadata,
           NEW operation \in {"Command", "Config"}
    PROVE  controls_to_phoebus(status, operation, metadata) \in PhoebusMsg
<1>1. NextHop(status.hops) \in Hops
  BY NextHopType DEF Status
<1>2. normalized_enablement_from_controls(status) \in Enablement
  BY DEF normalized_enablement_from_controls, Enablement, Status
<1>3. status.device \in Device /\ metadata.path \in Path /\ metadata.specific \in Specific
  BY DEF Status, PvMetadata
<1>4. CASE operation = "Command"
  BY <1>1, <1>3, <1>4 DEF controls_to_phoebus, PhoebusMsg, CommandMsg
<1>5. CASE operation = "Config"
  BY <1>1, <1>2, <1>3, <1>5 DEF controls_to_phoebus, PhoebusMsg, ConfigMsg
<1> QED BY <1>4, <1>5

\* A config handled for a device never seen before gets well-formed metadata.
LEMMA FromUnmappedType ==
    ASSUME NEW config \in ConfigMsg, NEW t \in MonitoredTopics
    PROVE  from_unmapped(config, t) \in PvMetadata
  BY TopicFacts, SpecificAssumption DEF from_unmapped, PvMetadata, ConfigMsg

\* Whoever publishes a Status or a Phoebus record keeps topics and views typed.
LEMMA PublishStatusType ==
    ASSUME TypeOK, NEW status \in Status, PublishStatus(status)
    PROVE  /\ controls_topic' \in Seq(Status)
           /\ controls_view' \in [Device -> Observation]
<1>1. from_status(status) \in Observation
  BY FromStatusType DEF Observation
<1>2. status.device \in Device
  BY DEF Status
<1>3. controls_topic' \in Seq(Status)
  BY DEF PublishStatus, TypeOK, ExternalTypeOK
<1>4. controls_view' \in [Device -> Observation]
  BY <1>1, <1>2 DEF PublishStatus, TypeOK, ExternalTypeOK
<1> QED BY <1>3, <1>4

\* The Controls service reports a served command as a well-formed Status.
LEMMA ServeCommandType ==
    ASSUME TypeOK, NEW device \in Device, NEW updated \in CachedState, NEW hops \in Hops,
           ServeCommand(device, updated, hops)
    PROVE  /\ controls_topic' \in Seq(Status)
           /\ controls_view' \in [Device -> Observation]
<1> DEFINE status == [parses |-> TRUE, source |-> "Epics", device |-> device,
                      state |-> updated.state, wake |-> updated.wake, hops |-> NextHop(hops)]
<1>1. status \in Status
  BY NextHopType DEF Status, CachedState
<1>2. PublishStatus(status)
  BY DEF ServeCommand
<1> QED BY <1>1, <1>2, PublishStatusType

LEMMA PublishPhoebusType ==
    ASSUME TypeOK, NEW msg \in PhoebusMsg, NEW t \in MonitoredTopics, PublishPhoebus(t, msg)
    PROVE  /\ phoebus_topics' \in [MonitoredTopics -> Seq(PhoebusMsg)]
           /\ phoebus_view' \in [Device -> Observation]
           /\ phoebus_specific' \in [MonitoredTopics -> [Device -> Specific \cup {None}]]
<1>1. phoebus_topics' \in [MonitoredTopics -> Seq(PhoebusMsg)]
  BY DEF PublishPhoebus, TypeOK, ExternalTypeOK
<1>2. CASE msg.op = "Config" /\ Normalizable(msg.enabled)
  <2>1. msg \in ConfigMsg
    BY <1>2 DEF PhoebusMsg, CommandMsg, StateMsg, BadKeyMsg
  <2>2. msg.device \in Device /\ msg.specific \in Specific /\ msg.enabled \in Enablement
    BY <2>1 DEF ConfigMsg
  <2>3. Shown(msg.enabled) \in Observation
    BY <1>2, <2>2 DEF Shown, Plain, Observation, CachedState, State, Wake, Enablement
  <2>4. phoebus_view' \in [Device -> Observation]
    BY <1>2, <2>2, <2>3 DEF PublishPhoebus, TypeOK, ExternalTypeOK
  <2>5. phoebus_specific' = [phoebus_specific EXCEPT ![t][msg.device] = msg.specific]
    BY <1>2 DEF PublishPhoebus
  <2>6. [phoebus_specific[t] EXCEPT ![msg.device] = msg.specific]
           \in [Device -> Specific \cup {None}]
    BY <2>2 DEF TypeOK, ExternalTypeOK
  <2>7. phoebus_specific' \in [MonitoredTopics -> [Device -> Specific \cup {None}]]
    BY <2>5, <2>6 DEF TypeOK, ExternalTypeOK
  <2> QED BY <1>1, <2>4, <2>7
<1>3. CASE ~(msg.op = "Config" /\ Normalizable(msg.enabled))
  BY <1>1, <1>3 DEF PublishPhoebus, TypeOK, ExternalTypeOK, phoebus_side
<1> QED BY <1>2, <1>3

\* A queue that lost or passed on records, or had one added, holds what it held
\* and the one added.
LEMMA FromHeld ==
    ASSUME NEW S, NEW queue \in Seq(S), NEW n \in 1 .. Len(queue) + 1
    PROVE  \A i \in DOMAIN From(queue, n) : \E j \in DOMAIN queue : From(queue, n)[i] = queue[j]
<1>1. /\ Len(From(queue, n)) = Len(queue) - n + 1
      /\ \A i \in 1 .. Len(queue) - n + 1 : From(queue, n)[i] = queue[i + n - 1]
  BY DEF From
<1>2. DOMAIN From(queue, n) = 1 .. Len(queue) - n + 1
  BY <1>1 DEF From
<1>3. \A i \in 1 .. Len(queue) - n + 1 : i + n - 1 \in DOMAIN queue
  OBVIOUS
<1> QED BY <1>1, <1>2, <1>3

LEMMA TailHeld ==
    ASSUME NEW S, NEW queue \in Seq(S), queue # <<>>
    PROVE  /\ Head(queue) = queue[1] /\ 1 \in DOMAIN queue
           /\ \A i \in DOMAIN Tail(queue) : \E j \in DOMAIN queue : Tail(queue)[i] = queue[j]
<1>1. /\ Len(Tail(queue)) = Len(queue) - 1
      /\ \A i \in 1 .. Len(queue) - 1 : Tail(queue)[i] = queue[i + 1]
      /\ DOMAIN Tail(queue) = 1 .. Len(queue) - 1
  OBVIOUS
<1>2. \A i \in 1 .. Len(queue) - 1 : i + 1 \in DOMAIN queue
  OBVIOUS
<1> QED BY <1>1, <1>2

LEMMA AppendHeld ==
    ASSUME NEW S, NEW queue \in Seq(S), NEW e \in S
    PROVE  \A i \in DOMAIN Append(queue, e) :
               \/ Append(queue, e)[i] = e
               \/ i \in DOMAIN queue /\ Append(queue, e)[i] = queue[i]
  OBVIOUS

-----------------------------------------------------------------------------
(* Each task keeps every variable typed.                                   *)

LEMMA ControlsTypes ==
    ASSUME TypeOK, RunControls
    PROVE  TypeOK'
<1> USE DEF TypeOK, CachesTypeOK, ExternalTypeOK
<1> SUFFICES ASSUME ControlsStep PROVE TypeOK'
  BY DEF RunControls
<1>0. UNCHANGED <<monitors, hydration>>
  BY DEF RunControls
<1>a. UNCHANGED <<monitors, hydration>> => MonitorsTypeOK' /\ HydrationTypeOK'
  BY DEF MonitorsTypeOK, HydrationTypeOK
<1>b. faults' \in Nat
  BY DEF ControlsStep, ControlsSubscribe, ControlsStreamEnds, ControlsReceive, ControlsDecide,
         ControlsPublish, ControlsRecord, ResumeAt, TakenFrom, NoFault, Fault
<1>1. CASE ControlsSubscribe
  <2>1. controls_topic' \in Seq(Status)
    BY <1>1 DEF ControlsSubscribe, From
  <2>2. ControlsTypeOK'
    BY <1>1 DEF ControlsSubscribe, ControlsTypeOK, ControlsAt, ControlsTask
  <2> QED BY <1>0, <1>a, <1>b, <1>1, <2>1, <2>2 DEF ControlsSubscribe, caches, views, phoebus_side
<1>2. CASE ControlsStreamEnds
  <2>1. ControlsTypeOK'
    BY <1>2 DEF ControlsStreamEnds, ControlsTypeOK, ControlsAt, ControlsTask
  <2> QED BY <1>0, <1>a, <1>b, <1>2, <2>1
          DEF ControlsStreamEnds, caches, views, phoebus_side, topics
<1>3. CASE ControlsReceive
  <2>a. Head(controls_topic) \in Status /\ Tail(controls_topic) \in Seq(Status)
    BY <1>3 DEF ControlsReceive
  <2>1. Head(controls_topic) \in Status /\ controls_topic' \in Seq(Status)
    BY <1>3, <2>a DEF ControlsReceive
  <2>2. alarm_states[Head(controls_topic).device] \in Observation
    BY <2>1 DEF Status
  <2>3. ControlsTypeOK'
    BY <1>3, <2>1, <2>2 DEF ControlsReceive, ControlsTypeOK, ControlsTask
  <2> QED BY <1>0, <1>a, <1>b, <1>3, <2>1, <2>3
          DEF ControlsReceive, caches, views, phoebus_side
<1>4. CASE ControlsDecide
  <2> DEFINE alarm == controls_task.alarm
  <2>1. alarm \in Status
    BY <1>4 DEF ControlsDecide, ControlsTypeOK, ControlsTask
  <2>2. metadata_cache[alarm.device] \in PvMetadata \cup {None}
    BY <2>1 DEF Status
  <2>3. CASE SyncsToPhoebus(alarm, controls_task.observed, metadata_cache[alarm.device])
    <3>1. metadata_cache[alarm.device] \in PvMetadata
      BY <2>2, <2>3 DEF SyncsToPhoebus
    <3>2. alarm \in Mirrored
      BY <2>1, <2>3 DEF SyncsToPhoebus, Mirrored, state_to_operation
    <3> QED BY <1>0, <1>a, <1>b, <1>4, <2>3, <3>1, <3>2
            DEF ControlsDecide, ControlsTypeOK, ControlsTask, caches, views, phoebus_side, topics
  <2>4. CASE ~SyncsToPhoebus(alarm, controls_task.observed, metadata_cache[alarm.device])
    BY <1>0, <1>a, <1>b, <1>4, <2>4
       DEF ControlsDecide, ControlsTypeOK, ControlsTask, ControlsAt, caches, views,
           phoebus_side, topics
  <2> QED BY <2>3, <2>4
<1>5. CASE ControlsPublish
  <2>1. /\ controls_task.alarm \in Mirrored
        /\ controls_task.metadata \in PvMetadata
    BY <1>5 DEF ControlsPublish, ControlsTypeOK, ControlsTask
  <2>2. controls_to_phoebus(controls_task.alarm, state_to_operation(controls_task.alarm.state),
                            controls_task.metadata) \in PhoebusMsg
    BY <2>1, ControlsToPhoebusType DEF Mirrored
  <2>3. ControlsTypeOK'
    BY <1>5 DEF ControlsPublish, ControlsTypeOK, ControlsTask
  <2>4. /\ phoebus_topics' \in [MonitoredTopics -> Seq(PhoebusMsg)]
        /\ phoebus_view' \in [Device -> Observation]
        /\ phoebus_specific' \in [MonitoredTopics -> [Device -> Specific \cup {None}]]
    BY <1>5, <2>2, PublishPhoebusType DEF ControlsPublish, phoebus_side
  <2> QED BY <1>0, <1>a, <1>b, <1>5, <2>3, <2>4 DEF ControlsPublish, caches
<1>6. CASE ControlsRecord
  <2>1. from_status(controls_task.alarm) \in Observation
    BY <1>6, FromStatusType DEF ControlsRecord, ControlsTypeOK, ControlsTask, Mirrored, Observation
  <2>2. alarm_states' \in [Device -> Observation]
    BY <1>6, <2>1 DEF ControlsRecord, record_alarm_state
  <2>3. ControlsTypeOK'
    BY <1>6 DEF ControlsRecord, ControlsTypeOK, ControlsAt, ControlsTask
  <2> QED BY <1>0, <1>a, <1>b, <1>6, <2>2, <2>3 DEF ControlsRecord, views, phoebus_side, topics
<1> QED BY <1>1, <1>2, <1>3, <1>4, <1>5, <1>6 DEF ControlsStep

LEMMA HydrationTypes ==
    ASSUME TypeOK, RunHydration
    PROVE  TypeOK'
<1> USE DEF TypeOK, CachesTypeOK, ExternalTypeOK
<1>0. HydrationStep /\ UNCHANGED <<controls_task, monitors>>
  BY DEF RunHydration
<1>a. ControlsTypeOK' /\ MonitorsTypeOK'
  BY <1>0 DEF ControlsTypeOK, MonitorsTypeOK
<1>b. faults' \in Nat
  BY <1>0 DEF HydrationStep, HydrationSnapshot, HydrationApply, HydrationUpdate,
              HydrationNextTopic, HydrationDone, NoFault, Fault
<1>1. CASE HydrationSnapshot
  <2>1. Head(hydration.todo) \in PhoebusTopics
    BY <1>1 DEF HydrationSnapshot, HydrationTypeOK, Hydration
  <2>2. retained[Head(hydration.todo)] \o phoebus_topics[Head(hydration.todo)] \in Seq(PhoebusMsg)
    BY <2>1, TopicFacts
  <2>3. PICK messages \in Seq(PhoebusMsg) :
          hydration' = [hydration EXCEPT !.pc = "apply", !.messages = messages]
    <3>1. <<>> \in Seq(PhoebusMsg)
      OBVIOUS
    <3> QED BY <1>1, <2>2, <3>1 DEF HydrationSnapshot
  <2>4. HydrationTypeOK'
    BY <1>1, <2>3 DEF HydrationSnapshot, HydrationTypeOK, Hydration
  <2> QED BY <1>a, <1>b, <1>1, <2>4 DEF HydrationSnapshot, caches, views, phoebus_side, topics
<1>2. CASE HydrationApply
  <2> DEFINE msg == Head(hydration.messages)
  <2>1. msg \in PhoebusMsg /\ Tail(hydration.messages) \in Seq(PhoebusMsg)
    BY <1>2 DEF HydrationApply, HydrationTypeOK, Hydration
  <2>2. CASE msg.op = "Config" /\ Normalizable(msg.enabled)
    <3>1. msg \in ConfigMsg
      BY <2>1, <2>2 DEF PhoebusMsg, CommandMsg, StateMsg, BadKeyMsg
    <3>2. msg.device \in Device /\ as_cached_state(msg.enabled, now) \in Observation
      BY <3>1, AsCachedStateType DEF ConfigMsg, Observation
    <3>3. alarm_states' \in [Device -> Observation]
      BY <1>2, <2>2, <3>2 DEF HydrationApply, record_alarm_state
    <3>4. HydrationTypeOK'
      BY <1>2, <2>2, <3>1 DEF HydrationApply, HydrationTypeOK, Hydration
    <3> QED BY <1>a, <1>b, <1>2, <3>3, <3>4 DEF HydrationApply, views, phoebus_side, topics
  <2>3. CASE msg.op = "State" /\ msg.severity # "NONE"
    <3>1. msg.device \in Device
      BY <2>1, <2>3 DEF PhoebusMsg, CommandMsg, ConfigMsg, StateMsg, BadKeyMsg
    <3>2. Plain(severity_to_state(msg.severity)) \in Observation
      BY SeverityType DEF Observation
    <3>3. alarm_states' \in [Device -> Observation]
      BY <1>2, <2>3, <3>1, <3>2
         DEF HydrationApply, record_startup_state_evidence, record_alarm_state
    <3>4. HydrationTypeOK'
      BY <1>2, <2>1, <2>3 DEF HydrationApply, HydrationTypeOK, Hydration
    <3> QED BY <1>a, <1>b, <1>2, <3>3, <3>4 DEF HydrationApply, views, phoebus_side, topics
  <2>4. CASE /\ ~(msg.op = "Config" /\ Normalizable(msg.enabled))
             /\ ~(msg.op = "State" /\ msg.severity # "NONE")
    <3>1. HydrationTypeOK'
      BY <1>2, <2>1, <2>4 DEF HydrationApply, HydrationTypeOK, Hydration
    <3>2. UNCHANGED alarm_states
      BY <1>2, <2>4 DEF HydrationApply
    <3> QED BY <1>a, <1>b, <1>2, <3>1, <3>2 DEF HydrationApply, views, phoebus_side, topics
  <2> QED BY <2>2, <2>3, <2>4
<1>3. CASE HydrationUpdate
  <2> DEFINE config == Head(hydration.messages)
  <2>1. config \in ConfigMsg /\ Tail(hydration.messages) \in Seq(PhoebusMsg)
    BY <1>3 DEF HydrationUpdate, HydrationTypeOK, Hydration
  <2>2. Head(hydration.todo) \in Topic
    BY <1>3, TopicFacts DEF HydrationUpdate, HydrationTypeOK, Hydration
  <2>3. [specific |-> config.specific, path |-> config.path,
         topic |-> Head(hydration.todo)] \in PvMetadata
    BY <2>1, <2>2 DEF ConfigMsg, PvMetadata
  <2>4. config.device \in Device
    BY <2>1 DEF ConfigMsg
  <2>5. metadata_cache' \in [Device -> PvMetadata \cup {None}]
    BY <1>3, <2>3, <2>4 DEF HydrationUpdate, update_cached_metadata
  <2>6. HydrationTypeOK'
    BY <1>3, <2>1 DEF HydrationUpdate, HydrationTypeOK, Hydration
  <2> QED BY <1>a, <1>b, <1>3, <2>5, <2>6 DEF HydrationUpdate, views, phoebus_side, topics
<1>4. CASE HydrationNextTopic
  <2>1. Tail(hydration.todo) \in Seq(PhoebusTopics)
    BY <1>4 DEF HydrationNextTopic, HydrationTypeOK, Hydration
  <2>2. HydrationTypeOK'
    BY <1>4, <2>1 DEF HydrationNextTopic, HydrationTypeOK, Hydration
  <2> QED BY <1>a, <1>b, <1>4, <2>2 DEF HydrationNextTopic, caches, views, phoebus_side, topics
<1>5. CASE HydrationDone
  <2>1. HydrationTypeOK'
    BY <1>5 DEF HydrationDone, HydrationTypeOK, Hydration
  <2> QED BY <1>a, <1>b, <1>5, <2>1 DEF HydrationDone, caches, views, phoebus_side, topics
<1> QED BY <1>0, <1>1, <1>2, <1>3, <1>4, <1>5 DEF HydrationStep

LEMMA MonitorTypes ==
    ASSUME TypeOK, NEW t \in MonitoredTopics, RunMonitor(t)
    PROVE  TypeOK'
<1> USE DEF TypeOK, CachesTypeOK, ExternalTypeOK
<1> DEFINE task == monitors[t]
<1>0. MonitorStep(t) /\ UNCHANGED <<controls_task, hydration>>
  BY DEF RunMonitor
<1>a. ControlsTypeOK' /\ HydrationTypeOK'
  BY <1>0 DEF ControlsTypeOK, HydrationTypeOK
<1>b. faults' \in Nat
  BY <1>0 DEF MonitorStep, MonitorSubscribe, MonitorStreamEnds, MonitorReceive, MonitorDecide,
              MonitorRpc, MonitorRecord, MonitorUpdate, ResumeAt, TakenFrom, NoFault, Fault
<1>c. task \in MonitorTask
  BY DEF MonitorsTypeOK
<1>d. ASSUME NEW new \in MonitorTask, Becomes(t, new)
      PROVE  MonitorsTypeOK'
  BY <1>d DEF MonitorsTypeOK, Becomes
<1>e. MonitorAt("idle") \in MonitorTask /\ MonitorAt("down") \in MonitorTask
  BY DEF MonitorAt, MonitorTask
<1>1. CASE MonitorSubscribe(t)
  <2>1. phoebus_topics' \in [MonitoredTopics -> Seq(PhoebusMsg)]
    BY <1>1 DEF MonitorSubscribe, From
  <2>2. MonitorsTypeOK'
    BY <1>1, <1>d, <1>e DEF MonitorSubscribe
  <2> QED BY <1>a, <1>b, <1>1, <2>1, <2>2 DEF MonitorSubscribe, caches, views, phoebus_side
<1>2. CASE MonitorStreamEnds(t)
  <2>1. MonitorsTypeOK'
    BY <1>2, <1>d, <1>e DEF MonitorStreamEnds
  <2> QED BY <1>a, <1>b, <1>2, <2>1 DEF MonitorStreamEnds, caches, views, phoebus_side, topics
<1>3. CASE MonitorReceive(t)
  <2> DEFINE msg == Head(phoebus_topics[t])
  <2>1. msg \in PhoebusMsg /\ Tail(phoebus_topics[t]) \in Seq(PhoebusMsg)
    BY <1>3 DEF MonitorReceive
  <2>2. phoebus_topics' \in [MonitoredTopics -> Seq(PhoebusMsg)]
    BY <1>3, <2>1 DEF MonitorReceive
  <2>3. MonitorReceives(t, msg)
    BY <1>3 DEF MonitorReceive
  <2> HIDE DEF msg
  <2>4. ASSUME msg.op = "Command", Acknowledges(msg)
        PROVE  MonitorsTypeOK'
    <3>1. msg \in CommandMsg
      BY <2>1, <2>4 DEF PhoebusMsg, ConfigMsg, StateMsg, BadKeyMsg
    <3>2. Plain("Acknowledged") \in CachedState
      BY DEF Plain, CachedState, State, Wake
    <3>3. [pc |-> "rpc", msg |-> msg, metadata |-> None, updated |-> Plain("Acknowledged"),
           attempt |-> 1] \in MonitorTask
      BY <3>1, <3>2 DEF MonitorTask
    <3> QED BY <2>3, <2>4, <3>3, <1>d DEF MonitorReceives
  <2>5. ASSUME msg.op = "Config", msg.enabled.kind # "NotJson"
        PROVE  MonitorsTypeOK'
    <3>1. msg \in ConfigMsg
      BY <2>1, <2>5 DEF PhoebusMsg, CommandMsg, StateMsg, BadKeyMsg
    <3>2. msg.device \in Device
      BY <3>1 DEF ConfigMsg
    <3>3. get_pv_metadata(msg, t) \in PvMetadata
      BY <3>1, <3>2, FromUnmappedType DEF get_pv_metadata
    <3>4. [pc |-> "policy", msg |-> msg, metadata |-> get_pv_metadata(msg, t),
           updated |-> None, attempt |-> 1] \in MonitorTask
      BY <3>1, <3>3 DEF MonitorTask
    <3> QED BY <2>3, <2>5, <3>4, <1>d DEF MonitorReceives
  <2>6. ASSUME ~(msg.op = "Command" /\ Acknowledges(msg)),
               ~(msg.op = "Config" /\ msg.enabled.kind # "NotJson")
        PROVE  MonitorsTypeOK'
    BY <2>3, <2>6 DEF MonitorReceives, MonitorsTypeOK
  <2>7. MonitorsTypeOK'
    BY <2>4, <2>5, <2>6
  <2> QED BY <1>a, <1>b, <1>3, <2>2, <2>7 DEF MonitorReceive, caches, views, phoebus_side
<1>4. CASE MonitorDecide(t)
  <2>1. task \in [pc : {"policy", "update"}, msg : ConfigMsg, metadata : PvMetadata,
                  updated : {None}, attempt : {1}]
    BY <1>4, <1>c DEF MonitorDecide, MonitorTask
  <2>2. as_cached_state(task.msg.enabled, now) \in CachedState
    BY <2>1, AsCachedStateType DEF ConfigMsg
  <2>3. [task EXCEPT !.pc = "update"] \in MonitorTask
    BY <2>1 DEF MonitorTask
  <2>4. [task EXCEPT !.pc = "rpc", !.updated = as_cached_state(task.msg.enabled, now)]
           \in MonitorTask
    BY <2>1, <2>2 DEF MonitorTask
  <2>5. MonitorsTypeOK'
    BY <1>4, <1>d, <1>e, <2>3, <2>4 DEF MonitorDecide
  <2> QED BY <1>a, <1>b, <1>4, <2>5 DEF MonitorDecide, caches, views, phoebus_side, topics
<1>5. CASE MonitorRpc(t)
  <2>1. /\ task.msg \in CommandMsg \cup ConfigMsg
        /\ task.updated \in CachedState
        /\ [task EXCEPT !.pc = "record"] \in MonitorTask
        /\ [task EXCEPT !.attempt = 2] \in MonitorTask
    BY <1>5, <1>c DEF MonitorRpc, MonitorTask
  <2>2. task.msg.device \in Device /\ task.msg.hops \in Hops
    BY <2>1 DEF CommandMsg, ConfigMsg
  <2>3. controls_topic' \in Seq(Status) /\ controls_view' \in [Device -> Observation]
    BY <1>5, <2>1, <2>2, ServeCommandType DEF MonitorRpc
  <2>4. MonitorsTypeOK'
    BY <1>5, <1>d, <2>1 DEF MonitorRpc
  <2> QED BY <1>a, <1>b, <1>5, <2>3, <2>4 DEF MonitorRpc, caches, views, phoebus_side
<1>6. CASE MonitorRecord(t)
  <2>1. /\ task.msg \in CommandMsg \cup ConfigMsg
        /\ task.updated \in CachedState
        /\ task.msg.op = "Config" =>
              [task EXCEPT !.pc = "update", !.updated = None, !.attempt = 1] \in MonitorTask
    BY <1>6, <1>c DEF MonitorRecord, MonitorTask, CommandMsg
  <2>2. task.msg.device \in Device
    BY <2>1 DEF CommandMsg, ConfigMsg
  <2>3. alarm_states' \in [Device -> Observation]
    BY <1>6, <2>1, <2>2 DEF MonitorRecord, record_alarm_state, Observation
  <2>4. MonitorsTypeOK'
    BY <1>6, <1>d, <1>e, <2>1 DEF MonitorRecord
  <2> QED BY <1>a, <1>b, <1>6, <2>3, <2>4 DEF MonitorRecord, views, phoebus_side, topics
<1>7. CASE MonitorUpdate(t)
  <2>1. task.msg \in ConfigMsg /\ task.metadata \in PvMetadata
    BY <1>7, <1>c DEF MonitorUpdate, MonitorTask
  <2>2. /\ task.msg.device \in Device
        /\ [task.metadata EXCEPT !.specific = task.msg.specific] \in PvMetadata
    BY <2>1 DEF ConfigMsg, PvMetadata
  <2>3. metadata_cache' \in [Device -> PvMetadata \cup {None}]
    BY <1>7, <2>2 DEF MonitorUpdate, update_cached_metadata
  <2>4. MonitorsTypeOK'
    BY <1>7, <1>d, <1>e DEF MonitorUpdate
  <2> QED BY <1>a, <1>b, <1>7, <2>3, <2>4 DEF MonitorUpdate, views, phoebus_side, topics
<1> QED BY <1>0, <1>1, <1>2, <1>3, <1>4, <1>5, <1>6, <1>7 DEF MonitorStep

LEMMA OperatorTypes ==
    ASSUME TypeOK, OperatorActs
    PROVE  TypeOK'
<1> USE DEF TypeOK, CachesTypeOK, ExternalTypeOK
<1>1. /\ actions' \in Nat
      /\ UNCHANGED <<caches, retained, now, faults, tasks>>
  BY DEF OperatorActs, OperatorTurn
<1>2. ControlsTypeOK' /\ MonitorsTypeOK' /\ HydrationTypeOK'
  BY <1>1 DEF tasks, ControlsTypeOK, MonitorsTypeOK, HydrationTypeOK
<1>3. ASSUME NEW status \in ControlsInputs, ControlsActs(status) PROVE TypeOK'
  <2>1. /\ controls_topic' \in Seq(Status) /\ controls_view' \in [Device -> Observation]
        /\ UNCHANGED <<phoebus_topics, phoebus_side>>
    BY <1>3, PublishStatusType, EnvironmentAssumption DEF ControlsActs
  <2> QED BY <1>1, <1>2, <2>1 DEF caches, phoebus_side
<1>4. ASSUME NEW input \in PhoebusInputs, PhoebusActs(input) PROVE TypeOK'
  <2>1. /\ PublishPhoebus(input[1], input[2])
        /\ UNCHANGED <<controls_topic, controls_view>>
    BY <1>4 DEF PhoebusActs
  <2>2. input[1] \in MonitoredTopics /\ input[2] \in PhoebusMsg
    BY EnvironmentAssumption
  <2>3. /\ phoebus_topics' \in [MonitoredTopics -> Seq(PhoebusMsg)]
        /\ phoebus_view' \in [Device -> Observation]
        /\ phoebus_specific' \in [MonitoredTopics -> [Device -> Specific \cup {None}]]
    BY <2>1, <2>2, PublishPhoebusType
  <2> QED BY <1>1, <1>2, <2>1, <2>3 DEF caches
<1> QED BY <1>3, <1>4 DEF OperatorActs

\* Type correctness.  TypeOK is inductive as it stands, because the sets of task
\* states say what each stage holds.
LEMMA TypesKept == TypeOK /\ [Next]_vars => TypeOK'
<1> SUFFICES ASSUME TypeOK, [Next]_vars PROVE TypeOK'
  OBVIOUS
<1>1. CASE ClockTicks
  BY <1>1 DEF ClockTicks, Tick, TypeOK, CachesTypeOK, ExternalTypeOK, ControlsTypeOK,
              MonitorsTypeOK, HydrationTypeOK, caches, tasks, topics, views, phoebus_side
<1>2. CASE UNCHANGED vars
  BY <1>2 DEF vars, TypeOK, CachesTypeOK, ExternalTypeOK, ControlsTypeOK, MonitorsTypeOK,
              HydrationTypeOK, caches, external, topics, views, phoebus_side
<1>3. CASE Await
  BY <1>2, <1>3 DEF Await
<1> QED BY <1>1, <1>2, <1>3, ControlsTypes, HydrationTypes, MonitorTypes, OperatorTypes
        DEF Next

\* Every variable keeps the shape the tasks rely on.
THEOREM TypeCorrect == Spec => []TypeOK
<1>1. Init => TypeOK
  <2> SUFFICES ASSUME Init PROVE TypeOK
    OBVIOUS
  <2>1. CachesTypeOK
    BY DEF Init, CachesInit, CachesTypeOK, Observation
  <2>2. ExternalTypeOK
    BY EnvironmentAssumption DEF Init, ExternalInit, ExternalTypeOK
  <2>3. ControlsTypeOK
    BY DEF Init, ControlsInit, ControlsTypeOK, ControlsAt, ControlsTask
  <2>4. MonitorsTypeOK
    BY DEF Init, MonitorsInit, MonitorsTypeOK, MonitorAt, MonitorTask
  <2>5. HydrationTypeOK
    <3>1. TopicSeq \in Seq(PhoebusTopics)
      BY TopicAssumption DEF PhoebusTopics, Range
    <3>2. <<>> \in Seq(PhoebusMsg)
      OBVIOUS
    <3> QED BY <3>1, <3>2 DEF Init, HydrationInit, HydrationTypeOK, Hydration
  <2> QED BY <2>1, <2>2, <2>3, <2>4, <2>5 DEF TypeOK
<1> QED BY <1>1, TypesKept, PTL DEF Spec

-----------------------------------------------------------------------------
(* A device in scope has an observed state.                                *)

\* What a step may do to the observed states: nothing, or record one state.
LEMMA StateWrites ==
    ASSUME TypeOK, [Next]_vars
    PROVE  \/ UNCHANGED alarm_states
           \/ \E d \in Device, u \in CachedState :
                 alarm_states' = [alarm_states EXCEPT ![d] = u]
<1>1. CASE RunControls
  <2>1. ControlsRecord \/ UNCHANGED alarm_states
    BY <1>1 DEF RunControls, ControlsStep, ControlsSubscribe, ControlsStreamEnds,
                ControlsReceive, ControlsDecide, ControlsPublish, caches
  <2>2. ASSUME ControlsRecord
        PROVE  /\ controls_task.alarm.device \in Device
               /\ from_status(controls_task.alarm) \in CachedState
    BY <2>2, FromStatusType
       DEF ControlsRecord, TypeOK, ControlsTypeOK, ControlsTask, Mirrored, Status
  <2> QED BY <2>1, <2>2 DEF ControlsRecord, record_alarm_state
<1>2. CASE RunHydration
  <2> DEFINE msg == Head(hydration.messages)
  <2>1. HydrationApply \/ UNCHANGED alarm_states
    BY <1>2 DEF RunHydration, HydrationStep, HydrationSnapshot, HydrationUpdate,
                HydrationNextTopic, HydrationDone, caches
  <2>2. ASSUME HydrationApply, msg.op = "Config", Normalizable(msg.enabled)
        PROVE  /\ msg.device \in Device
               /\ as_cached_state(msg.enabled, now) \in CachedState
    <3>1. msg \in ConfigMsg
      BY <2>2 DEF HydrationApply, TypeOK, HydrationTypeOK, Hydration, PhoebusMsg, CommandMsg,
                  StateMsg, BadKeyMsg
    <3> QED BY <3>1, AsCachedStateType DEF ConfigMsg, TypeOK, ExternalTypeOK
  <2>3. ASSUME HydrationApply, msg.op = "State"
        PROVE  msg.device \in Device
    BY <2>3 DEF HydrationApply, TypeOK, HydrationTypeOK, Hydration, PhoebusMsg, CommandMsg,
                ConfigMsg, StateMsg, BadKeyMsg
  <2> QED BY <2>1, <2>2, <2>3, SeverityType
          DEF HydrationApply, record_alarm_state, record_startup_state_evidence
<1>3. ASSUME NEW t \in MonitoredTopics, RunMonitor(t)
      PROVE  \/ UNCHANGED alarm_states
             \/ \E d \in Device, u \in CachedState :
                   alarm_states' = [alarm_states EXCEPT ![d] = u]
  <2>1. MonitorRecord(t) \/ UNCHANGED alarm_states
    BY <1>3 DEF RunMonitor, MonitorStep, MonitorSubscribe, MonitorStreamEnds, MonitorReceive,
                MonitorDecide, MonitorRpc, MonitorUpdate, caches
  <2>2. ASSUME MonitorRecord(t)
        PROVE  monitors[t].msg.device \in Device /\ monitors[t].updated \in CachedState
    BY <2>2 DEF MonitorRecord, TypeOK, MonitorsTypeOK, MonitorTask, CommandMsg, ConfigMsg
  <2> QED BY <2>1, <2>2 DEF MonitorRecord, record_alarm_state
<1>4. CASE OperatorActs \/ ClockTicks \/ Await \/ UNCHANGED vars
  BY <1>4 DEF OperatorActs, OperatorTurn, ClockTicks, Await, vars, caches
<1> QED BY <1>1, <1>2, <1>3, <1>4 DEF Next

\* No observed state is ever forgotten.
LEMMA ObservedStays ==
    ASSUME TypeOK, [Next]_vars, NEW d \in Device, alarm_states[d] # None
    PROVE  alarm_states'[d] # None
  BY StateWrites, NoneAssumption DEF TypeOK, CachesTypeOK

\* ScopeInvariant with the types it needs is inductive.
LEMMA ScopeInductive == TypeOK /\ ScopeInvariant /\ [Next]_vars => ScopeInvariant'
<1> SUFFICES ASSUME TypeOK, ScopeInvariant, [Next]_vars PROVE ScopeInvariant'
  OBVIOUS
<1> DEFINE Obs(d) == alarm_states[d] # None
           Scoped == \A d \in Device : metadata_cache[d] # None => Obs(d)
           Monitored == \A t \in MonitoredTopics :
                           monitors[t].pc = "update" => Obs(monitors[t].msg.device)
           Hydrating == hydration.pc = "update" => Obs(Head(hydration.messages).device)
<1>0. /\ Scoped /\ Monitored /\ Hydrating
      /\ ScopeInvariant' <=> Scoped' /\ Monitored' /\ Hydrating'
  BY DEF ScopeInvariant, ScopeImpliesObserved
<1>a. \A d \in Device : Obs(d) => Obs(d)'
  BY ObservedStays
<1>b. ASSUME UNCHANGED metadata_cache PROVE Scoped'
  BY <1>0, <1>a, <1>b
<1>c. ASSUME NEW t \in MonitoredTopics, monitors[t].pc = "update"
      PROVE  monitors[t].msg.device \in Device
  BY <1>c DEF TypeOK, MonitorsTypeOK, MonitorTask, ConfigMsg
<1>d. ASSUME hydration.pc = "update"
      PROVE  Head(hydration.messages).device \in Device
  BY <1>d DEF TypeOK, HydrationTypeOK, ConfigMsg
<1>e. ASSUME UNCHANGED monitors PROVE Monitored'
  BY <1>0, <1>a, <1>c, <1>e
<1>f. ASSUME UNCHANGED hydration PROVE Hydrating'
  BY <1>0, <1>a, <1>d, <1>f
<1>1. CASE RunControls
  <2>1. UNCHANGED <<metadata_cache, monitors, hydration>>
    BY <1>1 DEF RunControls, ControlsStep, ControlsSubscribe, ControlsStreamEnds,
                ControlsReceive, ControlsDecide, ControlsPublish, ControlsRecord, caches
  <2> QED BY <2>1, <1>0, <1>b, <1>e, <1>f
<1>2. CASE RunHydration
  <2> DEFINE msg == Head(hydration.messages)
  <2>1. UNCHANGED monitors
    BY <1>2 DEF RunHydration
  <2>2. CASE HydrationUpdate
    <3>1. Obs(msg.device) /\ msg.device \in Device
      BY <1>0, <1>d, <2>2 DEF HydrationUpdate
    <3>2. Scoped'
      BY <1>0, <2>2, <3>1
         DEF HydrationUpdate, update_cached_metadata, TypeOK, CachesTypeOK
    <3>3. Hydrating'
      BY <2>2 DEF HydrationUpdate, TypeOK, HydrationTypeOK, Hydration
    <3> QED BY <1>0, <1>e, <2>1, <3>2, <3>3
  <2>3. CASE HydrationApply
    <3>1. UNCHANGED metadata_cache
      BY <2>3 DEF HydrationApply
    <3>2. ASSUME msg.op = "Config", Normalizable(msg.enabled)
          PROVE  Hydrating'
      <4>1. msg \in ConfigMsg
        BY <2>3, <3>2 DEF HydrationApply, TypeOK, HydrationTypeOK, Hydration, PhoebusMsg,
                          CommandMsg, StateMsg, BadKeyMsg
      <4>2. msg.device \in Device /\ as_cached_state(msg.enabled, now) # None
        BY <4>1, AsCachedStateType, NoneAssumption DEF ConfigMsg, TypeOK, ExternalTypeOK
      <4>3. alarm_states' = [alarm_states EXCEPT ![msg.device] = as_cached_state(msg.enabled, now)]
        BY <2>3, <3>2 DEF HydrationApply, record_alarm_state
      <4>4. alarm_states'[msg.device] # None
        BY <4>2, <4>3 DEF TypeOK, CachesTypeOK
      <4>5. hydration'.messages = hydration.messages
        BY <2>3, <3>2 DEF HydrationApply, TypeOK, HydrationTypeOK, Hydration
      <4> QED BY <4>4, <4>5
    <3>3. ASSUME ~(msg.op = "Config" /\ Normalizable(msg.enabled))
          PROVE  Hydrating'
      BY <2>3, <3>3 DEF HydrationApply, TypeOK, HydrationTypeOK, Hydration
    <3> QED BY <1>0, <1>b, <1>e, <2>1, <3>1, <3>2, <3>3
  <2>4. CASE HydrationSnapshot \/ HydrationNextTopic \/ HydrationDone
    <3>1. UNCHANGED metadata_cache
      BY <2>4 DEF HydrationSnapshot, HydrationNextTopic, HydrationDone, caches
    <3>2. Hydrating'
      BY <2>4 DEF HydrationSnapshot, HydrationNextTopic, HydrationDone, TypeOK,
                  HydrationTypeOK, Hydration
    <3> QED BY <1>0, <1>b, <1>e, <2>1, <3>1, <3>2
  <2> QED BY <1>2, <2>2, <2>3, <2>4 DEF RunHydration, HydrationStep
<1>3. ASSUME NEW t \in MonitoredTopics, RunMonitor(t)
      PROVE  ScopeInvariant'
  <2> DEFINE task == monitors[t]
  <2>1. Hydrating'
    BY <1>3, <1>f DEF RunMonitor
  <2>2. task \in MonitorTask
    BY DEF TypeOK, MonitorsTypeOK
  <2>3. ASSUME NEW new, Becomes(t, new), new.pc = "update" => alarm_states'[new.msg.device] # None
        PROVE  Monitored'
    BY <1>0, <1>a, <1>c, <2>3 DEF Becomes, TypeOK, MonitorsTypeOK
  <2>4. MonitorAt("idle").pc = "idle" /\ MonitorAt("down").pc = "down"
    BY DEF MonitorAt
  <2>5. CASE MonitorSubscribe(t) \/ MonitorStreamEnds(t)
    <3>1. UNCHANGED metadata_cache /\ Monitored'
      BY <2>3, <2>4, <2>5 DEF MonitorSubscribe, MonitorStreamEnds, caches
    <3> QED BY <1>0, <1>b, <2>1, <3>1
  <2>6. CASE MonitorReceive(t)
    <3>1. UNCHANGED metadata_cache
      BY <2>6 DEF MonitorReceive, caches
    <3>2. Monitored'
      BY <1>e, <2>3, <2>6 DEF MonitorReceive, MonitorReceives
    <3> QED BY <1>0, <1>b, <2>1, <3>1, <3>2
  <2>7. CASE MonitorDecide(t)
    <3>1. UNCHANGED metadata_cache
      BY <2>7 DEF MonitorDecide, caches
    <3>2. task.msg.device \in Device
      BY <2>2, <2>7 DEF MonitorDecide, MonitorTask, ConfigMsg
    <3>3. suppresses_incoming(alarm_states[task.msg.device],
                              as_cached_state(task.msg.enabled, now))
            => alarm_states'[task.msg.device] # None
      BY <1>a, <3>2 DEF suppresses_incoming
    <3>a. task \in [pc : {"policy", "update"}, msg : ConfigMsg, metadata : PvMetadata,
                    updated : {None}, attempt : {1}]
      BY <2>2, <2>7 DEF MonitorDecide, MonitorTask
    <3>4. /\ [task EXCEPT !.pc = "update"].msg = task.msg
          /\ [task EXCEPT !.pc = "rpc",
                          !.updated = as_cached_state(task.msg.enabled, now)].pc = "rpc"
      BY <3>a
    <3>5. Monitored'
      BY <2>3, <2>4, <2>7, <3>3, <3>4 DEF MonitorDecide
    <3> QED BY <1>0, <1>b, <2>1, <3>1, <3>5
  <2>8. CASE MonitorRpc(t)
    <3>1. UNCHANGED metadata_cache
      BY <2>8 DEF MonitorRpc, caches
    <3>a. \E msgs, metas : task \in [pc : {"rpc", "record"}, msg : msgs, metadata : metas,
                                   updated : CachedState, attempt : {1, 2}]
      BY <2>2, <2>8 DEF MonitorRpc, MonitorTask
    <3>2. /\ [task EXCEPT !.pc = "record"].pc = "record"
          /\ [task EXCEPT !.attempt = 2].pc = "rpc"
      BY <2>8, <3>a DEF MonitorRpc
    <3>3. Monitored'
      BY <2>3, <2>8, <3>2 DEF MonitorRpc
    <3> QED BY <1>0, <1>b, <2>1, <3>1, <3>3
  <2>9. CASE MonitorRecord(t)
    <3>1. UNCHANGED metadata_cache
      BY <2>9 DEF MonitorRecord
    <3>2. task.msg.device \in Device /\ task.updated # None
      BY <2>2, <2>9, NoneAssumption DEF MonitorRecord, MonitorTask, CommandMsg, ConfigMsg
    <3>3. alarm_states'[task.msg.device] # None
      BY <2>9, <3>2 DEF MonitorRecord, record_alarm_state, TypeOK, CachesTypeOK
    <3>a. \E msgs, metas : task \in [pc : {"rpc", "record"}, msg : msgs, metadata : metas,
                                   updated : CachedState, attempt : {1, 2}]
      BY <2>2, <2>9 DEF MonitorRecord, MonitorTask
    <3>4. [task EXCEPT !.pc = "update", !.updated = None, !.attempt = 1].msg = task.msg
      BY <3>a
    <3>5. Monitored'
      BY <2>3, <2>4, <2>9, <3>3, <3>4 DEF MonitorRecord
    <3> QED BY <1>0, <1>b, <2>1, <3>1, <3>5
  <2>10. CASE MonitorUpdate(t)
    <3>1. Obs(task.msg.device) /\ task.msg.device \in Device
      BY <1>0, <1>c, <2>10 DEF MonitorUpdate
    <3>2. Scoped'
      BY <1>0, <2>10, <3>1 DEF MonitorUpdate, update_cached_metadata, TypeOK, CachesTypeOK
    <3>3. Monitored'
      BY <2>3, <2>4, <2>10 DEF MonitorUpdate
    <3> QED BY <1>0, <2>1, <3>2, <3>3
  <2> QED BY <1>3, <2>5, <2>6, <2>7, <2>8, <2>9, <2>10 DEF RunMonitor, MonitorStep
<1>4. CASE OperatorActs \/ ClockTicks \/ Await \/ UNCHANGED vars
  <2>1. UNCHANGED <<metadata_cache, monitors, hydration>>
    BY <1>4 DEF OperatorActs, OperatorTurn, ClockTicks, Await, vars, caches, tasks
  <2> QED BY <2>1, <1>0, <1>b, <1>e, <1>f
<1> QED BY <1>1, <1>2, <1>3, <1>4 DEF Next

\* Whoever is about to bring a device into scope has recorded its state, and no
\* interleaving of hydration, monitors and Controls task takes that state away.
THEOREM ScopeKept == Spec => []ScopeInvariant
<1>1. Init => ScopeInvariant
  BY DEF Init, CachesInit, MonitorsInit, MonitorAt, HydrationInit, ScopeInvariant,
         ScopeImpliesObserved
<1> QED BY <1>1, TypeCorrect, ScopeInductive, PTL DEF Spec

\* A decision never finds a device in scope without an observed state, whatever
\* the order in which hydration, monitors and Controls task take the locks.
THEOREM ScopeObserved == Spec => []ScopeImpliesObserved
<1>1. ScopeInvariant => ScopeImpliesObserved
  BY DEF ScopeInvariant
<1> QED BY <1>1, ScopeKept, PTL

-----------------------------------------------------------------------------
(* Recording.                                                              *)

\* The Controls task leaves its outbound stages by recording.
LEMMA ControlsStepRecords ==
    ASSUME TypeOK, RunControls
    PROVE  ControlsRecords
<1> SUFFICES ASSUME controls_task.pc \in {"publish", "record"},
                    controls_task'.pc \notin {"publish", "record"}
             PROVE  alarm_states'[controls_task.alarm.device] = from_status(controls_task.alarm)
  BY DEF ControlsRecords
<1>1. controls_task \in [pc : {"publish", "record"}, alarm : Mirrored, observed : {None},
                         metadata : PvMetadata]
  BY DEF TypeOK, ControlsTypeOK, ControlsTask
<1>2. controls_task.alarm.device \in Device
  BY <1>1 DEF Mirrored, Status
<1>3. ~ControlsPublish
  <2> SUFFICES ASSUME ControlsPublish PROVE FALSE
    OBVIOUS
  <2>1. controls_task' = [controls_task EXCEPT !.pc = "record"]
    BY DEF ControlsPublish
  <2> QED BY <1>1, <2>1
<1>4. ControlsRecord
  BY <1>3 DEF RunControls, ControlsStep, ControlsSubscribe, ControlsStreamEnds,
              ControlsReceive, ControlsDecide
<1> QED BY <1>2, <1>4 DEF ControlsRecord, record_alarm_state, TypeOK, CachesTypeOK

\* A monitor leaves its call stages by recording.
LEMMA MonitorStepRecords ==
    ASSUME TypeOK, NEW t \in MonitoredTopics, MonitorStep(t)
    PROVE  MonitorRecords(t)
<1> DEFINE task == monitors[t]
<1> SUFFICES ASSUME task.pc \in {"rpc", "record"}, monitors'[t].pc \notin {"rpc", "record"}
             PROVE  alarm_states'[task.msg.device] = task.updated
  BY DEF MonitorRecords
<1>1. \E msgs, metas : task \in [pc : {"rpc", "record"}, msg : msgs, metadata : metas,
                                 updated : CachedState, attempt : {1, 2}]
  BY DEF TypeOK, MonitorsTypeOK, MonitorTask
<1>2. task.msg.device \in Device
  BY DEF TypeOK, MonitorsTypeOK, MonitorTask, CommandMsg, ConfigMsg
<1>3. ~MonitorRpc(t)
  <2> SUFFICES ASSUME MonitorRpc(t) PROVE FALSE
    OBVIOUS
  <2>1. \/ Becomes(t, [task EXCEPT !.pc = "record"])
        \/ Becomes(t, [task EXCEPT !.attempt = 2])
    BY DEF MonitorRpc
  <2>2. /\ [task EXCEPT !.pc = "record"].pc = "record"
        /\ [task EXCEPT !.attempt = 2].pc = task.pc
    BY <1>1
  <2> QED BY <2>1, <2>2 DEF Becomes, TypeOK, MonitorsTypeOK
<1>4. MonitorRecord(t)
  BY <1>3 DEF MonitorStep, MonitorSubscribe, MonitorStreamEnds, MonitorReceive, MonitorDecide,
              MonitorUpdate
<1> QED BY <1>2, <1>4 DEF MonitorRecord, record_alarm_state, TypeOK, CachesTypeOK

\* Every step records what it gives up.
LEMMA StepRecords ==
    TypeOK /\ [Next]_vars
        => [ControlsRecords /\ \A t \in MonitoredTopics : MonitorRecords(t)]_vars
<1> SUFFICES ASSUME TypeOK, Next
             PROVE  ControlsRecords /\ \A t \in MonitoredTopics : MonitorRecords(t)
  OBVIOUS
<1>a. ASSUME UNCHANGED controls_task PROVE ControlsRecords
  BY <1>a DEF ControlsRecords
<1>b. ASSUME NEW t \in MonitoredTopics, monitors'[t] = monitors[t] PROVE MonitorRecords(t)
  BY <1>b DEF MonitorRecords
<1>1. CASE RunControls
  BY <1>1, <1>b, ControlsStepRecords DEF RunControls
<1>2. CASE RunHydration
  BY <1>2, <1>a, <1>b DEF RunHydration
<1>3. ASSUME NEW t \in MonitoredTopics, RunMonitor(t)
      PROVE  ControlsRecords /\ \A u \in MonitoredTopics : MonitorRecords(u)
  <2>1. MonitorRecords(t)
    BY <1>3, MonitorStepRecords DEF RunMonitor
  <2>2. ASSUME NEW u \in MonitoredTopics, u # t PROVE monitors'[u] = monitors[u]
    BY <1>3, <2>2 DEF RunMonitor, MonitorStep, MonitorSubscribe, MonitorStreamEnds,
          MonitorReceive, MonitorReceives, MonitorDecide, MonitorRpc, MonitorRecord,
          MonitorUpdate, Becomes, TypeOK, MonitorsTypeOK
  <2> QED BY <1>3, <1>a, <1>b, <2>1, <2>2 DEF RunMonitor
<1>4. CASE OperatorActs \/ ClockTicks \/ Await
  BY <1>4, <1>a, <1>b DEF OperatorActs, OperatorTurn, ClockTicks, Await, vars, tasks
<1> QED BY <1>1, <1>2, <1>3, <1>4 DEF Next

\* Failed publishes, failed calls and missing publishers notwithstanding, no task
\* drops a state it has decided to mirror without recording it.
THEOREM Recorded == Spec => RecordsDespiteFailure
  BY TypeCorrect, StepRecords, PTL DEF Spec, RecordsDespiteFailure

-----------------------------------------------------------------------------
(* Routing.                                                                *)

\* What a monitor finds in the cache, or makes up, names a configured topic.
LEMMA FetchedTopic ==
    ASSUME TypeOK, RoutableInvariant, WellNamedTopics, NEW t \in MonitoredTopics,
           NEW config \in ConfigMsg
    PROVE  get_pv_metadata(config, t).topic \in PhoebusTopics
  BY DEF RoutableInvariant, WellNamedTopics, get_pv_metadata, from_unmapped, ConfigMsg

\* RoutableInvariant with the types it needs is inductive.
LEMMA RoutableInductive ==
    ASSUME WellNamedTopics
    PROVE  TypeOK /\ RoutableInvariant /\ [Next]_vars => RoutableInvariant'
<1> SUFFICES ASSUME TypeOK, RoutableInvariant, [Next]_vars PROVE RoutableInvariant'
  OBVIOUS
<1> DEFINE Cached == \A d \in Device :
                        metadata_cache[d] # None => metadata_cache[d].topic \in PhoebusTopics
           Held == \A t \in MonitoredTopics :
                      monitors[t].metadata # None => monitors[t].metadata.topic \in PhoebusTopics
<1>0. /\ Cached /\ Held
      /\ RoutableInvariant' <=> Cached' /\ Held'
  BY DEF RoutableInvariant
<1>a. ASSUME UNCHANGED metadata_cache PROVE Cached'
  BY <1>0, <1>a
<1>b. ASSUME UNCHANGED monitors PROVE Held'
  BY <1>0, <1>b
<1>c. ASSUME NEW device, NEW metadata, update_cached_metadata(device, metadata),
             metadata.topic \in PhoebusTopics
      PROVE  Cached'
  BY <1>0, <1>c DEF update_cached_metadata, TypeOK, CachesTypeOK
<1>1. CASE RunControls \/ OperatorActs \/ ClockTicks \/ Await \/ UNCHANGED vars
  <2>1. UNCHANGED <<metadata_cache, monitors>>
    BY <1>1 DEF RunControls, ControlsStep, ControlsSubscribe, ControlsStreamEnds,
                ControlsReceive, ControlsDecide, ControlsPublish, ControlsRecord,
                OperatorActs, OperatorTurn, ClockTicks, Await, vars, caches, tasks
  <2> QED BY <2>1, <1>0, <1>a, <1>b
<1>2. CASE RunHydration
  <2>1. Held'
    BY <1>2, <1>b DEF RunHydration
  <2>2. CASE HydrationUpdate
    <3>1. Head(hydration.todo) \in PhoebusTopics
      BY <2>2 DEF HydrationUpdate, TypeOK, HydrationTypeOK, Hydration
    <3> QED BY <1>0, <1>c, <2>1, <2>2, <3>1 DEF HydrationUpdate
  <2>3. CASE HydrationSnapshot \/ HydrationApply \/ HydrationNextTopic \/ HydrationDone
    <3>1. UNCHANGED metadata_cache
      BY <2>3 DEF HydrationSnapshot, HydrationApply, HydrationNextTopic, HydrationDone, caches
    <3> QED BY <1>0, <1>a, <2>1, <3>1
  <2> QED BY <1>2, <2>2, <2>3 DEF RunHydration, HydrationStep
<1>3. ASSUME NEW t \in MonitoredTopics, RunMonitor(t)
      PROVE  RoutableInvariant'
  <2> DEFINE task == monitors[t]
  <2>1. task \in MonitorTask
    BY DEF TypeOK, MonitorsTypeOK
  <2>2. ASSUME NEW new, Becomes(t, new),
               new.metadata # None => new.metadata.topic \in PhoebusTopics
        PROVE  Held'
    BY <1>0, <2>2 DEF Becomes, TypeOK, MonitorsTypeOK
  <2>3. \A pc : MonitorAt(pc).metadata = None
    BY DEF MonitorAt
  <2>4. CASE MonitorSubscribe(t) \/ MonitorStreamEnds(t)
    <3>1. UNCHANGED metadata_cache /\ Held'
      BY <2>2, <2>3, <2>4 DEF MonitorSubscribe, MonitorStreamEnds, caches
    <3> QED BY <1>0, <1>a, <3>1
  <2>5. CASE MonitorReceive(t)
    <3> DEFINE msg == Head(phoebus_topics[t])
    <3>1. UNCHANGED metadata_cache
      BY <2>5 DEF MonitorReceive, caches
    <3>2. msg \in PhoebusMsg
      BY <2>5 DEF MonitorReceive, TypeOK, ExternalTypeOK
    <3>3. CASE msg.op = "Command"
      BY <1>0, <1>a, <1>b, <2>2, <2>5, <3>1, <3>3 DEF MonitorReceive, MonitorReceives
    <3>4. CASE msg.op = "Config"
      <4>1. msg \in ConfigMsg
        BY <3>2, <3>4 DEF PhoebusMsg, CommandMsg, StateMsg, BadKeyMsg
      <4>2. get_pv_metadata(msg, t).topic \in PhoebusTopics
        BY <4>1, FetchedTopic
      <4>3. Held'
        BY <1>b, <2>2, <2>5, <3>4, <4>2 DEF MonitorReceive, MonitorReceives
      <4> QED BY <1>0, <1>a, <3>1, <4>3
    <3>5. CASE msg.op \in {"State", "BadKey"}
      BY <1>0, <1>a, <1>b, <2>5, <3>1, <3>5 DEF MonitorReceive, MonitorReceives
    <3> QED BY <2>5, <3>3, <3>4, <3>5 DEF MonitorReceive, MonitorReceives
  <2>6. CASE MonitorDecide(t) \/ MonitorRpc(t) \/ MonitorRecord(t)
    <3>1. UNCHANGED metadata_cache
      BY <2>6 DEF MonitorDecide, MonitorRpc, MonitorRecord, caches
    <3>2. monitors'[t].metadata \in {task.metadata, None}
      <4>1. \/ Becomes(t, MonitorAt("idle"))
            \/ Becomes(t, [task EXCEPT !.pc = "update"])
            \/ Becomes(t, [task EXCEPT !.pc = "rpc",
                                       !.updated = as_cached_state(task.msg.enabled, now)])
            \/ Becomes(t, [task EXCEPT !.pc = "record"])
            \/ Becomes(t, [task EXCEPT !.attempt = 2])
            \/ Becomes(t, [task EXCEPT !.pc = "update", !.updated = None, !.attempt = 1])
        BY <2>6 DEF MonitorDecide, MonitorRpc, MonitorRecord
      <4>2. /\ [task EXCEPT !.pc = "update"].metadata = task.metadata
            /\ [task EXCEPT !.pc = "rpc",
                            !.updated = as_cached_state(task.msg.enabled, now)].metadata
                  = task.metadata
            /\ [task EXCEPT !.pc = "record"].metadata = task.metadata
            /\ [task EXCEPT !.attempt = 2].metadata = task.metadata
            /\ [task EXCEPT !.pc = "update", !.updated = None, !.attempt = 1].metadata
                  = task.metadata
        BY <2>1 DEF MonitorTask
      <4>3. ASSUME NEW new, Becomes(t, new) PROVE monitors'[t] = new
        BY <4>3 DEF Becomes, TypeOK, MonitorsTypeOK
      <4> QED BY <4>1, <4>2, <4>3, <2>3
    <3>3. ASSUME NEW u \in MonitoredTopics, u # t PROVE monitors'[u] = monitors[u]
      BY <2>6, <3>3 DEF MonitorDecide, MonitorRpc, MonitorRecord, Becomes, TypeOK, MonitorsTypeOK
    <3>4. Held'
      BY <1>0, <3>2, <3>3
    <3> QED BY <1>0, <1>a, <3>1, <3>4
  <2>7. CASE MonitorUpdate(t)
    <3>1. task \in [pc : {"policy", "update"}, msg : ConfigMsg, metadata : PvMetadata,
                    updated : {None}, attempt : {1}]
      BY <2>1, <2>7 DEF MonitorUpdate, MonitorTask
    <3>2. task.metadata # None /\ task.metadata \in PvMetadata
      BY <3>1, NoneAssumption
    <3>3. [task.metadata EXCEPT !.specific = task.msg.specific].topic = task.metadata.topic
      BY <3>2 DEF PvMetadata
    <3>4. Cached'
      BY <1>0, <1>c, <2>7, <3>2, <3>3 DEF MonitorUpdate
    <3>5. Held'
      BY <2>2, <2>3, <2>7 DEF MonitorUpdate
    <3> QED BY <1>0, <3>4, <3>5
  <2> QED BY <1>3, <2>4, <2>5, <2>6, <2>7 DEF RunMonitor, MonitorStep
<1> QED BY <1>1, <1>2, <1>3 DEF Next

LEMMA RoutableKept ==
    ASSUME WellNamedTopics
    PROVE  Spec => []RoutableInvariant
<1>1. Init => RoutableInvariant
  BY DEF Init, CachesInit, MonitorsInit, MonitorAt, RoutableInvariant
<1> QED BY <1>1, TypeCorrect, RoutableInductive, PTL DEF Spec

\* With well-named topics no mirrored action is skipped for want of a publisher.
THEOREM AlwaysRoutable ==
    ASSUME WellNamedTopics
    PROVE  Spec => []Routable
<1>1. RoutableInvariant => Routable
  BY DEF RoutableInvariant, Routable, MonitoredTopics
<1> QED BY <1>1, RoutableKept, PTL

=============================================================================
