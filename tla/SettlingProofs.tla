--------------------------- MODULE SettlingProofs ----------------------------
(***************************************************************************)
(* Until something fails, what the two systems and the program know of a   *)
(* device in scope is what was last asked for, or the update that makes it *)
(* so is under way: for every set of devices, topics, logs and records.    *)
(***************************************************************************)
EXTENDS Settling, MirroringProofs, UnderwayProofs, SequenceTheorems

-----------------------------------------------------------------------------
(* What queues hold.                                                       *)

\* Read from its start, a queue is itself.
LEMMA FromStart ==
    ASSUME NEW S, NEW queue \in Seq(S)
    PROVE  From(queue, 1) = queue
  BY SubSeqFull DEF From

LEMMA ConfigsForDef ==
    ASSUME NEW records, NEW d
    PROVE  /\ ConfigsFor(records, d) = {i \in DOMAIN records : Configures(records[i], d)}
           /\ ConfigsFor(records, d) # {} <=> \E i \in DOMAIN records : Configures(records[i], d)
  BY DEF ConfigsFor, Configures

\* A queue holds its head and what its tail holds.
LEMMA HeadAndTail ==
    ASSUME NEW S, NEW queue \in Seq(S), queue # <<>>
    PROVE  /\ Head(queue) = queue[1] /\ 1 \in DOMAIN queue
           /\ \A i \in DOMAIN queue :
                 i = 1 \/ (i - 1 \in DOMAIN Tail(queue) /\ Tail(queue)[i - 1] = queue[i])
           /\ \A i \in DOMAIN Tail(queue) :
                 i + 1 \in DOMAIN queue /\ i # 0 /\ Tail(queue)[i] = queue[i + 1]
<1>1. /\ Len(Tail(queue)) = Len(queue) - 1 /\ Len(queue) \in Nat
      /\ \A i \in 1 .. Len(queue) - 1 : Tail(queue)[i] = queue[i + 1]
      /\ DOMAIN Tail(queue) = 1 .. Len(queue) - 1 /\ DOMAIN queue = 1 .. Len(queue)
  OBVIOUS
<1>2. Head(queue) = queue[1] /\ 1 \in DOMAIN queue
  OBVIOUS
<1> QED BY <1>1, <1>2

LEMMA TailConfigures ==
    ASSUME NEW queue \in Seq(PhoebusMsg), queue # <<>>, NEW d
    PROVE  ConfigsFor(queue, d) # {}
               <=> Configures(Head(queue), d) \/ ConfigsFor(Tail(queue), d) # {}
<1>1. (\E i \in DOMAIN queue : Configures(queue[i], d))
          <=> Configures(Head(queue), d) \/ \E i \in DOMAIN Tail(queue) : Configures(Tail(queue)[i], d)
  BY HeadAndTail, Zenon
<1> QED BY <1>1, ConfigsForDef

LEMMA AppendConfigures ==
    ASSUME NEW queue \in Seq(PhoebusMsg), NEW msg \in PhoebusMsg, NEW d
    PROVE  ConfigsFor(Append(queue, msg), d) # {}
               <=> Configures(msg, d) \/ ConfigsFor(queue, d) # {}
<1>1. /\ DOMAIN Append(queue, msg) = DOMAIN queue \cup {Len(queue) + 1}
      /\ Append(queue, msg)[Len(queue) + 1] = msg
      /\ \A i \in DOMAIN queue : Append(queue, msg)[i] = queue[i]
  OBVIOUS
<1>2. (\E i \in DOMAIN Append(queue, msg) : Configures(Append(queue, msg)[i], d))
          <=> Configures(msg, d) \/ \E i \in DOMAIN queue : Configures(queue[i], d)
  BY <1>1, Zenon
<1> QED BY <1>2, ConfigsForDef

\* The same for the statuses of a queue.
Waits(queue, d) == \E i \in DOMAIN queue : Enables(queue[i], d)

LEMMA TailEnables ==
    ASSUME NEW queue \in Seq(Status), queue # <<>>, NEW d
    PROVE  Waits(queue, d) <=> Enables(Head(queue), d) \/ Waits(Tail(queue), d)
  BY HeadAndTail, Zenon DEF Waits

LEMMA AppendEnables ==
    ASSUME NEW queue \in Seq(Status), NEW status \in Status, NEW d
    PROVE  Waits(Append(queue, status), d) <=> Enables(status, d) \/ Waits(queue, d)
<1>1. /\ DOMAIN Append(queue, status) = DOMAIN queue \cup {Len(queue) + 1}
      /\ Append(queue, status)[Len(queue) + 1] = status
      /\ \A i \in DOMAIN queue : Append(queue, status)[i] = queue[i]
  OBVIOUS
<1> QED BY <1>1, Zenon DEF Waits

\* What is published to mirror an enablement is one, for the same device.
LEMMA MirroredConfigures ==
    ASSUME NEW status \in Mirrored, NEW metadata, NEW d
    PROVE  LET msg == controls_to_phoebus(status, state_to_operation(status.state), metadata) IN
           /\ Configures(msg, d) <=> Enables(status, d)
           /\ Configures(msg, d) => msg.enabled = normalized_enablement_from_controls(status)
<1>1. status.state \in {"Acknowledged", "Bypassed", "Unbypassed"}
  BY NoneAssumption DEF Mirrored, state_to_operation
<1>2. Normalizable(normalized_enablement_from_controls(status))
  BY DEF normalized_enablement_from_controls, Normalizable
<1>3. CASE status.state = "Acknowledged"
  BY <1>3 DEF state_to_operation, controls_to_phoebus, Configures, Enables, IsEnablement
<1>4. CASE status.state \in {"Bypassed", "Unbypassed"}
  BY <1>2, <1>4 DEF state_to_operation, controls_to_phoebus, Configures, Enables, IsEnablement
<1> QED BY <1>1, <1>3, <1>4

LEMMA ServedEnables ==
    ASSUME NEW task \in MonitorTask, task.pc \in {"rpc", "record"}, HoldsItsKind(task), NEW d
    PROVE  Enables(ServedStatus(task), d) <=> Configures(task.msg, d)
<1>1. task.msg.op \in {"Command", "Config"}
  BY DEF MonitorTask, CommandMsg, ConfigMsg
<1>2. CASE task.msg.op = "Command"
  BY <1>2 DEF HoldsItsKind, ServedStatus, Plain, Enables, IsEnablement, Configures
<1>3. CASE task.msg.op = "Config"
  BY <1>3 DEF HoldsItsKind, ServedStatus, Enables, Configures
<1> QED BY <1>1, <1>2, <1>3

\* While an acknowledgement is under way, no enablement is.
LEMMA NothingEnabled ==
    ASSUME OnlyKind("acknowledgement"), NEW d
    PROVE  /\ ~StatusWaits(d) /\ ~ControlsHolds(d, {"lookup", "publish", "record"})
           /\ ~RecordWaits(d) /\ ~MonitorHolds(d, {"policy", "rpc", "record"})
<1>1. ASSUME NEW status, Enables(status, d) PROVE StatusKind(status) = "enablement"
  BY <1>1 DEF Enables, StatusKind, IsEnablement
<1>2. ASSUME NEW msg, Configures(msg, d) PROVE RecordKind(msg) = "enablement"
  BY <1>2 DEF Configures, RecordKind
<1>3. ~StatusWaits(d)
  BY <1>1 DEF OnlyKind, StatusesOf, StatusWaits
<1>4. ~ControlsHolds(d, {"lookup", "publish", "record"})
  BY <1>1 DEF OnlyKind, ControlsTaskOf, ControlsHolds
<1>5. ~RecordWaits(d)
  BY <1>2, ConfigsForDef DEF OnlyKind, RecordsOf, RecordWaits
<1>6. ~MonitorHolds(d, {"policy", "rpc", "record"})
  BY <1>2 DEF OnlyKind, MonitorOf, MonitorHolds
<1> QED BY <1>3, <1>4, <1>5, <1>6

-----------------------------------------------------------------------------
(* Every step keeps the correction under way, for each device.             *)

Ready == /\ Wished /\ Agrees /\ TurnsAreTaken /\ ScopeInvariant /\ RoutableInvariant
         /\ HeardStatuses

\* Without a fault, what the Controls task does is to read the next status, to
\* decide, to publish or to record.
LEMMA FaultlessControls ==
    ASSUME TypeOK, RunControls, NoFault
    PROVE  /\ UNCHANGED <<metadata_cache, controls_view, monitors, hydration, retained, now>>
           /\ \/ /\ UNCHANGED <<alarm_states, controls_topic, phoebus_topics, phoebus_view>>
                 /\ controls_task.pc \in {"down", "idle"} /\ controls_task'.pc \in {"down", "idle"}
              \/ ControlsReceive /\ controls_topic' = Tail(controls_topic)
              \/ ControlsDecide
              \/ ControlsPublish
              \/ ControlsRecord
<1> USE DEF TypeOK, ExternalTypeOK
<1>a. ~Fault
  BY DEF Fault, NoFault
<1>1. UNCHANGED <<metadata_cache, controls_view, monitors, hydration, retained, now>>
  BY DEF RunControls, ControlsStep, ControlsSubscribe, ControlsStreamEnds, ControlsReceive,
         ControlsDecide, ControlsPublish, ControlsRecord, views, caches
<1>2. CASE ControlsSubscribe
  <2>1. PICK n \in 1 .. Len(controls_topic) + 1 :
            controls_topic' = From(controls_topic, n) /\ ResumeAt(n)
    BY <1>2 DEF ControlsSubscribe
  <2>2. controls_topic' = controls_topic
    BY <1>a, <2>1, FromStart DEF ResumeAt
  <2>3. UNCHANGED <<alarm_states, phoebus_topics, phoebus_view>>
    BY <1>2 DEF ControlsSubscribe, caches, views, phoebus_side
  <2>4. controls_task.pc = "down" /\ controls_task'.pc = "idle"
    BY <1>2 DEF ControlsSubscribe, ControlsAt
  <2> QED BY <1>1, <2>2, <2>3, <2>4
<1>3. CASE ControlsReceive
  BY <1>1, <1>a, <1>3 DEF ControlsReceive, TakenFrom
<1> QED BY <1>1, <1>2, <1>3, <1>a DEF RunControls, ControlsStep, ControlsStreamEnds

\* The views change only to what was asked for.
LEMMA ToldStays ==
    ASSUME Wished, Agrees, NEW d \in Device, UNCHANGED intent,
           RunControls \/ (\E t \in MonitoredTopics : RunMonitor(t))
    PROVE  /\ UNCHANGED now
           /\ ToldControls(d) => ToldControls(d)'
           /\ ToldPhoebus(d) => ToldPhoebus(d)'
           /\ controls_view'[d] = controls_view[d] \/ ToldControls(d)'
           /\ phoebus_view'[d] = phoebus_view[d] \/ ToldPhoebus(d)'
<1>1. UNCHANGED now
  BY ProgramViews
<1>2. controls_view'[d] = controls_view[d] \/ ToldControls(d)'
  BY <1>1, ProgramViews DEF Wished, TypeOK, ExternalTypeOK, ToldControls, Effective
<1>3. phoebus_view'[d] = phoebus_view[d] \/ ToldPhoebus(d)'
  BY <1>1, ProgramViews DEF Wished, TypeOK, ExternalTypeOK, ToldPhoebus, Effective
<1> QED BY <1>1, <1>2, <1>3 DEF ToldControls, ToldPhoebus, Effective

\* What it is to be told and to remember, at the instant of the next state.
LEMMA NextTelling ==
    ASSUME NEW d, UNCHANGED <<intent, now>>
    PROVE  LET SameState == Effective(alarm_states[d])' = Effective(alarm_states[d]) IN
           /\ UNCHANGED <<alarm_states[d]>> => SameState
           /\ SameState => (Remembered(d)' <=> Remembered(d))
           /\ SameState /\ UNCHANGED <<controls_view[d]>> =>
                 ((Effective(controls_view[d]) = Effective(alarm_states[d]))'
                      <=> Effective(controls_view[d]) = Effective(alarm_states[d]))
           /\ SameState /\ UNCHANGED <<phoebus_view[d]>> =>
                 ((Effective(phoebus_view[d]) = Effective(alarm_states[d]))'
                      <=> Effective(phoebus_view[d]) = Effective(alarm_states[d]))
           /\ UNCHANGED <<controls_view[d]>> => (ToldControls(d)' <=> ToldControls(d))
           /\ UNCHANGED <<phoebus_view[d]>> => (ToldPhoebus(d)' <=> ToldPhoebus(d))
  BY DEF Remembered, ToldControls, ToldPhoebus, Effective

\* The parts of SettlesFor that a step of the Controls task which publishes nothing
\* leaves alone, unless it records something else of the device.
LEMMA ControlsFrame ==
    ASSUME NEW d \in Device, SettlesFor(d),
           UNCHANGED <<metadata_cache, controls_view, monitors, hydration, retained, now, intent,
                       phoebus_topics, phoebus_view>>,
           Effective(alarm_states[d])' = Effective(alarm_states[d]),
           IsKnown(d)' <=> IsKnown(d)
    PROVE  /\ \A t \in MonitoredTopics : MonitorMirrors(monitors[t], d)'
           /\ KnownIsScoped(d)' /\ ConfiguredIsScoped(d)' /\ LogsShowIntent(d)'
           /\ ToldControls(d)' <=> ToldControls(d)
           /\ ToldPhoebus(d)' <=> ToldPhoebus(d)
           /\ Remembered(d)' <=> Remembered(d)
           /\ RecordWaits(d)' <=> RecordWaits(d)
           /\ Hydrates(d)' <=> Hydrates(d)
           /\ \A stages : MonitorHolds(d, stages)' <=> MonitorHolds(d, stages)
<1>1. /\ ToldControls(d)' <=> ToldControls(d)
      /\ ToldPhoebus(d)' <=> ToldPhoebus(d)
      /\ Remembered(d)' <=> Remembered(d)
  BY NextTelling
<1>3. RecordWaits(d)' <=> RecordWaits(d)
  BY DEF RecordWaits
<1>4. /\ Unapplied' = Unapplied
      /\ Scopes(d)' <=> Scopes(d)
      /\ Hydrates(d)' <=> Hydrates(d)
  BY DEF Unapplied, Scopes, Hydrates
<1>5. \A stages : MonitorHolds(d, stages)' <=> MonitorHolds(d, stages)
  BY DEF MonitorHolds
<1>6. \A t \in MonitoredTopics : MonitorMirrors(monitors[t], d)'
  BY <1>1 DEF SettlesFor, MonitorMirrors, Effective
<1>7. KnownIsScoped(d)'
  BY <1>4, <1>5 DEF SettlesFor, KnownIsScoped
<1>8. ConfiguredIsScoped(d)'
  BY <1>3, <1>4, <1>5 DEF SettlesFor, ConfiguredIsScoped
<1>9. LogsShowIntent(d)'
  BY <1>4 DEF SettlesFor, LogsShowIntent, LastShows
<1> QED BY <1>1, <1>3, <1>4, <1>5, <1>6, <1>7, <1>8, <1>9

\* The same of a step of that kind which loses no update.
LEMMA ControlsMovesOn ==
    ASSUME NEW d \in Device, SettlesFor(d),
           UNCHANGED <<metadata_cache, controls_view, monitors, hydration, retained, now, intent,
                       phoebus_topics, phoebus_view>>,
           Effective(alarm_states[d])' = Effective(alarm_states[d]),
           IsKnown(d)' <=> IsKnown(d),
           LET all == {"lookup", "publish", "record"} IN
           /\ StatusWaits(d)' \/ ControlsHolds(d, all)' => StatusWaits(d) \/ ControlsHolds(d, all)
           /\ IsKnown(d) /\ (StatusWaits(d) \/ ControlsHolds(d, all)) =>
                 StatusWaits(d)' \/ ControlsHolds(d, all)' \/ Remembered(d),
           ControlsMirrors(d)'
    PROVE  SettlesFor(d)'
<1> DEFINE all == {"lookup", "publish", "record"}
<1>1. SourcesTold(d)'
  BY ControlsFrame DEF SettlesFor, SourcesTold
<1>2. /\ (Effective(controls_view[d]) = Effective(alarm_states[d]))'
             <=> Effective(controls_view[d]) = Effective(alarm_states[d])
      /\ (Effective(phoebus_view[d]) = Effective(alarm_states[d]))'
             <=> Effective(phoebus_view[d]) = Effective(alarm_states[d])
  BY NextTelling
<1>3. KnownIsTold(d)'
  BY <1>2, ControlsFrame DEF SettlesFor, KnownIsTold, Underway
<1> QED BY <1>1, <1>3, ControlsFrame DEF SettlesFor

LEMMA ReceiveSettles ==
    ASSUME Ready, NEW d \in Device, SettlesFor(d), ControlsReceive,
           controls_topic' = Tail(controls_topic),
           UNCHANGED <<metadata_cache, controls_view, monitors, hydration, retained, now, intent>>
    PROVE  SettlesFor(d)'
<1> USE DEF Ready, Wished, TypeOK, ExternalTypeOK
<1> DEFINE head == Head(controls_topic)
           all == {"lookup", "publish", "record"}
<1>1. /\ UNCHANGED <<alarm_states, phoebus_topics, phoebus_view>>
      /\ controls_topic # <<>> /\ controls_task.pc = "idle"
  BY DEF ControlsReceive, caches, views, phoebus_side
<1>2. /\ StatusWaits(d) <=> Enables(head, d) \/ StatusWaits(d)'
      /\ IsEnablement(head.state) => head.parses /\ head.source = "Epics"
  <2>1. /\ controls_topic \in Seq(Status)
        /\ StatusWaits(d) <=> Waits(controls_topic, d)
        /\ StatusWaits(d)' <=> Waits(Tail(controls_topic), d)
    BY DEF StatusWaits, Waits
  <2>2. StatusWaits(d) <=> Enables(head, d) \/ StatusWaits(d)'
    BY <1>1, <2>1, TailEnables, Zenon
  <2>3. head = controls_topic[1] /\ 1 \in DOMAIN controls_topic
    BY <1>1
  <2> QED BY <2>2, <2>3 DEF HeardStatuses
<1>3. \/ /\ controls_task'.pc = "lookup" /\ controls_task'.alarm = head
         /\ controls_task'.observed = alarm_states[head.device]
      \/ UNCHANGED controls_task /\ ~(head.parses /\ head.source = "Epics")
  BY DEF ControlsReceive
<1> HIDE DEF head
<1>4. ControlsHolds(d, all)' <=> Enables(head, d)
  BY <1>1, <1>2, <1>3 DEF ControlsHolds, Enables
<1>5. ControlsMirrors(d)'
  BY <1>1, <1>3 DEF ControlsMirrors, ControlsHolds, Enables
<1>6. ~ControlsHolds(d, all)
  BY <1>1 DEF ControlsHolds
<1>7. Effective(alarm_states[d])' = Effective(alarm_states[d]) /\ (IsKnown(d)' <=> IsKnown(d))
  BY <1>1, NextTelling DEF IsKnown
<1> QED BY <1>1, <1>2, <1>4, <1>5, <1>6, <1>7, ControlsMovesOn

\* A status that is not mirrored is remembered already, or of a device that is not
\* in scope.
LEMMA DecideSettles ==
    ASSUME Ready, NEW d \in Device, SettlesFor(d), ControlsDecide,
           UNCHANGED <<metadata_cache, controls_view, monitors, hydration, retained, now, intent>>
    PROVE  SettlesFor(d)'
<1> USE DEF Ready, Wished, TypeOK
<1> DEFINE alarm == controls_task.alarm
           all == {"lookup", "publish", "record"}
           metadata == metadata_cache[alarm.device]
<1>1. /\ UNCHANGED <<alarm_states, controls_topic, phoebus_topics, phoebus_view>>
      /\ controls_task.pc = "lookup"
  BY DEF ControlsDecide, caches, topics, views, phoebus_side
<1>2. \/ /\ controls_task'.pc = "publish" /\ controls_task'.alarm = alarm
         /\ controls_task'.metadata = metadata /\ metadata # None
      \/ /\ controls_task'.pc = "idle" /\ ~SyncsToPhoebus(alarm, controls_task.observed, metadata)
  BY DEF ControlsDecide, ControlsAt, SyncsToPhoebus
<1>3. StatusWaits(d)' <=> StatusWaits(d)
  BY <1>1 DEF StatusWaits
<1>4. controls_task'.pc = "publish" => (ControlsHolds(d, all)' <=> ControlsHolds(d, all))
  BY <1>1, <1>2 DEF ControlsHolds
<1>5. controls_task'.pc = "idle" => ~ControlsHolds(d, all)'
  BY DEF ControlsHolds
<1>6. ControlsMirrors(d)'
  BY <1>1, <1>2 DEF ControlsMirrors, ControlsHolds, RoutableInvariant
<1>7. ASSUME ControlsHolds(d, all), IsKnown(d), controls_task'.pc = "idle"
      PROVE  Remembered(d) \/ StatusWaits(d)
  <2>1. alarm.device = d /\ IsEnablement(alarm.state) /\ alarm \in Status
    BY <1>1, <1>7 DEF ControlsHolds, Enables, ControlsTypeOK, ControlsTask
  <2>2. Effective(from_status(alarm)) = Effective(intent[d])
    BY <1>1, <2>1 DEF Agrees, ControlsTaskAgrees, StatusAgrees, Effective
  <2>3. controls_task.observed = alarm_states[d] \/ Remembered(d)
    BY <1>1, <2>1 DEF SettlesFor, ControlsMirrors, ControlsHolds, Enables
  <2>4. state_to_operation(alarm.state) # None
    BY <2>1, NoneAssumption DEF state_to_operation, IsEnablement
  <2>5. CASE suppresses_incoming(controls_task.observed, from_status(alarm))
    <3>1. controls_task.observed = from_status(alarm)
      BY <2>1, <2>5 DEF suppresses_incoming, is_transition_forbidden, from_status, IsEnablement
    <3> QED BY <2>2, <2>3, <3>1 DEF Remembered
  <2>6. CASE metadata = None
    <3>1. hydration.pc = "done"
      BY <1>1 DEF TurnsAreTaken, StillAtStartup
    <3>2. ~Scopes(d) /\ ~Hydrates(d)
      BY <3>1, ConfigsForDef DEF Scopes, Hydrates, Unapplied
    <3>3. MonitorHolds(d, {"update"})
      BY <1>7, <2>1, <2>6, <3>2 DEF SettlesFor, KnownIsScoped
    <3> QED BY <3>3 DEF SettlesFor, MonitorMirrors, MonitorHolds
  <2> QED BY <1>2, <1>7, <2>4, <2>5, <2>6 DEF SyncsToPhoebus
<1>8. Effective(alarm_states[d])' = Effective(alarm_states[d]) /\ (IsKnown(d)' <=> IsKnown(d))
  BY <1>1, NextTelling DEF IsKnown
<1> QED BY <1>1, <1>2, <1>3, <1>4, <1>5, <1>6, <1>7, <1>8, ControlsMovesOn

\* Without a fault, to mirror an enablement is to tell Phoebus, in a record to be read.
LEMMA PublishTells ==
    ASSUME Wished, Agrees, NEW d \in Device, ControlsPublish, NoFault, UNCHANGED <<intent, now>>,
           controls_task.alarm.device = d => controls_task.metadata.topic \in PhoebusTopics
    PROVE  /\ RecordWaits(d)' <=> RecordWaits(d) \/ Enables(controls_task.alarm, d)
           /\ Enables(controls_task.alarm, d) =>
                 /\ ToldPhoebus(d)'
                 /\ Effective(from_status(controls_task.alarm)) = Effective(intent[d])
           /\ phoebus_view'[d] = phoebus_view[d] \/ Enables(controls_task.alarm, d)
<1> USE DEF Wished, TypeOK, ExternalTypeOK
<1> DEFINE alarm == controls_task.alarm
<1>1. alarm \in Mirrored /\ MirroredRecord \in PhoebusMsg /\ controls_task.pc = "publish"
  BY PublishEffect DEF ControlsPublish
<1>3. alarm.device \in Device /\ alarm \in Status
  BY <1>1 DEF Mirrored, Status
<1>4. ASSUME alarm.device = d
      PROVE  /\ OutboundTopic \in MonitoredTopics
             /\ PublishPhoebus(OutboundTopic, MirroredRecord)
  <2>1. controls_task.metadata.topic \in PhoebusTopics
    BY <1>4
  <2>2. OutboundTopic \in MonitoredTopics
    BY <2>1 DEF OutboundTopic, get_topic_for_operation, MonitoredTopics
  <2> QED BY <2>2 DEF ControlsPublish, MirroredRecord, Fault, NoFault
<1>5. Configures(MirroredRecord, d) <=> Enables(alarm, d)
  BY <1>1, MirroredConfigures DEF MirroredRecord
<1>6. RecordWaits(d)' <=> RecordWaits(d) \/ Enables(alarm, d)
  <2>1. CASE UNCHANGED phoebus_topics
    <3>1. alarm.device # d
      <4> SUFFICES ASSUME alarm.device = d PROVE FALSE
        OBVIOUS
      <4>1. /\ phoebus_topics' = [phoebus_topics EXCEPT ![OutboundTopic] = Append(@, MirroredRecord)]
            /\ OutboundTopic \in MonitoredTopics
        BY <1>4 DEF PublishPhoebus
      <4>2. phoebus_topics[OutboundTopic] = Append(phoebus_topics[OutboundTopic], MirroredRecord)
        BY <2>1, <4>1
      <4>3. phoebus_topics[OutboundTopic] \in Seq(PhoebusMsg)
        BY <4>1
      <4>4. Len(Append(phoebus_topics[OutboundTopic], MirroredRecord))
                = Len(phoebus_topics[OutboundTopic]) + 1
        BY <1>1, <4>3
      <4>5. Len(phoebus_topics[OutboundTopic]) \in Nat
        BY <4>3
      <4> QED BY <4>2, <4>4, <4>5
    <3> QED BY <2>1, <3>1 DEF RecordWaits, Enables
  <2>2. ASSUME OutboundTopic \in MonitoredTopics,
               phoebus_topics' = [phoebus_topics EXCEPT ![OutboundTopic] = Append(@, MirroredRecord)]
        PROVE  RecordWaits(d)' <=> RecordWaits(d) \/ Enables(alarm, d)
    <3>1. ConfigsFor(phoebus_topics'[OutboundTopic], d) # {}
              <=> Enables(alarm, d) \/ ConfigsFor(phoebus_topics[OutboundTopic], d) # {}
      BY <1>1, <1>5, <2>2, AppendConfigures
    <3>2. \A t \in MonitoredTopics \ {OutboundTopic} : phoebus_topics'[t] = phoebus_topics[t]
      BY <2>2
    <3> QED BY <2>2, <3>1, <3>2 DEF RecordWaits
  <2> QED BY <2>1, <2>2, PublishEffect
<1>7. Enables(alarm, d) => ToldPhoebus(d)'
  <2> SUFFICES ASSUME Enables(alarm, d) PROVE ToldPhoebus(d)'
    OBVIOUS
  <2>1. /\ Configures(MirroredRecord, d)
        /\ MirroredRecord.enabled = normalized_enablement_from_controls(alarm)
    BY <1>1, <1>5, MirroredConfigures DEF MirroredRecord
  <2>2. phoebus_view'[d] = Shown(normalized_enablement_from_controls(alarm))
    BY <1>4, <2>1 DEF Enables, Configures, PublishPhoebus
  <2>3. EffectiveAt(phoebus_view'[d], now) = EffectiveAt(from_status(alarm), now)
    BY <1>3, <2>2, WritingKeeps DEF Enables
  <2>4. EffectiveAt(from_status(alarm), now) = EffectiveAt(intent[d], now)
    BY <1>1 DEF Enables, Agrees, ControlsTaskAgrees, StatusAgrees
  <2> QED BY <2>3, <2>4 DEF ToldPhoebus, Effective
<1>8. phoebus_view'[d] = phoebus_view[d] \/ Enables(alarm, d)
  <2>1. UNCHANGED phoebus_side \/ PublishPhoebus(OutboundTopic, MirroredRecord)
    BY DEF ControlsPublish, MirroredRecord
  <2>2. UNCHANGED phoebus_view \/ (/\ Configures(MirroredRecord, MirroredRecord.device)
                                   /\ phoebus_view' = [phoebus_view EXCEPT ![MirroredRecord.device]
                                                           = Shown(MirroredRecord.enabled)])
    BY <2>1 DEF PublishPhoebus, phoebus_side, Configures
  <2>3. MirroredRecord.device = d /\ Configures(MirroredRecord, MirroredRecord.device)
            => Enables(alarm, d)
    BY <1>5
  <2> QED BY <2>2, <2>3
<1>9. Enables(alarm, d) => Effective(from_status(alarm)) = Effective(intent[d])
  BY <1>1 DEF Enables, Agrees, ControlsTaskAgrees, StatusAgrees, Effective
<1> QED BY <1>6, <1>7, <1>8, <1>9

LEMMA PublishSettles ==
    ASSUME Ready, NEW d \in Device, SettlesFor(d), RunControls, ControlsPublish, NoFault,
           UNCHANGED <<metadata_cache, controls_view, monitors, hydration, retained, now, intent>>
    PROVE  SettlesFor(d)'
<1> USE DEF Ready, Wished, TypeOK, ExternalTypeOK
<1> DEFINE alarm == controls_task.alarm
           all == {"lookup", "publish", "record"}
<1>1. /\ alarm \in Mirrored /\ MirroredRecord \in PhoebusMsg /\ controls_task.pc = "publish"
      /\ controls_task'.pc = "record" /\ controls_task'.alarm = alarm
      /\ controls_task'.metadata = controls_task.metadata
      /\ UNCHANGED <<alarm_states, controls_topic>>
  BY PublishEffect DEF ControlsPublish, caches
<1>2. hydration.pc = "done"
  BY <1>1 DEF TurnsAreTaken, StillAtStartup
<1>3. alarm.device \in Device /\ alarm \in Status
  BY <1>1 DEF Mirrored, Status
<1>4. /\ RecordWaits(d)' <=> RecordWaits(d) \/ Enables(alarm, d)
      /\ Enables(alarm, d) => ToldPhoebus(d)' /\ Effective(from_status(alarm)) = Effective(intent[d])
      /\ phoebus_view'[d] = phoebus_view[d] \/ Enables(alarm, d)
  <2>1. alarm.device = d => controls_task.metadata.topic \in PhoebusTopics
    BY <1>1 DEF SettlesFor, ControlsMirrors
  <2> QED BY <2>1, PublishTells
<1>8. /\ StatusWaits(d)' <=> StatusWaits(d)
      /\ ControlsHolds(d, all)' <=> ControlsHolds(d, all)
      /\ ControlsHolds(d, all) <=> Enables(alarm, d)
      /\ Unapplied' = Unapplied
      /\ Scopes(d)' <=> Scopes(d)
      /\ Hydrates(d)' <=> Hydrates(d)
      /\ IsKnown(d)' <=> IsKnown(d)
      /\ \A stages : MonitorHolds(d, stages)' <=> MonitorHolds(d, stages)
  BY <1>1 DEF StatusWaits, ControlsHolds, Unapplied, Scopes, Hydrates, IsKnown, MonitorHolds
<1>9. /\ Remembered(d)' <=> Remembered(d)
      /\ ToldControls(d)' <=> ToldControls(d)
      /\ (Effective(controls_view[d]) = Effective(alarm_states[d]))'
             <=> Effective(controls_view[d]) = Effective(alarm_states[d])
      /\ (Effective(phoebus_view[d]) = Effective(alarm_states[d]))'
             \/ ToldPhoebus(d)'
             \/ (Effective(phoebus_view[d]) # Effective(alarm_states[d]) /\ ~ToldPhoebus(d))
      /\ ToldPhoebus(d) => ToldPhoebus(d)'
  BY <1>1, NextTelling, ToldStays
<1>10. SourcesTold(d)'
  BY <1>4, <1>8, <1>9 DEF SettlesFor, SourcesTold
<1>11. ControlsMirrors(d)'
  <2>1. ControlsHolds(d, {"record"})' =>
          ToldPhoebus(d)' /\ (Effective(from_status(controls_task.alarm)) = Effective(intent[d]))'
    <3>1. ControlsHolds(d, {"record"})' => Enables(alarm, d)
      BY <1>1 DEF ControlsHolds
    <3> QED BY <1>1, <1>4, <3>1 DEF Effective
  <2>2. ~ControlsHolds(d, {"lookup"})'
    BY <1>1 DEF ControlsHolds
  <2> QED BY <1>1, <2>1, <2>2 DEF SettlesFor, ControlsMirrors
<1>12. \A t \in MonitoredTopics : MonitorMirrors(monitors[t], d)'
  BY <1>9 DEF SettlesFor, MonitorMirrors, Effective
<1>13. KnownIsTold(d)'
  BY <1>4, <1>8, <1>9 DEF SettlesFor, KnownIsTold, Underway
<1>14. KnownIsScoped(d)'
  BY <1>8 DEF SettlesFor, KnownIsScoped
<1>15. ConfiguredIsScoped(d)'
  BY <1>4, <1>8 DEF SettlesFor, ConfiguredIsScoped
<1>16. LogsShowIntent(d)'
  BY <1>2 DEF LogsShowIntent
<1> QED BY <1>10, <1>11, <1>12, <1>13, <1>14, <1>15, <1>16 DEF SettlesFor

\* An enablement is recorded as both systems were told of it, an acknowledgement for
\* a device that is not bypassed.
LEMMA RecordSettles ==
    ASSUME Ready, NEW d \in Device, SettlesFor(d), ControlsRecord,
           UNCHANGED <<metadata_cache, controls_view, monitors, hydration, retained, now, intent>>
    PROVE  SettlesFor(d)'
<1> USE DEF Ready, Wished, TypeOK
<1> DEFINE alarm == controls_task.alarm
           all == {"lookup", "publish", "record"}
<1>1. /\ UNCHANGED <<controls_topic, phoebus_topics, phoebus_view>>
      /\ controls_task.pc = "record" /\ controls_task'.pc = "idle"
      /\ alarm_states' = [alarm_states EXCEPT ![alarm.device] = from_status(alarm)]
      /\ alarm \in Mirrored /\ alarm_states \in [Device -> Observation]
  BY DEF ControlsRecord, ControlsAt, topics, views, phoebus_side, record_alarm_state,
         ControlsTypeOK, ControlsTask, CachesTypeOK
<1>2. hydration.pc = "done"
  BY <1>1 DEF TurnsAreTaken, StillAtStartup
<1>3. /\ StatusWaits(d)' <=> StatusWaits(d)
      /\ ~ControlsHolds(d, all)'
      /\ ControlsMirrors(d)'
  BY <1>1 DEF StatusWaits, ControlsHolds, ControlsMirrors
<1>4. CASE ~Enables(alarm, d)
  <2>1. ~ControlsHolds(d, all)
    BY <1>4 DEF ControlsHolds
  <2>2. Effective(alarm_states[d])' = Effective(alarm_states[d]) /\ (IsKnown(d)' <=> IsKnown(d))
    <3>1. CASE alarm.device # d
      BY <1>1, <3>1, NextTelling DEF IsKnown
    <3>2. CASE alarm.device = d
      <4>1. alarm.state = "Acknowledged"
        BY <1>1, <1>4, <3>2, NoneAssumption DEF Mirrored, state_to_operation, Enables, IsEnablement
      <4>2. metadata_cache[d] # None /\ alarm_states[d] # None
        BY <1>1, <3>2 DEF SettlesFor, ControlsMirrors, ScopeInvariant, ScopeImpliesObserved
      <4>3. alarm_states[d].state # "Bypassed"
        BY <1>1, <3>2, <4>1, <4>2
           DEF TurnsAreTaken, AcknowledgesActive, Acknowledging, IsBypassed
      <4>4. alarm_states'[d] # None /\ alarm_states'[d].state = "Acknowledged"
        BY <1>1, <3>2, <4>1, NoneAssumption, FromStatusType DEF Mirrored, from_status
      <4>5. EffectiveAt(alarm_states'[d], now') = EffectiveAt(alarm_states[d], now)
        BY <4>2, <4>3, <4>4 DEF EffectiveAt
      <4> QED BY <4>2, <4>5 DEF Effective, IsKnown
    <3> QED BY <3>1, <3>2
  <2> QED BY <1>1, <1>3, <2>1, <2>2, ControlsMovesOn
<1>5. CASE Enables(alarm, d)
  <2>1. /\ ToldControls(d) /\ ToldPhoebus(d)
        /\ EffectiveAt(from_status(alarm), now) = EffectiveAt(intent[d], now)
        /\ metadata_cache[d] # None
    BY <1>1, <1>5 DEF SettlesFor, SourcesTold, ControlsMirrors, ControlsHolds, Enables, Effective
  <2>2. ToldControls(d)' /\ ToldPhoebus(d)' /\ Remembered(d)'
    BY <1>1, <1>5, <2>1 DEF ToldControls, ToldPhoebus, Remembered, Effective, Enables
  <2>3. (Effective(controls_view[d]) = Effective(alarm_states[d]))'
            /\ (Effective(phoebus_view[d]) = Effective(alarm_states[d]))'
    BY <2>2 DEF ToldControls, ToldPhoebus, Remembered
  <2>4. SourcesTold(d)' /\ KnownIsTold(d)'
    BY <2>2, <2>3 DEF SourcesTold, KnownIsTold
  <2>5. KnownIsScoped(d)' /\ ConfiguredIsScoped(d)'
    BY <2>1 DEF KnownIsScoped, ConfiguredIsScoped
  <2>6. \A t \in MonitoredTopics : MonitorMirrors(monitors[t], d)'
    BY <2>2 DEF SettlesFor, MonitorMirrors, Effective
  <2>7. LogsShowIntent(d)'
    BY <1>2 DEF LogsShowIntent
  <2> QED BY <1>3, <2>4, <2>5, <2>6, <2>7 DEF SettlesFor
<1> QED BY <1>4, <1>5

LEMMA ControlsSettles ==
    ASSUME Ready, NEW d \in Device, SettlesFor(d), RunControls, NoFault, UNCHANGED intent
    PROVE  SettlesFor(d)'
<1>1. /\ UNCHANGED <<metadata_cache, controls_view, monitors, hydration, retained, now>>
      /\ \/ /\ UNCHANGED <<alarm_states, controls_topic, phoebus_topics, phoebus_view>>
            /\ controls_task.pc \in {"down", "idle"} /\ controls_task'.pc \in {"down", "idle"}
         \/ ControlsReceive /\ controls_topic' = Tail(controls_topic)
         \/ ControlsDecide
         \/ ControlsPublish
         \/ ControlsRecord
  BY FaultlessControls DEF Ready, Wished
<1>2. ASSUME UNCHANGED <<alarm_states, controls_topic, phoebus_topics, phoebus_view>>,
             controls_task.pc \in {"down", "idle"}, controls_task'.pc \in {"down", "idle"}
      PROVE  SettlesFor(d)'
  <2>1. Effective(alarm_states[d])' = Effective(alarm_states[d]) /\ (IsKnown(d)' <=> IsKnown(d))
    BY <1>1, <1>2, NextTelling DEF IsKnown
  <2>2. /\ StatusWaits(d)' <=> StatusWaits(d)
        /\ \A stages \in SUBSET {"lookup", "publish", "record"} :
              ~ControlsHolds(d, stages) /\ ~ControlsHolds(d, stages)'
        /\ ControlsMirrors(d)'
    BY <1>2 DEF StatusWaits, ControlsHolds, ControlsMirrors
  <2> QED BY <1>1, <1>2, <2>1, <2>2, ControlsMovesOn
<1> QED BY <1>1, <1>2, ReceiveSettles, DecideSettles, PublishSettles, RecordSettles

-----------------------------------------------------------------------------
(* The monitors.                                                           *)

\* What is in the hands of the monitors when one of them goes on.
OthersHold(t, d, stages) ==
    \E u \in MonitoredTopics \ {t} : monitors[u].pc \in stages /\ Configures(monitors[u].msg, d)

LEMMA HoldingSplit ==
    ASSUME MonitorsTypeOK, NEW t \in MonitoredTopics, NEW new, Becomes(t, new), NEW d, NEW stages
    PROVE  /\ monitors'[t] = new
           /\ \A u \in MonitoredTopics \ {t} : monitors'[u] = monitors[u]
           /\ MonitorHolds(d, stages)
                  <=> \/ monitors[t].pc \in stages /\ Configures(monitors[t].msg, d)
                      \/ OthersHold(t, d, stages)
           /\ MonitorHolds(d, stages)'
                  <=> \/ new.pc \in stages /\ Configures(new.msg, d)
                      \/ OthersHold(t, d, stages)
<1>1. monitors'[t] = new /\ \A u \in MonitoredTopics \ {t} : monitors'[u] = monitors[u]
  BY DEF MonitorsTypeOK, Becomes
<1>2. MonitorHolds(d, stages)
          <=> \/ monitors[t].pc \in stages /\ Configures(monitors[t].msg, d)
              \/ OthersHold(t, d, stages)
  BY DEF MonitorHolds, OthersHold
<1>3. MonitorHolds(d, stages)'
          <=> \/ monitors'[t].pc \in stages /\ Configures(monitors'[t].msg, d)
              \/ \E u \in MonitoredTopics \ {t} :
                        monitors'[u].pc \in stages /\ Configures(monitors'[u].msg, d)
  BY DEF MonitorHolds
<1> QED BY <1>1, <1>2, <1>3 DEF OthersHold

\* Without a fault, what a monitor does is to subscribe from where it was, to read the
\* next record, to decide, to call, to record or to update.
LEMMA FaultlessMonitor ==
    ASSUME TypeOK, NEW t \in MonitoredTopics, RunMonitor(t), NoFault
    PROVE  /\ hydration.pc = "done"
           /\ UNCHANGED <<hydration, retained, controls_task, phoebus_view, now>>
           /\ \/ /\ UNCHANGED <<caches, topics, controls_view>>
                 /\ monitors[t].pc = "down" /\ Becomes(t, MonitorAt("idle"))
              \/ /\ MonitorReceive(t)
                 /\ phoebus_topics' = [phoebus_topics EXCEPT ![t] = Tail(phoebus_topics[t])]
              \/ MonitorDecide(t)
              \/ MonitorRpc(t)
              \/ MonitorRecord(t)
              \/ MonitorUpdate(t)
<1> USE DEF TypeOK, ExternalTypeOK
<1>a. ~Fault
  BY DEF Fault, NoFault
<1>1. hydration.pc = "done" /\ UNCHANGED <<hydration, retained, controls_task, phoebus_view, now>>
  BY DEF RunMonitor, MonitorStep, MonitorSubscribe, MonitorStreamEnds, MonitorReceive,
         MonitorDecide, MonitorRpc, MonitorRecord, MonitorUpdate, views, phoebus_side
<1>2. ASSUME MonitorSubscribe(t)
      PROVE  /\ UNCHANGED <<caches, topics, controls_view>>
             /\ monitors[t].pc = "down" /\ Becomes(t, MonitorAt("idle"))
  <2>1. PICK n \in 1 .. Len(phoebus_topics[t]) + 1 :
            /\ phoebus_topics' = [phoebus_topics EXCEPT ![t] = From(@, n)]
            /\ ResumeAt(n)
    BY <1>2 DEF MonitorSubscribe
  <2>2. n = 1 /\ phoebus_topics[t] \in Seq(PhoebusMsg)
    BY <1>a, <2>1 DEF ResumeAt
  <2>3. phoebus_topics' = phoebus_topics
    BY <2>1, <2>2, FromStart
  <2> QED BY <1>2, <2>3 DEF MonitorSubscribe, views, topics
<1>3. ASSUME MonitorReceive(t)
      PROVE  phoebus_topics' = [phoebus_topics EXCEPT ![t] = Tail(phoebus_topics[t])]
  BY <1>a, <1>3 DEF MonitorReceive, TakenFrom
<1> QED BY <1>1, <1>2, <1>3, <1>a DEF RunMonitor, MonitorStep, MonitorStreamEnds

\* A step of a monitor keeps the correction of a device under way, unless it records
\* or updates something of that device.
LEMMA MonitorMovesOn ==
    ASSUME Ready, NEW d \in Device, SettlesFor(d), NEW t \in MonitoredTopics, NEW new,
           Becomes(t, new), hydration.pc = "done",
           UNCHANGED <<hydration, retained, controls_task, phoebus_view, now, intent,
                       metadata_cache[d]>>,
           \/ UNCHANGED <<alarm_states[d]>>
           \/ /\ ~ControlsHolds(d, {"lookup"})
              /\ \/ Effective(alarm_states[d])' = Effective(alarm_states[d])
                 \/ alarm_states[d] = None,
           IsKnown(d)' => IsKnown(d) /\ (UNCHANGED <<alarm_states[d]>> \/ alarm_states[d] # None),
           ToldControls(d) => ToldControls(d)',
           controls_view'[d] = controls_view[d] \/ ToldControls(d)',
           StatusWaits(d) => StatusWaits(d)',
           StatusWaits(d)' => StatusWaits(d) \/ ToldControls(d)',
           LET held == {"policy", "rpc", "record"}
               all == {"policy", "rpc", "record", "update"}
           IN
           /\ RecordWaits(d)' \/ MonitorHolds(d, all)' => RecordWaits(d) \/ MonitorHolds(d, all)
           /\ RecordWaits(d) \/ MonitorHolds(d, all) =>
                 \/ RecordWaits(d)' \/ MonitorHolds(d, all)'
                 \/ metadata_cache[d] # None
           /\ RecordWaits(d) \/ MonitorHolds(d, held) =>
                 RecordWaits(d)' \/ MonitorHolds(d, held)' \/ Remembered(d),
           MonitorHolds(d, {"update"}) => MonitorHolds(d, {"update"})',
           MonitorMirrors(monitors[t], d)'
    PROVE  SettlesFor(d)'
<1> USE DEF Ready, Wished, TypeOK
<1>1. /\ ToldPhoebus(d)' <=> ToldPhoebus(d)
      /\ ~Hydrates(d) /\ ~Scopes(d) /\ ~Hydrates(d)' /\ ~Scopes(d)'
  BY ConfigsForDef DEF ToldPhoebus, Effective, Hydrates, Scopes, Unapplied
<1>2. \A stages : ControlsHolds(d, stages)' <=> ControlsHolds(d, stages)
  BY DEF ControlsHolds
<1>3. \/ Effective(alarm_states[d])' = Effective(alarm_states[d])
      \/ alarm_states[d] = None /\ ~IsKnown(d)'
  BY DEF Effective, EffectiveAt
<1>4. SourcesTold(d)'
  BY <1>1, <1>2 DEF SettlesFor, SourcesTold
<1>5. ControlsMirrors(d)'
  <2>1. ControlsHolds(d, {"lookup"})' =>
            (controls_task.observed = alarm_states[d])' \/ Remembered(d)'
    BY <1>2, NextTelling DEF SettlesFor, ControlsMirrors
  <2>2. ControlsHolds(d, {"record"})' =>
            ToldPhoebus(d)' /\ (Effective(from_status(controls_task.alarm)) = Effective(intent[d]))'
    BY <1>1, <1>2 DEF SettlesFor, ControlsMirrors, Effective
  <2> QED BY <2>1, <2>2 DEF SettlesFor, ControlsMirrors
<1>6. \A u \in MonitoredTopics : MonitorMirrors(monitors[u], d)'
  <2> SUFFICES ASSUME NEW u \in MonitoredTopics \ {t} PROVE MonitorMirrors(monitors[u], d)'
    OBVIOUS
  <2>1. monitors'[u] = monitors[u] /\ MonitorMirrors(monitors[u], d)
    BY HoldingSplit DEF SettlesFor
  <2>2. ASSUME monitors[u].pc = "update", Configures(monitors[u].msg, d), Remembered(d)
        PROVE  Remembered(d)'
    <3>1. alarm_states[d] # None
      BY <2>2 DEF ScopeInvariant, Configures
    <3> QED BY <1>3, <2>2, <3>1, NextTelling
  <2>3. Effective(monitors[u].updated)' = Effective(monitors[u].updated)
            /\ Effective(intent[d])' = Effective(intent[d])
    BY <2>1 DEF Effective
  <2> QED BY <2>1, <2>2, <2>3 DEF MonitorMirrors
<1>7. KnownIsTold(d)'
  <2> SUFFICES ASSUME IsKnown(d)'
               PROVE  /\ (Effective(controls_view[d]) = Effective(alarm_states[d]))' \/ ToldControls(d)'
                      /\ (Effective(phoebus_view[d]) = Effective(alarm_states[d]))' \/ ToldPhoebus(d)'
                      /\ Remembered(d)' \/ Underway(d)'
    BY DEF KnownIsTold
  <2>1. IsKnown(d) /\ Effective(alarm_states[d])' = Effective(alarm_states[d])
    BY <1>3
  <2>2. /\ Remembered(d)' <=> Remembered(d)
        /\ UNCHANGED <<controls_view[d]>> =>
              ((Effective(controls_view[d]) = Effective(alarm_states[d]))'
                   <=> Effective(controls_view[d]) = Effective(alarm_states[d]))
        /\ (Effective(phoebus_view[d]) = Effective(alarm_states[d]))'
               <=> Effective(phoebus_view[d]) = Effective(alarm_states[d])
    BY <2>1, NextTelling
  <2>3. Remembered(d)' \/ Underway(d)'
    BY <1>1, <1>2, <2>1, <2>2 DEF SettlesFor, KnownIsTold, Underway
  <2> QED BY <1>1, <2>1, <2>2, <2>3 DEF SettlesFor, KnownIsTold
<1>8. KnownIsScoped(d)'
  BY <1>1 DEF SettlesFor, KnownIsScoped
<1>9. ConfiguredIsScoped(d)'
  BY <1>1 DEF SettlesFor, ConfiguredIsScoped
<1>10. LogsShowIntent(d)'
  BY DEF LogsShowIntent
<1> QED BY <1>4, <1>5, <1>6, <1>7, <1>8, <1>9, <1>10 DEF SettlesFor

LEMMA RejoinSettles ==
    ASSUME Ready, NEW d \in Device, SettlesFor(d), NEW t \in MonitoredTopics, hydration.pc = "done",
           UNCHANGED <<hydration, retained, controls_task, phoebus_view, now, intent,
                       caches, topics, controls_view>>,
           monitors[t].pc = "down", Becomes(t, MonitorAt("idle"))
    PROVE  SettlesFor(d)'
<1>1. UNCHANGED <<alarm_states[d], metadata_cache[d], controls_view[d]>>
  BY DEF caches
<1>2. /\ IsKnown(d)' <=> IsKnown(d)
      /\ ToldControls(d)' <=> ToldControls(d)
      /\ StatusWaits(d)' <=> StatusWaits(d)
      /\ RecordWaits(d)' <=> RecordWaits(d)
  BY <1>1 DEF IsKnown, ToldControls, Effective, StatusWaits, RecordWaits, topics
<1>3. ASSUME NEW stages, stages \subseteq {"policy", "rpc", "record", "update"}
      PROVE  MonitorHolds(d, stages)' <=> MonitorHolds(d, stages)
  BY <1>3, HoldingSplit, MonitorAt("idle").pc = "idle" DEF Ready, Wished, TypeOK, MonitorAt
<1>4. MonitorMirrors(monitors[t], d)'
  BY HoldingSplit DEF Ready, Wished, TypeOK, MonitorMirrors, MonitorAt
<1> QED BY <1>1, <1>2, <1>3, <1>4, MonitorMovesOn

\* A monitor takes a config up as it reads it.
LEMMA ReadTakesConfig ==
    ASSUME TypeOK, NEW d, NEW t \in MonitoredTopics, MonitorReceive(t),
           phoebus_topics' = [phoebus_topics EXCEPT ![t] = Tail(phoebus_topics[t])]
    PROVE  LET head == Head(phoebus_topics[t]) IN
           /\ RecordWaits(d) <=> Configures(head, d) \/ RecordWaits(d)'
           /\ monitors[t].pc = "idle"
           /\ \E new : /\ Becomes(t, new)
                       /\ new.pc \notin {"record", "update"}
                       /\ new.pc \in {"policy", "rpc"} /\ Configures(new.msg, d) <=> Configures(head, d)
<1> USE DEF TypeOK, ExternalTypeOK
<1> DEFINE head == Head(phoebus_topics[t])
           Waiting == \E u \in MonitoredTopics \ {t} : ConfigsFor(phoebus_topics[u], d) # {}
<1>1. RecordWaits(d) <=> Configures(head, d) \/ RecordWaits(d)'
  <2>1. phoebus_topics[t] \in Seq(PhoebusMsg) /\ phoebus_topics[t] # <<>>
    BY ReceiveEffect
  <2>2. ConfigsFor(phoebus_topics[t], d) # {}
            <=> Configures(head, d) \/ ConfigsFor(Tail(phoebus_topics[t]), d) # {}
    BY <2>1, TailConfigures
  <2>3. RecordWaits(d) <=> ConfigsFor(phoebus_topics[t], d) # {} \/ Waiting
    BY DEF RecordWaits
  <2>4. /\ phoebus_topics'[t] = Tail(phoebus_topics[t])
        /\ \A u \in MonitoredTopics \ {t} : phoebus_topics'[u] = phoebus_topics[u]
    OBVIOUS
  <2>5. RecordWaits(d)' <=> ConfigsFor(Tail(phoebus_topics[t]), d) # {} \/ Waiting
    BY <2>4 DEF RecordWaits
  <2> QED BY <2>2, <2>3, <2>5
<1>2. /\ monitors[t].pc = "idle"
      /\ \E new : /\ Becomes(t, new)
                  /\ new.pc \notin {"record", "update"}
                  /\ new.pc \in {"policy", "rpc"} /\ Configures(new.msg, d) <=> Configures(head, d)
  <2>1. monitors[t].pc = "idle"
    BY ReceiveEffect
  <2>2. CASE UNCHANGED monitors /\ (head.op = "Config" => head.enabled.kind = "NotJson")
    <3>1. Becomes(t, monitors[t])
      BY <2>2 DEF Becomes, MonitorsTypeOK
    <3>2. ~Configures(head, d)
      BY <2>2 DEF Configures, Normalizable
    <3> QED BY <2>1, <3>1, <3>2
  <2>3. CASE \E new : /\ Becomes(t, new) /\ new.msg = head
                      /\ \/ head.op = "Command" /\ new.pc = "rpc"
                         \/ head.op = "Config" /\ new.pc = "policy"
    BY <2>1, <2>3
  <2> HIDE DEF head
  <2> QED BY <2>1, <2>2, <2>3, ReceiveEffect DEF head
<1> QED BY <1>1, <1>2

LEMMA ReadSettles ==
    ASSUME Ready, NEW d \in Device, SettlesFor(d), NEW t \in MonitoredTopics, hydration.pc = "done",
           UNCHANGED <<hydration, retained, controls_task, phoebus_view, now, intent>>,
           MonitorReceive(t),
           phoebus_topics' = [phoebus_topics EXCEPT ![t] = Tail(phoebus_topics[t])]
    PROVE  SettlesFor(d)'
<1> USE DEF Ready, Wished, TypeOK, ExternalTypeOK
<1> DEFINE head == Head(phoebus_topics[t])
           stages_ == {"policy", "rpc", "record", "update"}
<1>1. UNCHANGED <<alarm_states[d], metadata_cache[d], controls_view[d], controls_topic>>
  BY DEF MonitorReceive, caches, views
<1>2. /\ IsKnown(d)' <=> IsKnown(d)
      /\ ToldControls(d)' <=> ToldControls(d)
      /\ StatusWaits(d)' <=> StatusWaits(d)
  BY <1>1 DEF IsKnown, ToldControls, Effective, StatusWaits
<1>3. RecordWaits(d) <=> Configures(head, d) \/ RecordWaits(d)'
  BY ReadTakesConfig
<1>4. /\ monitors[t].pc = "idle"
      /\ \E new : /\ Becomes(t, new)
                  /\ new.pc \notin {"record", "update"}
                  /\ new.pc \in {"policy", "rpc"} /\ Configures(new.msg, d) <=> Configures(head, d)
  BY ReadTakesConfig
<1> HIDE DEF head
<1>5. PICK new : /\ Becomes(t, new)
                 /\ new.pc \notin {"record", "update"}
                 /\ new.pc \in {"policy", "rpc"} /\ Configures(new.msg, d) <=> Configures(head, d)
  BY <1>4
<1>6. /\ \A stages : {"policy", "rpc"} \subseteq stages /\ stages \subseteq stages_ =>
            (MonitorHolds(d, stages)' <=> Configures(head, d) \/ MonitorHolds(d, stages))
      /\ MonitorHolds(d, {"update"})' <=> MonitorHolds(d, {"update"})
      /\ monitors'[t] = new
  BY <1>4, <1>5, HoldingSplit, Zenon
<1>7. MonitorMirrors(monitors[t], d)'
  BY <1>5, <1>6 DEF MonitorMirrors
<1>8. /\ MonitorHolds(d, stages_)' <=> Configures(head, d) \/ MonitorHolds(d, stages_)
      /\ MonitorHolds(d, {"policy", "rpc", "record"})'
             <=> Configures(head, d) \/ MonitorHolds(d, {"policy", "rpc", "record"})
  BY <1>6
<1>9. /\ RecordWaits(d)' \/ MonitorHolds(d, stages_)' <=> RecordWaits(d) \/ MonitorHolds(d, stages_)
      /\ RecordWaits(d)' \/ MonitorHolds(d, {"policy", "rpc", "record"})'
             <=> RecordWaits(d) \/ MonitorHolds(d, {"policy", "rpc", "record"})
  BY <1>3, <1>8
<1> QED BY <1>1, <1>2, <1>5, <1>6, <1>7, <1>9, MonitorMovesOn

\* A config that is not forwarded says what is remembered.
LEMMA SuppressedIsRemembered ==
    ASSUME Wished, Agrees, NEW d \in Device, NEW t \in MonitoredTopics,
           monitors[t].pc = "policy", Configures(monitors[t].msg, d),
           suppresses_incoming(alarm_states[d], as_cached_state(monitors[t].msg.enabled, now))
    PROVE  Remembered(d) /\ IsKnown(d)
<1> USE DEF Wished, TypeOK, ExternalTypeOK
<1> DEFINE msg == monitors[t].msg
           updated == as_cached_state(msg.enabled, now)
<1>1. /\ msg.op = "Config" /\ msg.device = d /\ Normalizable(msg.enabled)
      /\ msg.enabled \in Enablement /\ now \in Nat
  BY DEF MonitorsTypeOK, MonitorTask, ConfigMsg, Configures
<1>2. updated \in CachedState /\ IsEnablement(updated.state)
  BY <1>1, AsCachedStateType DEF as_cached_state, Plain, IsEnablement
<1>3. alarm_states[d] = updated /\ alarm_states[d] # None
  BY <1>2 DEF suppresses_incoming, is_transition_forbidden, IsEnablement
<1>4. EffectiveAt(updated, now) = EffectiveAt(intent[d], now)
  BY <1>1, ReadingKeeps DEF Agrees, MonitorAgrees, RecordAgrees
<1> QED BY <1>2, <1>3, <1>4 DEF Remembered, IsKnown, Effective

\* So it ends where it is judged, or goes on to be called with.
LEMMA JudgeEffect ==
    ASSUME Wished, Agrees, NEW d \in Device, NEW t \in MonitoredTopics, MonitorDecide(t)
    PROVE  /\ monitors[t].pc = "policy"
           /\ \E new :
                 /\ Becomes(t, new)
                 /\ \/ /\ new.pc = "idle"
                       /\ Configures(monitors[t].msg, d) => Remembered(d) /\ IsKnown(d)
                    \/ /\ new.pc = "update" /\ new.msg = monitors[t].msg
                       /\ Configures(monitors[t].msg, d) => Remembered(d) /\ IsKnown(d)
                    \/ new.pc = "rpc" /\ new.msg = monitors[t].msg
<1> USE DEF Wished, TypeOK
<1> DEFINE task == monitors[t]
           Wanted == Configures(task.msg, d)
           updated == as_cached_state(task.msg.enabled, now)
           suppressed == suppresses_incoming(alarm_states[task.msg.device], updated)
<1>1. task.pc = "policy" /\ task \in MonitorTask /\ task.msg \in ConfigMsg
  BY DEF MonitorDecide, MonitorsTypeOK, MonitorTask
<1>2. /\ MonitorAt("idle").pc = "idle"
      /\ [task EXCEPT !.pc = "update"].pc = "update"
      /\ [task EXCEPT !.pc = "update"].msg = task.msg
      /\ [task EXCEPT !.pc = "rpc", !.updated = updated].pc = "rpc"
      /\ [task EXCEPT !.pc = "rpc", !.updated = updated].msg = task.msg
  BY <1>1 DEF MonitorAt, MonitorTask
<1>3. \/ /\ ~Normalizable(task.msg.enabled) \/ suppressed
         /\ Becomes(t, MonitorAt("idle"))
      \/ suppressed /\ Becomes(t, [task EXCEPT !.pc = "update"])
      \/ Becomes(t, [task EXCEPT !.pc = "rpc", !.updated = updated])
  BY DEF MonitorDecide
<1>4. Wanted /\ (~Normalizable(task.msg.enabled) \/ suppressed) => Remembered(d) /\ IsKnown(d)
  BY <1>1, SuppressedIsRemembered DEF Configures
<1> HIDE DEF suppressed, updated, Wanted
<1>5. \E new :
         /\ Becomes(t, new)
         /\ \/ new.pc = "idle" /\ (Wanted => Remembered(d) /\ IsKnown(d))
            \/ /\ new.pc = "update" /\ new.msg = task.msg
               /\ Wanted => Remembered(d) /\ IsKnown(d)
            \/ new.pc = "rpc" /\ new.msg = task.msg
  BY <1>2, <1>3, <1>4
<1> QED BY <1>1, <1>5 DEF Wanted

LEMMA JudgeSettles ==
    ASSUME Ready, NEW d \in Device, SettlesFor(d), NEW t \in MonitoredTopics, hydration.pc = "done",
           UNCHANGED <<hydration, retained, controls_task, phoebus_view, now, intent>>,
           MonitorDecide(t)
    PROVE  SettlesFor(d)'
<1> USE DEF Ready, Wished, TypeOK, ExternalTypeOK
<1> DEFINE task == monitors[t]
           Wanted == Configures(task.msg, d)
           all == {"policy", "rpc", "record", "update"}
           held == {"policy", "rpc", "record"}
<1>1. UNCHANGED <<alarm_states[d], metadata_cache[d], controls_view[d], controls_topic, phoebus_topics>>
  BY DEF MonitorDecide, caches, views, topics
<1>2. /\ IsKnown(d)' <=> IsKnown(d)
      /\ ToldControls(d)' <=> ToldControls(d)
      /\ StatusWaits(d)' <=> StatusWaits(d)
      /\ RecordWaits(d)' <=> RecordWaits(d)
  BY <1>1 DEF IsKnown, ToldControls, Effective, StatusWaits, RecordWaits
<1>3. task.pc = "policy" /\ task \in MonitorTask /\ task.msg \in ConfigMsg
  BY DEF MonitorDecide, MonitorsTypeOK, MonitorTask
<1>4. Remembered(d) /\ IsKnown(d) => ToldControls(d)
  BY DEF SettlesFor, KnownIsTold, Remembered, ToldControls
<1>5. PICK new :
         /\ Becomes(t, new)
         /\ \/ /\ new.pc = "idle"
               /\ Wanted => Remembered(d) /\ ToldControls(d) /\ IsKnown(d)
            \/ /\ new.pc = "update" /\ new.msg = task.msg
               /\ Wanted => Remembered(d) /\ ToldControls(d) /\ IsKnown(d)
            \/ new.pc = "rpc" /\ new.msg = task.msg
  BY <1>4, JudgeEffect
<1>6. \A stages : /\ MonitorHolds(d, stages) <=> \/ "policy" \in stages /\ Wanted
                                                 \/ OthersHold(t, d, stages)
                  /\ MonitorHolds(d, stages)' <=> \/ new.pc \in stages /\ Configures(new.msg, d)
                                                  \/ OthersHold(t, d, stages)
  BY <1>3, <1>5, HoldingSplit
<1>7. monitors'[t] = new
  BY <1>5, HoldingSplit
<1>8. OthersHold(t, d, {"update"}) => OthersHold(t, d, all)
  BY DEF OthersHold
<1>9. Remembered(d)' <=> Remembered(d)
  BY <1>1, NextTelling
<1>10. MonitorMirrors(monitors[t], d)'
  BY <1>2, <1>5, <1>7, <1>9 DEF MonitorMirrors
<1>11. ~Hydrates(d) /\ ~Scopes(d)
  BY ConfigsForDef DEF Hydrates, Scopes, Unapplied
<1>12. Wanted /\ IsKnown(d) => metadata_cache[d] # None \/ OthersHold(t, d, {"update"})
  BY <1>6, <1>11 DEF SettlesFor, KnownIsScoped
<1> HIDE DEF Wanted
<1>13. /\ RecordWaits(d)' \/ MonitorHolds(d, all)' => RecordWaits(d) \/ MonitorHolds(d, all)
       /\ MonitorHolds(d, {"update"}) => MonitorHolds(d, {"update"})'
  BY <1>2, <1>5, <1>6 DEF Wanted
<1>14. RecordWaits(d) \/ MonitorHolds(d, all) =>
          RecordWaits(d)' \/ MonitorHolds(d, all)' \/ metadata_cache[d] # None
  <2>1. Wanted => MonitorHolds(d, all)' \/ metadata_cache[d] # None
    BY <1>5, <1>6, <1>8, <1>9, <1>12 DEF Wanted
  <2> QED BY <1>2, <1>6, <2>1
<1>15. RecordWaits(d) \/ MonitorHolds(d, held) =>
          RecordWaits(d)' \/ MonitorHolds(d, held)' \/ Remembered(d)
  <2>1. Wanted => MonitorHolds(d, held)' \/ Remembered(d)
    BY <1>5, <1>6 DEF Wanted
  <2> QED BY <1>2, <1>6, <2>1
<1> QED BY <1>1, <1>2, <1>5, <1>10, <1>13, <1>14, <1>15, MonitorMovesOn

LEMMA CallSettles ==
    ASSUME Ready, NEW d \in Device, SettlesFor(d), NEW t \in MonitoredTopics, hydration.pc = "done",
           UNCHANGED <<hydration, retained, controls_task, phoebus_view, now, intent>>,
           MonitorRpc(t), NoFault
    PROVE  SettlesFor(d)'
<1> USE DEF Ready, Wished, TypeOK, ExternalTypeOK
<1> DEFINE task == monitors[t]
           served == ServedStatus(task)
<1>1. /\ task.pc = "rpc" /\ task \in MonitorTask /\ HoldsItsKind(task)
      /\ served \in Status /\ from_status(served) = task.updated
      /\ controls_topic' = Append(controls_topic, served) /\ PublishStatus(served)
      /\ UNCHANGED <<alarm_states, metadata_cache, phoebus_topics>>
  <2>1. ~Fault
    BY DEF Fault, NoFault
  <2> QED BY <2>1, RpcEffect DEF MonitorsTypeOK, TurnsAreTaken, caches
<1>2. PICK new : Becomes(t, new) /\ new.pc = "record" /\ new.msg = task.msg /\ new.updated = task.updated
  BY RpcEffect
<1>3. Enables(served, d) <=> Configures(task.msg, d)
  BY <1>1, ServedEnables
<1>4. Configures(task.msg, d) =>
         /\ EffectiveAt(task.updated, now) = EffectiveAt(intent[d], now)
         /\ controls_view'[d] = task.updated
  <2> SUFFICES ASSUME Configures(task.msg, d)
               PROVE  /\ EffectiveAt(task.updated, now) = EffectiveAt(intent[d], now)
                      /\ controls_view'[d] = task.updated
    OBVIOUS
  <2>1. task.msg.op = "Config" /\ task.msg.device = d /\ IsEnablement(task.updated.state)
    BY <1>1 DEF Configures, HoldsItsKind
  <2>2. EffectiveAt(task.updated, now) = EffectiveAt(intent[d], now)
    BY <1>1, <2>1 DEF Agrees, MonitorAgrees, UpdateAgrees
  <2>3. served.device = d /\ served.state = task.updated.state
    BY <2>1 DEF ServedStatus
  <2> HIDE DEF served
  <2> QED BY <1>1, <2>1, <2>2, <2>3 DEF PublishStatus
<1>5. Configures(task.msg, d) => ToldControls(d)'
  BY <1>4 DEF ToldControls, Effective
<1>6. controls_view'[d] = controls_view[d] \/ Configures(task.msg, d)
  BY <1>1, <1>3 DEF PublishStatus, Enables
<1>7. ToldControls(d) => ToldControls(d)'
  BY <1>5, <1>6, NextTelling
<1>8. StatusWaits(d)' <=> StatusWaits(d) \/ Configures(task.msg, d)
  <2>1. /\ controls_topic \in Seq(Status)
        /\ StatusWaits(d) <=> Waits(controls_topic, d)
        /\ StatusWaits(d)' <=> Waits(Append(controls_topic, served), d)
    BY <1>1 DEF StatusWaits, Waits
  <2> QED BY <1>1, <1>3, <2>1, AppendEnables, Zenon
<1>9. /\ IsKnown(d)' <=> IsKnown(d)
      /\ RecordWaits(d)' <=> RecordWaits(d)
  BY <1>1 DEF IsKnown, RecordWaits
<1>10. \A stages : /\ MonitorHolds(d, stages) <=> \/ "rpc" \in stages /\ Configures(task.msg, d)
                                                  \/ OthersHold(t, d, stages)
                   /\ MonitorHolds(d, stages)' <=> \/ "record" \in stages /\ Configures(task.msg, d)
                                                   \/ OthersHold(t, d, stages)
  BY <1>1, <1>2, HoldingSplit
<1>11. MonitorMirrors(monitors[t], d)'
  <2>1. monitors'[t] = new
    BY <1>2, HoldingSplit
  <2> QED BY <1>2, <1>4, <1>5, <2>1 DEF MonitorMirrors, Effective
<1> QED BY <1>1, <1>2, <1>5, <1>6, <1>7, <1>8, <1>9, <1>10, <1>11, MonitorMovesOn

\* A device that is remembered as both systems were told of it, and is in scope or
\* about to be.
LEMMA AllTold ==
    ASSUME Ready, NEW d \in Device, SettlesFor(d), NEW t \in MonitoredTopics, NEW new,
           Becomes(t, new), new.pc # "record", hydration'.pc = "done",
           UNCHANGED <<controls_task, now, intent>>,
           ToldControls(d)', ToldPhoebus(d)', Remembered(d)',
           metadata_cache'[d] # None \/ MonitorHolds(d, {"update"})',
           metadata_cache[d] # None => metadata_cache'[d] # None
    PROVE  SettlesFor(d)'
<1> USE DEF Ready, Wished, TypeOK
<1>1. SourcesTold(d)'
  BY DEF SourcesTold
<1>2. ControlsMirrors(d)'
  <2>1. \A stages : ControlsHolds(d, stages)' <=> ControlsHolds(d, stages)
    BY DEF ControlsHolds
  <2> QED BY <2>1 DEF SettlesFor, ControlsMirrors, Effective
<1>3. \A u \in MonitoredTopics : MonitorMirrors(monitors[u], d)'
  <2>1. monitors'[t] = new /\ \A u \in MonitoredTopics \ {t} : monitors'[u] = monitors[u]
    BY HoldingSplit
  <2>2. MonitorMirrors(monitors[t], d)'
    BY <2>1 DEF MonitorMirrors
  <2>3. \A u \in MonitoredTopics \ {t} : MonitorMirrors(monitors[u], d)'
    BY <2>1 DEF SettlesFor, MonitorMirrors, Effective
  <2> QED BY <2>2, <2>3
<1>4. KnownIsTold(d)'
  BY DEF KnownIsTold, ToldControls, ToldPhoebus, Remembered
<1>5. KnownIsScoped(d)'
  BY DEF KnownIsScoped
<1>6. MonitorHolds(d, {"update"})' => MonitorHolds(d, {"policy", "rpc", "record", "update"})'
  BY DEF MonitorHolds
<1>7. ConfiguredIsScoped(d)'
  BY <1>6 DEF ConfiguredIsScoped
<1>8. LogsShowIntent(d)'
  BY DEF LogsShowIntent
<1> QED BY <1>1, <1>2, <1>3, <1>4, <1>5, <1>7, <1>8 DEF SettlesFor

LEMMA RememberSettles ==
    ASSUME Ready, NEW d \in Device, SettlesFor(d), NEW t \in MonitoredTopics, hydration.pc = "done",
           UNCHANGED <<hydration, retained, controls_task, phoebus_view, now, intent>>,
           MonitorRecord(t)
    PROVE  SettlesFor(d)'
<1> USE DEF Ready, Wished, TypeOK, ExternalTypeOK
<1> DEFINE task == monitors[t]
<1>1. /\ task.pc = "record" /\ task \in MonitorTask /\ InHand(task) /\ HoldsItsKind(task)
      /\ alarm_states' = [alarm_states EXCEPT ![task.msg.device] = task.updated]
      /\ alarm_states \in [Device -> Observation]
      /\ UNCHANGED <<metadata_cache, controls_view, controls_topic, phoebus_topics>>
  BY InHandType DEF MonitorRecord, record_alarm_state, MonitorsTypeOK, CachesTypeOK,
                    TurnsAreTaken, views, topics
<1>2. \E new : /\ Becomes(t, new)
               /\ \/ task.msg.op = "Config" /\ new.pc = "update" /\ new.msg = task.msg
                  \/ task.msg.op = "Command" /\ new.pc = "idle"
  <2> DEFINE updating == [task EXCEPT !.pc = "update", !.updated = None, !.attempt = 1]
  <2>1. updating.pc = "update" /\ updating.msg = task.msg /\ MonitorAt("idle").pc = "idle"
    BY <1>1 DEF MonitorTask, MonitorAt
  <2>2. task.msg.op \in {"Command", "Config"}
    BY <1>1 DEF InHand, CommandMsg, ConfigMsg
  <2>3. IF task.msg.op = "Config" THEN Becomes(t, updating) ELSE Becomes(t, MonitorAt("idle"))
    BY DEF MonitorRecord
  <2> HIDE DEF updating
  <2> QED BY <2>1, <2>2, <2>3
<1>3. PICK new : /\ Becomes(t, new)
                 /\ \/ task.msg.op = "Config" /\ new.pc = "update" /\ new.msg = task.msg
                    \/ task.msg.op = "Command" /\ new.pc = "idle"
  BY <1>2
<1>4. /\ ToldControls(d)' <=> ToldControls(d)
      /\ ToldPhoebus(d)' <=> ToldPhoebus(d)
      /\ StatusWaits(d)' <=> StatusWaits(d)
      /\ RecordWaits(d)' <=> RecordWaits(d)
  BY <1>1 DEF ToldControls, ToldPhoebus, Effective, StatusWaits, RecordWaits
<1>5. ASSUME ~Configures(task.msg, d),
             \/ UNCHANGED <<alarm_states[d]>>
             \/ /\ ~ControlsHolds(d, {"lookup"})
                /\ \/ Effective(alarm_states[d])' = Effective(alarm_states[d])
                   \/ alarm_states[d] = None,
             IsKnown(d)' => IsKnown(d) /\ (UNCHANGED <<alarm_states[d]>> \/ alarm_states[d] # None)
      PROVE  SettlesFor(d)'
  <2>1. \A stages : "idle" \notin stages => (MonitorHolds(d, stages)' <=> MonitorHolds(d, stages))
    BY <1>3, <1>5, HoldingSplit DEF Configures
  <2>2. /\ MonitorHolds(d, {"policy", "rpc", "record", "update"})'
               <=> MonitorHolds(d, {"policy", "rpc", "record", "update"})
        /\ MonitorHolds(d, {"policy", "rpc", "record"})' <=> MonitorHolds(d, {"policy", "rpc", "record"})
        /\ MonitorHolds(d, {"update"})' <=> MonitorHolds(d, {"update"})
    BY <2>1
  <2>3. MonitorMirrors(monitors[t], d)'
    <3>1. monitors'[t] = new
      BY <1>3, HoldingSplit
    <3> QED BY <1>3, <1>5, <3>1 DEF MonitorMirrors
  <2> QED BY <1>1, <1>3, <1>4, <1>5, <2>2, <2>3, MonitorMovesOn
<1>6. CASE task.msg.device # d
  BY <1>1, <1>5, <1>6 DEF Configures, IsKnown
<1>7. CASE task.msg.op = "Command" /\ task.msg.device = d
  <2>1. task.msg.command = "acknowledge" /\ task.updated = Plain("Acknowledged")
    BY <1>1, <1>7 DEF HoldsItsKind
  <2>2. ~ControlsHolds(d, {"lookup"})
    <3>1. RecordKind(task.msg) = "acknowledgement"
      BY <1>7, <2>1 DEF RecordKind
    <3>2. OnlyKind("acknowledgement")
      BY <1>1, <3>1 DEF TurnsAreTaken, OneKind, OnlyKind, MonitorOf
    <3> QED BY <3>2, NothingEnabled DEF ControlsHolds
  <2>3. alarm_states'[d] = Plain("Acknowledged") /\ Plain("Acknowledged") # None
    <3>1. alarm_states'[d] = task.updated
      BY <1>1, <1>7, Zenon
    <3>2. task.updated # None
      BY <1>1, NoneAssumption DEF InHand
    <3> QED BY <2>1, <3>1, <3>2
  <2>4. alarm_states[d] # None => Effective(alarm_states[d])' = Effective(alarm_states[d])
    <3>1. ~IsBypassed(alarm_states[d])
      BY <1>1, <1>7 DEF TurnsAreTaken, AcknowledgesActive, Relaying
    <3> QED BY <2>3, <3>1 DEF IsBypassed, Effective, EffectiveAt, Plain
  <2>5. IsKnown(d)' => metadata_cache[d] # None /\ alarm_states[d] # None
    BY <1>1, <2>3 DEF IsKnown, IsEnablement, Plain, ScopeInvariant, ScopeImpliesObserved
  <2> QED BY <1>5, <1>7, <2>2, <2>4, <2>5 DEF Configures, IsKnown
<1>8. CASE task.msg.op = "Config" /\ task.msg.device = d
  <2>1. Configures(task.msg, d)
    BY <1>1, <1>8 DEF HoldsItsKind, Configures
  <2>2. /\ ToldControls(d)
        /\ Effective(task.updated) = Effective(intent[d])
        /\ ToldPhoebus(d)
    BY <1>1, <2>1 DEF SettlesFor, MonitorMirrors, SourcesTold, MonitorHolds
  <2>3. Remembered(d)'
    BY <1>1, <1>8, <2>2 DEF Remembered, Effective
  <2>4. MonitorHolds(d, {"update"})'
    BY <1>3, <1>8, <2>1, HoldingSplit
  <2> QED BY <1>1, <1>3, <1>4, <1>8, <2>2, <2>3, <2>4, AllTold
<1>9. task.msg.op \in {"Command", "Config"}
  BY <1>3
<1> QED BY <1>6, <1>7, <1>8, <1>9

LEMMA RescopeSettles ==
    ASSUME Ready, NEW d \in Device, SettlesFor(d), NEW t \in MonitoredTopics, hydration.pc = "done",
           UNCHANGED <<hydration, retained, controls_task, phoebus_view, now, intent>>,
           MonitorUpdate(t)
    PROVE  SettlesFor(d)'
<1> USE DEF Ready, Wished, TypeOK, ExternalTypeOK
<1> DEFINE task == monitors[t]
           renewed == [task.metadata EXCEPT !.specific = task.msg.specific]
<1>1. /\ task.pc = "update" /\ task.msg \in ConfigMsg /\ task.metadata \in PvMetadata
      /\ HoldsItsKind(task)
      /\ metadata_cache' = [metadata_cache EXCEPT ![task.msg.device] = renewed]
      /\ metadata_cache \in [Device -> PvMetadata \cup {None}]
      /\ UNCHANGED <<alarm_states, controls_view, controls_topic, phoebus_topics>>
      /\ Becomes(t, MonitorAt("idle")) /\ MonitorAt("idle").pc = "idle"
  BY DEF MonitorUpdate, update_cached_metadata, MonitorsTypeOK, MonitorTask, CachesTypeOK,
         TurnsAreTaken, views, topics, MonitorAt
<1>2. renewed # None
  BY <1>1, NoneAssumption DEF PvMetadata, ConfigMsg
<1> HIDE DEF renewed
<1>3. /\ ToldControls(d)' <=> ToldControls(d)
      /\ ToldPhoebus(d)' <=> ToldPhoebus(d)
      /\ Remembered(d)' <=> Remembered(d)
      /\ StatusWaits(d)' <=> StatusWaits(d)
      /\ RecordWaits(d)' <=> RecordWaits(d)
  BY <1>1 DEF ToldControls, ToldPhoebus, Remembered, Effective, StatusWaits, RecordWaits
<1>4. CASE task.msg.device # d
  <2>1. metadata_cache'[d] = metadata_cache[d] /\ (IsKnown(d)' <=> IsKnown(d))
    BY <1>1, <1>4 DEF IsKnown
  <2>2. \A stages : "idle" \notin stages => (MonitorHolds(d, stages)' <=> MonitorHolds(d, stages))
    BY <1>1, <1>4, HoldingSplit DEF Configures
  <2>3. /\ MonitorHolds(d, {"policy", "rpc", "record", "update"})'
               <=> MonitorHolds(d, {"policy", "rpc", "record", "update"})
        /\ MonitorHolds(d, {"policy", "rpc", "record"})' <=> MonitorHolds(d, {"policy", "rpc", "record"})
        /\ MonitorHolds(d, {"update"})' <=> MonitorHolds(d, {"update"})
    BY <2>2
  <2>4. MonitorMirrors(monitors[t], d)'
    <3>1. monitors'[t] = MonitorAt("idle")
      BY <1>1, HoldingSplit
    <3> QED BY <1>1, <3>1 DEF MonitorMirrors
  <2> QED BY <1>1, <1>3, <2>1, <2>3, <2>4, MonitorMovesOn
<1>5. CASE task.msg.device = d
  <2>1. Configures(task.msg, d)
    BY <1>1, <1>5 DEF HoldsItsKind, Configures, ConfigMsg
  <2>2. ToldControls(d) /\ Remembered(d) /\ ToldPhoebus(d)
    BY <1>1, <2>1 DEF SettlesFor, MonitorMirrors, SourcesTold, MonitorHolds
  <2>3. metadata_cache'[d] # None
    BY <1>1, <1>2, <1>5
  <2> QED BY <1>1, <1>3, <2>2, <2>3, AllTold
<1> QED BY <1>4, <1>5

LEMMA MonitorSettles ==
    ASSUME Ready, NEW d \in Device, SettlesFor(d), NEW t \in MonitoredTopics, RunMonitor(t), NoFault,
           UNCHANGED intent
    PROVE  SettlesFor(d)'
  BY FaultlessMonitor, RejoinSettles, ReadSettles, JudgeSettles, CallSettles, RememberSettles,
     RescopeSettles DEF Ready, Wished

=============================================================================
