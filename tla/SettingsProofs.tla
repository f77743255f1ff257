--------------------------- MODULE SettingsProofs ----------------------------
(***************************************************************************)
(* The cached settings of a device are those of its last config, or the    *)
(* record that carries them is under way: for every instance in which a    *)
(* device is configured in one topic, in whatever order operators act.     *)
(* And where a device is mirrored to does not change while operators act   *)
(* one at a time.                                                          *)
(***************************************************************************)
EXTENDS AgreementProofs

-----------------------------------------------------------------------------
(* The last config of a queue.                                             *)

LEMMA TailSets ==
    ASSUME NEW records \in Seq(PhoebusMsg), records # <<>>, NEW d, NEW specific,
           LastSets(records, d, specific)
    PROVE  /\ LastSets(Tail(records), d, specific)
           /\ Configures(Head(records), d) /\ ConfigsFor(Tail(records), d) = {}
                 => Head(records).specific = specific
<1>1. ASSUME NEW i \in DOMAIN Tail(records), IsLastConfig(i, Tail(records), d)
      PROVE  Tail(records)[i].specific = specific
  <2>1. /\ i + 1 \in DOMAIN records /\ IsLastConfig(i + 1, records, d)
        /\ Tail(records)[i] = records[i + 1]
    BY <1>1, LastConfigOfTail, Zenon
  <2> QED BY <2>1 DEF LastSets
<1>2. ASSUME Configures(Head(records), d), ConfigsFor(Tail(records), d) = {}
      PROVE  Head(records).specific = specific
  <2>1. 1 \in DOMAIN records /\ IsLastConfig(1, records, d) /\ Head(records) = records[1]
    BY <1>2, LastConfigOfTail, Zenon
  <2> QED BY <2>1 DEF LastSets
<1>3. LastSets(Tail(records), d, specific)
  BY <1>1, Zenon DEF LastSets
<1> QED BY <1>2, <1>3

\* A queue that ends in a config of the device has its settings, and any other record
\* leaves them as they are.
LEMMA AppendSets ==
    ASSUME NEW records \in Seq(PhoebusMsg), NEW msg \in PhoebusMsg, NEW d
    PROVE  /\ Configures(msg, d) => LastSets(Append(records, msg), d, msg.specific)
           /\ ~Configures(msg, d) => \A specific :
                 LastSets(records, d, specific) => LastSets(Append(records, msg), d, specific)
<1> DEFINE more == Append(records, msg)
           n == Len(records) + 1
<1>1. /\ DOMAIN more = DOMAIN records \cup {n} /\ more[n] = msg
      /\ DOMAIN records = 1 .. Len(records) /\ Len(records) \in Nat
      /\ \A i \in DOMAIN records : more[i] = records[i]
  OBVIOUS
<1> HIDE DEF more, n
<1>2. ASSUME Configures(msg, d), NEW i \in DOMAIN more, IsLastConfig(i, more, d)
      PROVE  more[i].specific = msg.specific
  <2>1. n \in ConfigsFor(more, d)
    BY <1>1, <1>2, ConfigsForDef
  <2>2. n <= i
    BY <1>2, <2>1 DEF IsLastConfig
  <2>3. i = n
    BY <1>1, <1>2, <2>2 DEF n
  <2> QED BY <1>1, <2>3
<1>3. ASSUME ~Configures(msg, d), NEW i \in DOMAIN more, IsLastConfig(i, more, d)
      PROVE  i \in DOMAIN records /\ IsLastConfig(i, records, d) /\ more[i] = records[i]
  <2>1. Configures(more[i], d)
    BY <1>3, ConfigsForDef DEF IsLastConfig
  <2>2. i \in DOMAIN records /\ more[i] = records[i]
    BY <1>1, <1>3, <2>1
  <2>3. ConfigsFor(records, d) \subseteq ConfigsFor(more, d)
    BY <1>1, ConfigsForDef
  <2>4. i \in ConfigsFor(records, d)
    BY <2>1, <2>2, ConfigsForDef
  <2> QED BY <1>3, <2>2, <2>3, <2>4 DEF IsLastConfig
<1>4. Configures(msg, d) => LastSets(more, d, msg.specific)
  BY <1>2 DEF LastSets
<1>5. ~Configures(msg, d) => \A specific :
          LastSets(records, d, specific) => LastSets(more, d, specific)
  BY <1>3 DEF LastSets
<1> QED BY <1>4, <1>5 DEF more

\* A snapshot is the log and what was published since.
LEMMA SnapshotSets ==
    ASSUME NEW log \in Seq(PhoebusMsg), NEW queue \in Seq(PhoebusMsg), NEW d
    PROVE  /\ ConfigsFor(log \o queue, d) # {} => ConfigsFor(log, d) # {} \/ ConfigsFor(queue, d) # {}
           /\ ConfigsFor(queue, d) = {} => \A specific :
                 LastSets(log, d, specific) => LastSets(log \o queue, d, specific)
<1> DEFINE all == log \o queue
<1>1. /\ DOMAIN all = 1 .. Len(log) + Len(queue) /\ Len(log) \in Nat /\ Len(queue) \in Nat
      /\ DOMAIN log = 1 .. Len(log) /\ DOMAIN queue = 1 .. Len(queue)
      /\ \A i \in DOMAIN log : all[i] = log[i]
      /\ \A i \in DOMAIN all : i \notin DOMAIN log => all[i] = queue[i - Len(log)]
  OBVIOUS
<1> HIDE DEF all
<1>2. \A i \in DOMAIN all : i \notin DOMAIN log => i - Len(log) \in DOMAIN queue
  BY <1>1
<1>3. ASSUME NEW i \in ConfigsFor(all, d)
      PROVE  \/ i \in ConfigsFor(log, d) /\ all[i] = log[i]
             \/ i - Len(log) \in ConfigsFor(queue, d)
  <2>1. i \in DOMAIN all /\ Configures(all[i], d)
    BY ConfigsForDef
  <2> QED BY <1>1, <1>2, <2>1, ConfigsForDef
<1>4. ConfigsFor(log, d) \subseteq ConfigsFor(all, d)
  <2>1. DOMAIN log \subseteq DOMAIN all
    BY <1>1
  <2> QED BY <1>1, <2>1, ConfigsForDef
<1>5. ASSUME ConfigsFor(queue, d) = {}, NEW i, IsLastConfig(i, all, d)
      PROVE  i \in DOMAIN log /\ IsLastConfig(i, log, d) /\ all[i] = log[i]
  <2>1. i \in ConfigsFor(log, d) /\ all[i] = log[i]
    BY <1>3, <1>5 DEF IsLastConfig
  <2>2. i \in DOMAIN log
    BY <2>1, ConfigsForDef
  <2> QED BY <1>4, <1>5, <2>1, <2>2 DEF IsLastConfig
<1>6. ConfigsFor(queue, d) = {} => \A specific :
          LastSets(log, d, specific) => LastSets(all, d, specific)
  BY <1>5 DEF LastSets
<1> QED BY <1>3, <1>6 DEF all

-----------------------------------------------------------------------------
(* Every step keeps the settings under way, for each device.               *)

\* What SettingsUnderway says of one device, and what it relies on.
SettingsOf(d) ==
    StaysAtHome(d) /\ \A t \in MonitoredTopics : ConfiguredIn(t, d) => SettingsFor(t, d)

Placed == TypeOK /\ retained \in RetainedLogs /\ Orderly

\* A step that leaves queues, caches, startup pass and monitors alone leaves the
\* settings where they are.
LEMMA SettingsFrame ==
    ASSUME NEW d,
           UNCHANGED <<metadata_cache, monitors, hydration, retained, phoebus_topics, phoebus_specific>>
    PROVE  /\ \A t : SettingsFor(t, d) => SettingsFor(t, d)'
           /\ (controls_task'.pc = "publish" => controls_task' = controls_task)
                 => (StaysAtHome(d) => StaysAtHome(d)')
<1>1. ASSUME NEW t, SettingsFor(t, d) PROVE SettingsFor(t, d)'
  BY <1>1 DEF SettingsFor, LastSets, CachedAre, HasInHand, Unscoped
<1>2. ASSUME controls_task'.pc = "publish" => controls_task' = controls_task, StaysAtHome(d)
      PROVE  StaysAtHome(d)'
  BY <1>2 DEF StaysAtHome, HasInHand, Unscoped
<1> QED BY <1>1, <1>2

\* A record published in the topic of the device carries its settings.
LEMMA PublishedSettings ==
    ASSUME TypeOK, NEW d \in Device, SettingsOf(d),
           NEW u \in MonitoredTopics, NEW msg \in PhoebusMsg, PublishPhoebus(u, msg),
           Configures(msg, d) => ConfiguredIn(u, d),
           UNCHANGED <<metadata_cache, monitors, hydration, retained>>,
           controls_task'.pc # "publish" \/ controls_task' = controls_task
    PROVE  SettingsOf(d)'
<1> USE DEF TypeOK, ExternalTypeOK
<1>1. /\ phoebus_topics'[u] = Append(phoebus_topics[u], msg)
      /\ \A t \in MonitoredTopics \ {u} : phoebus_topics'[t] = phoebus_topics[t]
      /\ \A t \in MonitoredTopics : phoebus_topics[t] \in Seq(PhoebusMsg)
  BY DEF PublishPhoebus
<1>2. /\ Configures(msg, d) => phoebus_specific'[u][d] = msg.specific
      /\ \A t \in MonitoredTopics : t # u \/ ~Configures(msg, d)
            => phoebus_specific'[t][d] = phoebus_specific[t][d]
  <2>1. CASE msg.op = "Config" /\ Normalizable(msg.enabled)
    <3>1. phoebus_specific' = [phoebus_specific EXCEPT ![u][msg.device] = msg.specific]
      BY <2>1 DEF PublishPhoebus
    <3>2. msg.device = d <=> Configures(msg, d)
      BY <2>1 DEF Configures
    <3> QED BY <3>1, <3>2
  <2>2. CASE ~(msg.op = "Config" /\ Normalizable(msg.enabled))
    BY <2>2 DEF PublishPhoebus, phoebus_side, Configures
  <2> QED BY <2>1, <2>2
<1>3. StaysAtHome(d)'
  <2>1. ConfigsFor(phoebus_topics'[u], d) # {} => ConfiguredIn(u, d)
    BY <1>1, AppendConfigures DEF SettingsOf, StaysAtHome
  <2>2. \A t \in MonitoredTopics : ConfigsFor(phoebus_topics'[t], d) # {} => ConfiguredIn(t, d)
    BY <1>1, <2>1 DEF SettingsOf, StaysAtHome
  <2> QED BY <2>2 DEF SettingsOf, StaysAtHome, HasInHand, Unscoped
<1>4. ASSUME NEW t \in MonitoredTopics, ConfiguredIn(t, d)
      PROVE  SettingsFor(t, d)'
  <2>1. SettingsFor(t, d)
    BY <1>4 DEF SettingsOf
  <2>2. CASE t = u /\ Configures(msg, d)
    <3>1. LastSets(phoebus_topics'[t], d, phoebus_specific'[t][d])
      BY <1>1, <1>2, <2>2, AppendSets
    <3>2. ConfigsFor(phoebus_topics'[t], d) # {}
      BY <1>1, <2>2, AppendConfigures
    <3> QED BY <3>1, <3>2 DEF SettingsFor
  <2>3. CASE t # u \/ ~Configures(msg, d)
    <3>1. phoebus_specific'[t][d] = phoebus_specific[t][d]
      BY <1>2, <2>3
    <3>2. LastSets(phoebus_topics'[t], d, phoebus_specific[t][d])
      <4>1. LastSets(phoebus_topics[t], d, phoebus_specific[t][d])
        BY <2>1, Zenon DEF SettingsFor
      <4>2. CASE t = u
        <5>1. phoebus_topics[u] \in Seq(PhoebusMsg) /\ ~Configures(msg, d)
          BY <1>1, <2>3, <4>2
        <5>2. \A specific : LastSets(phoebus_topics[u], d, specific)
                                => LastSets(Append(phoebus_topics[u], msg), d, specific)
          BY <5>1, AppendSets, Zenon
        <5> QED BY <1>1, <4>1, <4>2, <5>2
      <4>3. CASE t # u
        BY <1>1, <4>1, <4>3
      <4> QED BY <4>2, <4>3
    <3>3. ConfigsFor(phoebus_topics'[t], d) = {} => ConfigsFor(phoebus_topics[t], d) = {}
      BY <1>1, AppendConfigures
    <3> QED BY <2>1, <3>1, <3>2, <3>3 DEF SettingsFor, LastSets, CachedAre, HasInHand, Unscoped
  <2> QED BY <2>2, <2>3
<1> QED BY <1>3, <1>4 DEF SettingsOf

LEMMA ControlsKeepsSettings ==
    ASSUME Placed, NEW d \in Device, SettingsOf(d), RunControls
    PROVE  SettingsOf(d)'
<1> USE DEF Placed, TypeOK
<1>1. UNCHANGED <<metadata_cache, monitors, hydration, retained>>
  BY DEF RunControls, ControlsStep, ControlsSubscribe, ControlsStreamEnds, ControlsReceive,
         ControlsDecide, ControlsPublish, ControlsRecord, caches
<1>2. CASE ControlsPublish
  <2>1. controls_task.pc = "publish" /\ controls_task'.pc = "record"
    BY <1>2, PublishEffect DEF ControlsPublish
  <2>2. CASE UNCHANGED <<phoebus_topics, phoebus_specific>>
    BY <1>1, <2>1, <2>2, SettingsFrame DEF SettingsOf
  <2>3. CASE OutboundTopic \in MonitoredTopics /\ PublishPhoebus(OutboundTopic, MirroredRecord)
    <3>1. MirroredRecord \in PhoebusMsg /\ controls_task.alarm \in Mirrored
      BY <1>2, PublishEffect
    <3>2. ASSUME Configures(MirroredRecord, d)
          PROVE  ConfiguredIn(OutboundTopic, d)
      <4>1. Enables(controls_task.alarm, d)
        BY <3>1, <3>2, MirroredConfigures DEF MirroredRecord
      <4>2. OutboundTopic = controls_task.metadata.topic
        BY <4>1 DEF Enables, IsEnablement, OutboundTopic, get_topic_for_operation, state_to_operation
      <4> QED BY <2>1, <4>1, <4>2 DEF SettingsOf, StaysAtHome, Enables
    <3> QED BY <1>1, <2>1, <2>3, <3>1, <3>2, PublishedSettings
  <2> QED BY <1>2, <2>2, <2>3 DEF ControlsPublish, MirroredRecord, phoebus_side
<1>3. CASE ~ControlsPublish
  <2>1. UNCHANGED <<phoebus_topics, phoebus_specific>>
    BY <1>3 DEF RunControls, ControlsStep, ControlsSubscribe, ControlsStreamEnds, ControlsReceive,
                ControlsDecide, ControlsRecord, topics, views, phoebus_side
  <2>2. CASE controls_task'.pc # "publish"
    BY <1>1, <2>1, <2>2, SettingsFrame DEF SettingsOf
  <2>3. CASE controls_task'.pc = "publish"
    <3>1. ControlsDecide \/ controls_task' = controls_task
      BY <1>3, <2>3 DEF RunControls, ControlsStep, ControlsSubscribe, ControlsStreamEnds,
                        ControlsReceive, ControlsRecord, ControlsAt
    <3>2. CASE controls_task' = controls_task
      BY <1>1, <2>1, <3>2, SettingsFrame DEF SettingsOf
    <3>3. CASE ControlsDecide
      <4>1. /\ controls_task'.alarm = controls_task.alarm
            /\ controls_task'.metadata = metadata_cache[controls_task.alarm.device]
            /\ metadata_cache[controls_task.alarm.device] # None
        BY <2>3, <3>3 DEF ControlsDecide, ControlsAt, SyncsToPhoebus
      <4>2. StaysAtHome(d)'
        BY <1>1, <2>1, <4>1 DEF SettingsOf, StaysAtHome, HasInHand, Unscoped
      <4> QED BY <1>1, <2>1, <4>2, SettingsFrame DEF SettingsOf
    <3> QED BY <3>1, <3>2, <3>3
  <2> QED BY <2>2, <2>3
<1> QED BY <1>2, <1>3

\* The startup pass: the last config of a snapshot is the last one of its topic, and
\* the last one to be applied.
LEMMA HydrationKeepsSettings ==
    ASSUME Placed, NEW d \in Device, SettingsOf(d), RunHydration, NoFault, OneTopicEach
    PROVE  SettingsOf(d)'
<1> USE DEF Placed, TypeOK, ExternalTypeOK, HydrationTypeOK, Hydration
<1>1. UNCHANGED <<controls_task, monitors, retained, phoebus_topics, phoebus_specific>>
  BY DEF RunHydration, HydrationStep, HydrationSnapshot, HydrationApply, HydrationUpdate,
         HydrationNextTopic, HydrationDone, topics, views, phoebus_side
<1>2. hydration.pc # "done" /\ \A t \in MonitoredTopics : ~HasInHand(t, d) /\ ~HasInHand(t, d)'
  BY <1>1 DEF RunHydration, HydrationStep, HydrationSnapshot, HydrationApply, HydrationUpdate,
              HydrationNextTopic, HydrationDone, Orderly, HasInHand
<1>3. ASSUME \/ UNCHANGED <<metadata_cache[d]>>
             \/ ConfiguredIn(metadata_cache'[d].topic, d),
             ConfigsFor(Unscoped', d) # {} => ConfiguredIn(Head(hydration'.todo), d),
             \A t \in MonitoredTopics : ConfiguredIn(t, d) /\ ConfigsFor(phoebus_topics[t], d) = {} =>
                /\ LastSets(Unscoped', d, phoebus_specific[t][d])
                /\ ConfigsFor(Unscoped', d) = {} => CachedAre(d, phoebus_specific[t][d])'
      PROVE  SettingsOf(d)'
  <2>1. StaysAtHome(d)'
    BY <1>1, <1>2, <1>3 DEF SettingsOf, StaysAtHome, HasInHand, Unscoped
  <2>2. ASSUME NEW t \in MonitoredTopics, ConfiguredIn(t, d)
        PROVE  SettingsFor(t, d)'
    BY <1>1, <1>2, <1>3, <2>2 DEF SettingsOf, SettingsFor, LastSets, CachedAre, Unscoped
  <2> QED BY <2>1, <2>2 DEF SettingsOf
<1>4. \A t \in MonitoredTopics : ConfiguredIn(t, d) /\ ConfigsFor(phoebus_topics[t], d) = {} =>
          /\ t \in PhoebusTopics => LastSets(retained[t], d, phoebus_specific[t][d])
          /\ LastSets(Unscoped, d, phoebus_specific[t][d])
          /\ ConfigsFor(Unscoped, d) = {} => CachedAre(d, phoebus_specific[t][d])
  BY <1>2 DEF SettingsOf, SettingsFor
<1>5. CASE HydrationSnapshot
  <2> DEFINE topic == Head(hydration.todo)
             snapshot == retained[topic] \o phoebus_topics[topic]
  <2>1. topic \in PhoebusTopics /\ topic \in MonitoredTopics
    BY <1>5, TopicFacts DEF HydrationSnapshot
  <2>2. hydration' = [hydration EXCEPT !.pc = "apply", !.messages = snapshot]
    <3>1. ~Fault
      BY DEF Fault, NoFault
    <3> QED BY <1>5, <3>1 DEF HydrationSnapshot
  <2>3. hydration'.todo = hydration.todo /\ Unscoped' = snapshot /\ UNCHANGED metadata_cache
    BY <1>5, <2>2 DEF HydrationSnapshot, Unscoped, caches
  <2>4. retained[topic] \in Seq(PhoebusMsg) /\ phoebus_topics[topic] \in Seq(PhoebusMsg)
    BY <2>1
  <2>5. Unscoped = <<>> /\ ConfigsFor(Unscoped, d) = {}
    BY <1>5, ConfigsForDef DEF HydrationSnapshot, Unscoped
  <2> HIDE DEF topic
  <2>6. ConfigsFor(snapshot, d) # {} => ConfiguredIn(topic, d)
    <3>1. ConfigsFor(retained[topic], d) # {} => ConfiguredIn(topic, d)
      BY <2>1 DEF ConfiguredIn
    <3>2. ConfigsFor(phoebus_topics[topic], d) # {} => ConfiguredIn(topic, d)
      BY <2>1 DEF SettingsOf, StaysAtHome
    <3> QED BY <2>4, <3>1, <3>2, SnapshotSets
  <2>7. ASSUME NEW t \in MonitoredTopics, ConfiguredIn(t, d), ConfigsFor(phoebus_topics[t], d) = {}
        PROVE  /\ LastSets(snapshot, d, phoebus_specific[t][d])
               /\ CachedAre(d, phoebus_specific[t][d])'
    <3>a. CachedAre(d, phoebus_specific[t][d])'
      <4>1. CachedAre(d, phoebus_specific[t][d])
        BY <1>4, <2>5, <2>7
      <4> QED BY <1>1, <2>3, <4>1 DEF CachedAre
    <3>1. CASE ConfigsFor(snapshot, d) # {}
      <4>1. t = topic
        BY <2>1, <2>6, <2>7, <3>1 DEF OneTopicEach
      <4>2. LastSets(retained[topic], d, phoebus_specific[t][d])
        BY <1>4, <2>1, <2>7, <4>1
      <4>3. LastSets(snapshot, d, phoebus_specific[t][d])
        BY <2>4, <2>7, <4>1, <4>2, SnapshotSets
      <4> QED BY <3>a, <4>3
    <3>2. CASE ConfigsFor(snapshot, d) = {}
      <4>1. LastSets(snapshot, d, phoebus_specific[t][d])
        BY <3>2 DEF LastSets, IsLastConfig
      <4> QED BY <3>a, <4>1
    <3> QED BY <3>1, <3>2
  <2> QED BY <1>3, <2>3, <2>6, <2>7 DEF topic
<1>6. CASE HydrationApply \/ HydrationUpdate
  <2> DEFINE msgs == hydration.messages
             msg == Head(msgs)
  <2>1. /\ hydration.pc \in {"apply", "update"} /\ msgs # <<>> /\ msgs \in Seq(PhoebusMsg)
        /\ hydration.todo # <<>> /\ Head(hydration.todo) \in PhoebusTopics
        /\ msg \in PhoebusMsg
    BY <1>6 DEF HydrationApply, HydrationUpdate
  <2>2. /\ Unscoped = msgs /\ hydration'.todo = hydration.todo
        /\ Unscoped' \in {msgs, Tail(msgs)}
    BY <1>6, <2>1 DEF HydrationApply, HydrationUpdate, Unscoped
  <2>3. CASE HydrationApply
    <3>1. UNCHANGED metadata_cache /\ (Unscoped' = msgs \/ ~Configures(msg, d))
      BY <2>1, <2>2, <2>3 DEF HydrationApply, Unscoped, Configures
    <3>2. ConfigsFor(Unscoped', d) # {} <=> ConfigsFor(msgs, d) # {}
      BY <2>1, <2>2, <3>1, TailConfigures
    <3>3. ASSUME NEW specific, LastSets(msgs, d, specific)
          PROVE  LastSets(Unscoped', d, specific)
      <4>1. LastSets(Tail(msgs), d, specific)
        BY <2>1, <3>3, TailSets, Zenon
      <4> QED BY <2>2, <3>3, <4>1
    <3>4. ConfigsFor(msgs, d) # {} => ConfiguredIn(Head(hydration.todo), d)
      BY <2>2 DEF SettingsOf, StaysAtHome
    <3>5. ASSUME NEW t \in MonitoredTopics, ConfiguredIn(t, d), ConfigsFor(phoebus_topics[t], d) = {}
          PROVE  /\ LastSets(Unscoped', d, phoebus_specific[t][d])
                 /\ ConfigsFor(Unscoped', d) = {} => CachedAre(d, phoebus_specific[t][d])'
      <4>1. LastSets(Unscoped', d, phoebus_specific[t][d])
        BY <1>4, <2>2, <3>3, <3>5
      <4>2. CachedAre(d, phoebus_specific[t][d])' <=> CachedAre(d, phoebus_specific[t][d])
        BY <1>1, <3>1 DEF CachedAre
      <4> QED BY <1>4, <2>2, <3>2, <3>5, <4>1, <4>2
    <3> QED BY <1>3, <2>2, <3>1, <3>2, <3>4, <3>5
  <2>4. CASE HydrationUpdate
    <3>1. /\ Unscoped' = Tail(msgs)
          /\ msg.op = "Config" /\ Normalizable(msg.enabled) /\ msg.device \in Device
          /\ metadata_cache' = [metadata_cache EXCEPT ![msg.device] =
                 [specific |-> msg.specific, path |-> msg.path, topic |-> Head(hydration.todo)]]
      BY <2>1, <2>4 DEF HydrationUpdate, update_cached_metadata, Unscoped, Orderly, ConfigMsg
    <3>2. ConfigsFor(msgs, d) # {} => ConfiguredIn(Head(hydration.todo), d)
      BY <2>2 DEF SettingsOf, StaysAtHome
    <3>3. /\ ConfigsFor(msgs, d) # {} <=> msg.device = d \/ ConfigsFor(Unscoped', d) # {}
          /\ Configures(msg, d) <=> msg.device = d
      BY <2>1, <3>1, TailConfigures DEF Configures
    <3>4. \/ UNCHANGED <<metadata_cache[d]>> /\ msg.device # d
          \/ /\ msg.device = d /\ metadata_cache'[d].topic = Head(hydration.todo)
             /\ metadata_cache'[d].specific = msg.specific
      BY <3>1 DEF CachesTypeOK
    <3>5. ASSUME NEW t \in MonitoredTopics, ConfiguredIn(t, d), ConfigsFor(phoebus_topics[t], d) = {}
          PROVE  /\ LastSets(Unscoped', d, phoebus_specific[t][d])
                 /\ ConfigsFor(Unscoped', d) = {} => CachedAre(d, phoebus_specific[t][d])'
      <4>1. LastSets(msgs, d, phoebus_specific[t][d])
        BY <1>4, <2>2, <3>5
      <4>2. /\ LastSets(Unscoped', d, phoebus_specific[t][d])
            /\ Configures(msg, d) /\ ConfigsFor(Unscoped', d) = {}
                  => msg.specific = phoebus_specific[t][d]
        BY <2>1, <3>1, <4>1, TailSets
      <4>3. CASE msg.device = d
        BY <1>1, <3>3, <3>4, <4>2, <4>3 DEF CachedAre
      <4>4. CASE msg.device # d
        BY <1>1, <1>4, <2>2, <3>3, <3>4, <3>5, <4>2, <4>4 DEF CachedAre
      <4> QED BY <4>3, <4>4
    <3> QED BY <1>3, <2>2, <3>2, <3>3, <3>4, <3>5
  <2> QED BY <1>6, <2>3, <2>4
<1>7. CASE HydrationNextTopic \/ HydrationDone
  <2>1. /\ Unscoped = <<>> /\ Unscoped' = <<>> /\ UNCHANGED metadata_cache
    BY <1>7 DEF HydrationNextTopic, HydrationDone, Unscoped, caches
  <2>2. ConfigsFor(Unscoped', d) = {} /\ \A specific : LastSets(Unscoped', d, specific)
    BY <2>1, ConfigsForDef DEF LastSets
  <2>3. ASSUME NEW t \in MonitoredTopics, ConfiguredIn(t, d), ConfigsFor(phoebus_topics[t], d) = {}
        PROVE  CachedAre(d, phoebus_specific[t][d])'
    <3>1. CachedAre(d, phoebus_specific[t][d])
      BY <1>4, <2>1, <2>2, <2>3
    <3> QED BY <1>1, <2>1, <3>1 DEF CachedAre
  <2> QED BY <1>3, <2>1, <2>2, <2>3
<1> QED BY <1>5, <1>6, <1>7 DEF RunHydration, HydrationStep

\* A monitor that takes up nothing of the device, and neither reads nor writes its
\* metadata, leaves its settings where they are.
LEMMA MonitorFrame ==
    ASSUME TypeOK, NEW d \in Device, SettingsOf(d), hydration.pc = "done",
           NEW t \in MonitoredTopics, NEW new, Becomes(t, new),
           UNCHANGED <<hydration, retained, controls_task, phoebus_specific>>,
           UNCHANGED <<metadata_cache[d]>>,
           \A u \in MonitoredTopics : u # t => phoebus_topics'[u] = phoebus_topics[u],
           ConfigsFor(phoebus_topics'[t], d) # {} => ConfigsFor(phoebus_topics[t], d) # {},
           HasInHand(t, d)' =>
               /\ ConfiguredIn(t, d) /\ new.metadata.topic = t
               /\ metadata_cache[d] \in {None, new.metadata},
           ConfiguredIn(t, d) =>
               /\ LastSets(phoebus_topics'[t], d, phoebus_specific[t][d])
               /\ ConfigsFor(phoebus_topics'[t], d) = {} =>
                     IF HasInHand(t, d)' THEN new.msg.specific = phoebus_specific[t][d]
                                         ELSE CachedAre(d, phoebus_specific[t][d])
    PROVE  SettingsOf(d)'
<1> USE DEF TypeOK, MonitorsTypeOK
<1>1. monitors'[t] = new /\ \A u \in MonitoredTopics : u # t => monitors'[u] = monitors[u]
  BY DEF Becomes
<1>2. \A u \in MonitoredTopics : u # t => (HasInHand(u, d)' <=> HasInHand(u, d))
  BY <1>1 DEF HasInHand
<1>3. Unscoped = <<>> /\ Unscoped' = <<>>
  BY DEF Unscoped
<1>4. ConfigsFor(<<>>, d) = {} /\ \A specific : LastSets(<<>>, d, specific)
  BY ConfigsForDef DEF LastSets
<1>5. StaysAtHome(d)'
  <2>1. ASSUME NEW u \in MonitoredTopics
        PROVE  /\ ConfigsFor(phoebus_topics'[u], d) # {} => ConfiguredIn(u, d)
               /\ HasInHand(u, d)' =>
                     /\ ConfiguredIn(u, d)
                     /\ monitors'[u].metadata.topic = u
                     /\ metadata_cache'[d] \in {None, monitors'[u].metadata}
    BY <1>1, <1>2 DEF SettingsOf, StaysAtHome
  <2>2. ConfigsFor(Unscoped', d) = {}
    BY <1>3, <1>4
  <2> QED BY <2>1, <2>2 DEF SettingsOf, StaysAtHome
<1>6. ASSUME NEW u \in MonitoredTopics, ConfiguredIn(u, d)
      PROVE  SettingsFor(u, d)'
  <2> DEFINE specific == phoebus_specific[u][d]
  <2>1. /\ LastSets(Unscoped', d, specific) /\ ConfigsFor(Unscoped', d) = {}
        /\ ConfigsFor(Unscoped, d) = {} /\ phoebus_specific'[u][d] = specific
        /\ UNCHANGED <<metadata_cache[d]>>
    BY <1>3, <1>4
  <2>2. SettingsFor(u, d)
    BY <1>6 DEF SettingsOf
  <2> HIDE DEF specific
  <2>3. LastSets(phoebus_topics'[u], d, specific)
    BY <1>6, <2>2 DEF SettingsFor, specific
  <2>4. ConfigsFor(phoebus_topics'[u], d) = {} =>
            /\ HasInHand(u, d)' => monitors'[u].msg.specific = specific
            /\ ~HasInHand(u, d)' => CachedAre(d, specific)
    BY <1>1, <1>2, <1>6, <2>1, <2>2 DEF SettingsFor, specific
  <2>5. hydration'.pc = "done"
    OBVIOUS
  <2>6. CachedAre(d, phoebus_specific[u][d])' <=> CachedAre(d, specific)
    BY <2>1 DEF CachedAre
  <2> QED BY <2>1, <2>3, <2>4, <2>5, <2>6, Zenon DEF SettingsFor
<1> QED BY <1>5, <1>6 DEF SettingsOf

LEMMA ConfiguredIsMonitored ==
    ASSUME NEW t, NEW d, ConfiguredIn(t, d)
    PROVE  t \in MonitoredTopics
<1>1. \A input \in PhoebusInputs : input[1] \in MonitoredTopics
  BY EnvironmentAssumption
<1> QED BY <1>1, TopicFacts DEF ConfiguredIn

\* What a monitor is left with that has read a record.
TakenUp(new, t, msg, d) ==
    \/ new = monitors[t] /\ ~Configures(msg, d)
    \/ /\ new.msg = msg /\ new.pc \in {"rpc", "policy"}
       /\ Configures(msg, d) => new.pc = "policy" /\ new.metadata = get_pv_metadata(msg, t)

LEMMA ReadTakesUp ==
    ASSUME TypeOK, NEW t \in MonitoredTopics, MonitorReceive(t), NEW d
    PROVE  \E new : Becomes(t, new) /\ TakenUp(new, t, Head(phoebus_topics[t]), d)
<1> DEFINE msg == Head(phoebus_topics[t])
           Taken(new) == /\ Becomes(t, new) /\ new.msg = msg
                         /\ \/ /\ msg.op = "Command" /\ Acknowledges(msg)
                               /\ new.pc = "rpc" /\ new.updated = Plain("Acknowledged")
                            \/ /\ msg.op = "Config" /\ new.pc = "policy"
                               /\ new.metadata = get_pv_metadata(msg, t)
<1>1. \/ UNCHANGED monitors /\ (msg.op = "Config" => msg.enabled.kind = "NotJson")
      \/ \E new : Taken(new)
  BY ReceiveEffect, Zenon
<1> HIDE DEF msg
<1>2. CASE UNCHANGED monitors /\ (msg.op = "Config" => msg.enabled.kind = "NotJson")
  <2>1. monitors \in [MonitoredTopics -> MonitorTask]
    BY DEF TypeOK, MonitorsTypeOK
  <2>2. Becomes(t, monitors[t])
    BY <1>2, <2>1 DEF Becomes
  <2>3. ~Configures(msg, d)
    BY <1>2 DEF Configures, Normalizable
  <2> QED BY <2>2, <2>3 DEF TakenUp, msg
<1>3. ASSUME NEW new, Taken(new)
      PROVE  Becomes(t, new) /\ TakenUp(new, t, msg, d)
  BY <1>3 DEF TakenUp, Configures
<1> HIDE DEF Taken
<1> QED BY <1>1, <1>2, <1>3 DEF msg

\* A config that is read becomes the one in the hands of the monitor, with the
\* metadata of its device.
LEMMA ReadKeepsSettings ==
    ASSUME Placed, OneTopicEach, NEW d \in Device, SettingsOf(d), hydration.pc = "done",
           NEW t \in MonitoredTopics, MonitorReceive(t),
           phoebus_topics' = [phoebus_topics EXCEPT ![t] = Tail(phoebus_topics[t])],
           UNCHANGED <<hydration, retained, controls_task>>
    PROVE  SettingsOf(d)'
<1> USE DEF Placed, TypeOK, ExternalTypeOK, MonitorsTypeOK
<1> DEFINE queue == phoebus_topics[t]
           msg == Head(queue)
<1>1. /\ queue \in Seq(PhoebusMsg) /\ queue # <<>> /\ msg \in PhoebusMsg /\ monitors[t].pc = "idle"
      /\ UNCHANGED <<metadata_cache, phoebus_specific>>
  BY ReceiveEffect DEF caches, views, phoebus_side
<1>2. /\ phoebus_topics'[t] = Tail(queue)
      /\ \A u \in MonitoredTopics : u # t => phoebus_topics'[u] = phoebus_topics[u]
  OBVIOUS
<1>3. PICK new : Becomes(t, new) /\ TakenUp(new, t, msg, d)
  BY ReadTakesUp
<1>4. /\ ConfigsFor(queue, d) # {} <=> Configures(msg, d) \/ ConfigsFor(Tail(queue), d) # {}
      /\ HasInHand(t, d)' <=> Configures(msg, d)
      /\ ~HasInHand(t, d)
  <2>1. monitors'[t] = new
    BY <1>3 DEF Becomes
  <2>2. HasInHand(t, d)' <=> new.pc \in {"policy", "rpc", "record", "update"} /\ Configures(new.msg, d)
    BY <2>1 DEF HasInHand
  <2>3. HasInHand(t, d)' <=> Configures(msg, d)
    BY <1>1, <1>3, <2>2 DEF TakenUp
  <2> QED BY <1>1, <2>3, TailConfigures DEF HasInHand
<1> HIDE DEF queue, msg
<1>5. Configures(msg, d) => ConfiguredIn(t, d)
  BY <1>4 DEF SettingsOf, StaysAtHome, queue
<1>6. ASSUME Configures(msg, d)
      PROVE  new.metadata.topic = t /\ metadata_cache[d] \in {None, new.metadata}
  <2>1. msg.device = d /\ normalize_topic(t) = t /\ new.metadata = get_pv_metadata(msg, t)
    BY <1>1, <1>3, <1>4, <1>5, <1>6 DEF Configures, OneTopicEach, TakenUp
  <2>2. CASE metadata_cache[d] # None
    <3>1. ConfiguredIn(metadata_cache[d].topic, d) /\ metadata_cache[d].topic \in MonitoredTopics
      BY <2>2, ConfiguredIsMonitored DEF SettingsOf, StaysAtHome
    <3>2. metadata_cache[d].topic = t
      BY <1>5, <1>6, <3>1 DEF OneTopicEach
    <3> QED BY <2>1, <2>2, <3>2 DEF get_pv_metadata
  <2>3. CASE metadata_cache[d] = None
    BY <2>1, <2>3 DEF get_pv_metadata, from_unmapped
  <2> QED BY <2>2, <2>3
<1>7. ASSUME ConfiguredIn(t, d)
      PROVE  /\ LastSets(Tail(queue), d, phoebus_specific[t][d])
             /\ ConfigsFor(Tail(queue), d) = {} =>
                   IF Configures(msg, d) THEN msg.specific = phoebus_specific[t][d]
                                         ELSE CachedAre(d, phoebus_specific[t][d])
  <2>1. LastSets(queue, d, phoebus_specific[t][d])
    BY <1>7 DEF SettingsOf, SettingsFor, queue
  <2>2. /\ LastSets(Tail(queue), d, phoebus_specific[t][d])
        /\ Configures(msg, d) /\ ConfigsFor(Tail(queue), d) = {}
              => msg.specific = phoebus_specific[t][d]
    BY <1>1, <2>1, TailSets DEF msg
  <2>3. ConfigsFor(Unscoped, d) = {}
    BY ConfigsForDef DEF Unscoped
  <2>4. ConfigsFor(queue, d) = {} => CachedAre(d, phoebus_specific[t][d])
    BY <1>4, <1>7, <2>3 DEF SettingsOf, SettingsFor, queue
  <2> QED BY <1>4, <2>2, <2>4
<1>8. HasInHand(t, d)' =>
          /\ ConfiguredIn(t, d) /\ new.metadata.topic = t
          /\ metadata_cache[d] \in {None, new.metadata}
  BY <1>4, <1>5, <1>6, Zenon
<1>9. ConfiguredIn(t, d) =>
          /\ LastSets(phoebus_topics'[t], d, phoebus_specific[t][d])
          /\ ConfigsFor(phoebus_topics'[t], d) = {} =>
                IF HasInHand(t, d)' THEN new.msg.specific = phoebus_specific[t][d]
                                    ELSE CachedAre(d, phoebus_specific[t][d])
  <2>1. HasInHand(t, d)' => new.msg = msg
    BY <1>3, <1>4 DEF TakenUp
  <2> QED BY <1>2, <1>4, <1>7, <2>1
<1>10. ConfigsFor(phoebus_topics'[t], d) # {} => ConfigsFor(phoebus_topics[t], d) # {}
  BY <1>2, <1>4 DEF queue
<1> QED BY <1>1, <1>2, <1>3, <1>8, <1>9, <1>10, MonitorFrame

\* A monitor that keeps what it has of the device, or gives it up for what is cached
\* already, leaves its settings where they are.
LEMMA HandFrame ==
    ASSUME TypeOK, NEW d \in Device, SettingsOf(d), hydration.pc = "done",
           NEW t \in MonitoredTopics, NEW new, Becomes(t, new),
           UNCHANGED <<hydration, retained, controls_task, phoebus_topics, phoebus_specific>>,
           UNCHANGED <<metadata_cache[d]>>,
           HasInHand(t, d)' =>
               /\ HasInHand(t, d)
               /\ new.msg = monitors[t].msg /\ new.metadata = monitors[t].metadata,
           HasInHand(t, d) /\ ~HasInHand(t, d)' => CachedAre(d, monitors[t].msg.specific)
    PROVE  SettingsOf(d)'
<1>1. HasInHand(t, d)' =>
          /\ ConfiguredIn(t, d) /\ new.metadata.topic = t
          /\ metadata_cache[d] \in {None, new.metadata}
  BY DEF SettingsOf, StaysAtHome
<1>2. ASSUME ConfiguredIn(t, d)
      PROVE  /\ LastSets(phoebus_topics'[t], d, phoebus_specific[t][d])
             /\ ConfigsFor(phoebus_topics'[t], d) = {} =>
                   IF HasInHand(t, d)' THEN new.msg.specific = phoebus_specific[t][d]
                                       ELSE CachedAre(d, phoebus_specific[t][d])
  <2>1. SettingsFor(t, d)
    BY <1>2 DEF SettingsOf
  <2>2. ConfigsFor(Unscoped, d) = {}
    BY ConfigsForDef DEF Unscoped
  <2> QED BY <2>1, <2>2 DEF SettingsFor
<1>3. /\ \A u \in MonitoredTopics : u # t => phoebus_topics'[u] = phoebus_topics[u]
      /\ ConfigsFor(phoebus_topics'[t], d) # {} => ConfigsFor(phoebus_topics[t], d) # {}
  OBVIOUS
<1> QED BY <1>1, <1>2, <1>3, MonitorFrame

\* A config that changes nothing repeats the settings that are cached.
LEMMA DecideKeepsSettings ==
    ASSUME Placed, NEW d \in Device, SettingsOf(d), hydration.pc = "done",
           NEW t \in MonitoredTopics, MonitorDecide(t), UNCHANGED <<hydration, controls_task>>
    PROVE  SettingsOf(d)'
<1> DEFINE task == monitors[t]
<1>1. /\ TypeOK /\ task.pc = "policy" /\ task.msg.op = "Config"
      /\ UNCHANGED <<metadata_cache, retained, phoebus_topics, phoebus_specific>>
      /\ task \in [pc : {"policy", "update"}, msg : ConfigMsg, metadata : PvMetadata,
                   updated : {None}, attempt : {1}]
  BY DEF Placed, TypeOK, MonitorsTypeOK, MonitorTask, MonitorDecide, caches, topics, views,
         phoebus_side, ConfigMsg
<1>2. PICK new :
          /\ Becomes(t, new)
          /\ \/ new.pc = "idle" /\ (Configures(task.msg, d) => task.msg.specific = task.metadata.specific)
             \/ /\ new.pc \in {"update", "rpc"}
                /\ new.msg = task.msg /\ new.metadata = task.metadata
  <2>1. CASE Becomes(t, MonitorAt("idle")) /\ ~Normalizable(task.msg.enabled)
    BY <2>1 DEF MonitorAt, Configures
  <2>2. CASE Becomes(t, MonitorAt("idle")) /\ task.msg.specific = task.metadata.specific
    BY <2>2 DEF MonitorAt
  <2>3. CASE \E updated : Becomes(t, [task EXCEPT !.pc = "rpc", !.updated = updated])
    <3>1. PICK updated : Becomes(t, [task EXCEPT !.pc = "rpc", !.updated = updated])
      BY <2>3
    <3>2. LET new == [task EXCEPT !.pc = "rpc", !.updated = updated] IN
          new.pc = "rpc" /\ new.msg = task.msg /\ new.metadata = task.metadata
      BY <1>1
    <3> QED BY <3>1, <3>2
  <2>4. CASE Becomes(t, [task EXCEPT !.pc = "update"])
    <3>1. LET new == [task EXCEPT !.pc = "update"] IN
          new.pc = "update" /\ new.msg = task.msg /\ new.metadata = task.metadata
      BY <1>1
    <3> QED BY <2>4, <3>1
  <2> QED BY <2>1, <2>2, <2>3, <2>4 DEF MonitorDecide
<1> HIDE DEF task
<1>3. monitors'[t] = new
  BY <1>1, <1>2 DEF Becomes, TypeOK, MonitorsTypeOK
<1>4. /\ HasInHand(t, d) <=> Configures(task.msg, d)
      /\ HasInHand(t, d)' <=> new.pc # "idle" /\ Configures(task.msg, d)
  BY <1>1, <1>2, <1>3 DEF HasInHand, task
<1>5. HasInHand(t, d) /\ ~HasInHand(t, d)' => CachedAre(d, task.msg.specific)
  <2>1. HasInHand(t, d) => metadata_cache[d] \in {None, task.metadata}
    BY DEF SettingsOf, StaysAtHome, task
  <2> QED BY <1>2, <1>4, <2>1 DEF CachedAre
<1> QED BY <1>1, <1>2, <1>4, <1>5, HandFrame DEF task

\* Calling and recording change neither a record nor metadata.
LEMMA CallKeepsSettings ==
    ASSUME Placed, NEW d \in Device, SettingsOf(d), hydration.pc = "done",
           NEW t \in MonitoredTopics, MonitorRpc(t) \/ MonitorRecord(t),
           UNCHANGED <<hydration, controls_task>>
    PROVE  SettingsOf(d)'
<1> DEFINE task == monitors[t]
<1>1. /\ TypeOK /\ task.pc \in {"rpc", "record"} /\ task \in MonitorTask
      /\ UNCHANGED <<metadata_cache, retained, phoebus_topics, phoebus_specific>>
  BY DEF Placed, TypeOK, MonitorsTypeOK, MonitorRpc, MonitorRecord, caches, topics, views,
         phoebus_side
<1>2. PICK new :
          /\ Becomes(t, new)
          /\ \/ new.pc = "idle" /\ task.msg.op # "Config"
             \/ /\ new.pc \in {"rpc", "record", "update"}
                /\ new.msg = task.msg /\ new.metadata = task.metadata
  <2>1. CASE MonitorRecord(t)
    <3>1. LET new == [task EXCEPT !.pc = "update", !.updated = None, !.attempt = 1] IN
          new.pc = "update" /\ new.msg = task.msg /\ new.metadata = task.metadata
      BY <1>1 DEF MonitorTask
    <3>2. \/ task.msg.op = "Config" /\ Becomes(t, [task EXCEPT !.pc = "update", !.updated = None,
                                                             !.attempt = 1])
          \/ task.msg.op # "Config" /\ Becomes(t, MonitorAt("idle"))
      BY <2>1 DEF MonitorRecord
    <3>3. MonitorAt("idle").pc = "idle"
      BY DEF MonitorAt
    <3> HIDE DEF task
    <3> QED BY <3>1, <3>2, <3>3
  <2>2. CASE MonitorRpc(t)
    <3>1. /\ LET new == [task EXCEPT !.pc = "record"] IN
             new.pc = "record" /\ new.msg = task.msg /\ new.metadata = task.metadata
          /\ LET new == [task EXCEPT !.attempt = 2] IN
             new.pc = task.pc /\ new.msg = task.msg /\ new.metadata = task.metadata
      BY <1>1 DEF MonitorTask
    <3>2. Becomes(t, [task EXCEPT !.pc = "record"]) \/ Becomes(t, [task EXCEPT !.attempt = 2])
      BY <2>2 DEF MonitorRpc
    <3> QED BY <1>1, <3>1, <3>2
  <2> QED BY <2>1, <2>2
<1> HIDE DEF task
<1>3. monitors'[t] = new
  BY <1>1, <1>2 DEF Becomes, TypeOK, MonitorsTypeOK
<1>4. /\ HasInHand(t, d) <=> Configures(task.msg, d)
      /\ HasInHand(t, d)' <=> new.pc # "idle" /\ Configures(task.msg, d)
  BY <1>1, <1>2, <1>3 DEF HasInHand, task
<1>5. HasInHand(t, d) => HasInHand(t, d)'
  BY <1>2, <1>4 DEF Configures
<1> QED BY <1>1, <1>2, <1>4, <1>5, HandFrame DEF task

\* The settings of the last config are written with the metadata they belong to.
LEMMA UpdateKeepsSettings ==
    ASSUME Placed, OneTopicEach, NEW d \in Device, SettingsOf(d), hydration.pc = "done",
           NEW t \in MonitoredTopics, MonitorUpdate(t), UNCHANGED <<hydration, controls_task>>
    PROVE  SettingsOf(d)'
<1> DEFINE task == monitors[t]
           metadata == [task.metadata EXCEPT !.specific = task.msg.specific]
<1>1. /\ TypeOK /\ task.pc = "update" /\ task.msg.op = "Config" /\ task.metadata \in PvMetadata
      /\ UNCHANGED <<retained, phoebus_topics, phoebus_specific>>
      /\ Becomes(t, MonitorAt("idle"))
      /\ metadata_cache' = [metadata_cache EXCEPT ![task.msg.device] = metadata]
      /\ metadata_cache \in [Device -> PvMetadata \cup {None}]
  BY DEF Placed, TypeOK, MonitorsTypeOK, CachesTypeOK, MonitorTask, MonitorUpdate, topics, views,
         phoebus_side, update_cached_metadata, ConfigMsg
<1>2. Configures(task.msg, d) <=> task.msg.device = d
  BY <1>1 DEF Placed, Orderly, Configures
<1>3. metadata.topic = task.metadata.topic /\ metadata.specific = task.msg.specific
  BY <1>1 DEF PvMetadata
<1> HIDE DEF task, metadata
<1>4. /\ monitors'[t].pc = "idle" /\ ~HasInHand(t, d)'
      /\ \A u \in MonitoredTopics : u # t => monitors'[u] = monitors[u]
      /\ HasInHand(t, d) <=> task.msg.device = d
  BY <1>1, <1>2 DEF Becomes, MonitorAt, HasInHand, TypeOK, MonitorsTypeOK, task
<1>5. CASE task.msg.device # d
  <2>1. UNCHANGED <<metadata_cache[d]>>
    BY <1>1, <1>5
  <2> QED BY <1>1, <1>4, <1>5, <2>1, HandFrame
<1>6. CASE task.msg.device = d
  <2>1. ConfiguredIn(t, d) /\ metadata.topic = t
    BY <1>3, <1>4, <1>6 DEF SettingsOf, StaysAtHome, task
  <2>2. metadata_cache'[d] = metadata
    BY <1>1, <1>6
  <2>3. \A u \in MonitoredTopics : ConfiguredIn(u, d) => u = t
    BY <2>1 DEF OneTopicEach
  <2>4. Unscoped = <<>> /\ Unscoped' = <<>> /\ ConfigsFor(<<>>, d) = {}
        /\ \A specific : LastSets(<<>>, d, specific)
    BY ConfigsForDef DEF Unscoped, LastSets
  <2>5. \A u \in MonitoredTopics : ~HasInHand(u, d)'
    <3>1. \A u \in MonitoredTopics : u # t => ~HasInHand(u, d)
      BY <2>3 DEF SettingsOf, StaysAtHome
    <3>2. \A u \in MonitoredTopics : u # t => (HasInHand(u, d)' <=> HasInHand(u, d))
      BY <1>4 DEF HasInHand
    <3> QED BY <1>4, <3>1, <3>2
  <2>6. StaysAtHome(d)'
    <3>1. ConfiguredIn(metadata_cache'[d].topic, d)
      BY <2>1, <2>2
    <3>2. controls_task'.pc = "publish" /\ controls_task'.alarm.device = d
              => ConfiguredIn(controls_task'.metadata.topic, d)
      BY DEF SettingsOf, StaysAtHome
    <3>3. \A u \in MonitoredTopics : ConfigsFor(phoebus_topics'[u], d) # {} => ConfiguredIn(u, d)
      BY <1>1 DEF SettingsOf, StaysAtHome
    <3> QED BY <2>4, <2>5, <3>1, <3>2, <3>3 DEF StaysAtHome
  <2>7. SettingsFor(t, d)'
    <3>1. /\ LastSets(phoebus_topics[t], d, phoebus_specific[t][d])
          /\ ConfigsFor(phoebus_topics[t], d) = {} => task.msg.specific = phoebus_specific[t][d]
      BY <1>4, <1>6, <2>1 DEF SettingsOf, SettingsFor, task
    <3>2. LastSets(phoebus_topics'[t], d, phoebus_specific'[t][d])
      BY <1>1, <3>1
    <3>3. ConfigsFor(phoebus_topics'[t], d) = {} => CachedAre(d, phoebus_specific[t][d])'
      BY <1>1, <1>3, <2>2, <3>1 DEF CachedAre
    <3> QED BY <1>1, <2>4, <2>5, <3>2, <3>3 DEF SettingsFor
  <2> QED BY <2>3, <2>6, <2>7 DEF SettingsOf
<1> QED BY <1>5, <1>6

LEMMA MonitorKeepsSettings ==
    ASSUME Placed, OneTopicEach, NEW d \in Device, SettingsOf(d),
           NEW t \in MonitoredTopics, RunMonitor(t), NoFault
    PROVE  SettingsOf(d)'
<1>1. /\ TypeOK /\ hydration.pc = "done" /\ UNCHANGED <<hydration, retained, controls_task>>
      /\ \/ /\ UNCHANGED <<caches, topics, controls_view>>
            /\ monitors[t].pc = "down" /\ Becomes(t, MonitorAt("idle"))
         \/ /\ MonitorReceive(t)
            /\ phoebus_topics' = [phoebus_topics EXCEPT ![t] = Tail(phoebus_topics[t])]
         \/ MonitorDecide(t)
         \/ MonitorRpc(t)
         \/ MonitorRecord(t)
         \/ MonitorUpdate(t)
  BY FaultlessMonitor DEF Placed
<1>2. CASE UNCHANGED <<caches, topics, controls_view>>
           /\ monitors[t].pc = "down" /\ Becomes(t, MonitorAt("idle"))
  <2>1. UNCHANGED phoebus_specific
    BY <1>2 DEF RunMonitor, MonitorStep, MonitorSubscribe, MonitorStreamEnds, MonitorReceive,
                MonitorDecide, MonitorRpc, MonitorRecord, MonitorUpdate, views, phoebus_side
  <2>2. ~HasInHand(t, d) /\ ~HasInHand(t, d)'
    BY <1>1, <1>2 DEF HasInHand, Becomes, MonitorAt, TypeOK, MonitorsTypeOK
  <2> QED BY <1>1, <1>2, <2>1, <2>2, HandFrame DEF caches, topics
<1> QED BY <1>1, <1>2, ReadKeepsSettings, DecideKeepsSettings, CallKeepsSettings,
           UpdateKeepsSettings

\* What Phoebus publishes by itself is in the topic that configures the device; the
\* rest of what happens around the program leaves settings alone.
LEMMA SurroundingsKeepSettings ==
    ASSUME Placed, NEW d \in Device, SettingsOf(d),
           OperatorActs \/ ClockTicks \/ Await \/ UNCHANGED vars
    PROVE  SettingsOf(d)'
<1>1. UNCHANGED <<metadata_cache, monitors, hydration, retained, controls_task>>
  BY DEF OperatorActs, OperatorTurn, ClockTicks, Tick, Await, vars, caches, external, tasks
<1>2. CASE UNCHANGED <<phoebus_topics, phoebus_specific>>
  BY <1>1, <1>2, SettingsFrame DEF SettingsOf
<1>3. ASSUME NEW input \in PhoebusInputs, PhoebusActs(input)
      PROVE  SettingsOf(d)'
  <2> DEFINE t == input[1]
             msg == input[2]
  <2>1. t \in MonitoredTopics /\ msg \in PhoebusMsg /\ PublishPhoebus(t, msg)
    BY <1>3, EnvironmentAssumption DEF PhoebusActs
  <2>2. Configures(msg, d) => ConfiguredIn(t, d)
    BY DEF ConfiguredIn
  <2> HIDE DEF t, msg
  <2> QED BY <1>1, <2>1, <2>2, PublishedSettings DEF Placed
<1>4. UNCHANGED <<phoebus_topics, phoebus_specific>> \/ \E input \in PhoebusInputs : PhoebusActs(input)
  BY DEF OperatorActs, ControlsActs, ClockTicks, Tick, Await, vars, external, topics, views, phoebus_side
<1> QED BY <1>2, <1>3, <1>4

-----------------------------------------------------------------------------
(* Configs come into the hands of a task in an orderly way.                *)

LEMMA OrderlyKept ==
    ASSUME TypeOK, Orderly, [Next]_vars
    PROVE  Orderly'
<1> USE DEF TypeOK, MonitorsTypeOK, HydrationTypeOK
<1>1. ASSUME UNCHANGED <<monitors, hydration>> PROVE Orderly'
  BY <1>1 DEF Orderly
<1>2. CASE RunHydration
  <2>1. UNCHANGED monitors
    BY <1>2 DEF RunHydration
  <2>2. hydration.pc # "done"
    BY <1>2 DEF RunHydration, HydrationStep, HydrationSnapshot, HydrationApply, HydrationUpdate,
                HydrationNextTopic, HydrationDone
  <2>3. hydration'.pc = "update" => Normalizable(Head(hydration'.messages).enabled)
    BY <1>2 DEF RunHydration, HydrationStep, HydrationSnapshot, HydrationApply, HydrationUpdate,
                HydrationNextTopic, HydrationDone, Hydration
  <2>4. \A t \in MonitoredTopics : monitors[t].pc = "down"
    BY <2>2 DEF Orderly
  <2> QED BY <2>1, <2>3, <2>4 DEF Orderly
<1>3. ASSUME NEW t \in MonitoredTopics, RunMonitor(t)
      PROVE  Orderly'
  <2> DEFINE Sound(task) == task.pc \in {"rpc", "record", "update"} /\ task.msg.op = "Config"
                                => Normalizable(task.msg.enabled)
  <2>1. hydration.pc = "done" /\ UNCHANGED hydration
    BY <1>3 DEF RunMonitor
  <2>2. PICK new : Becomes(t, new) /\ Sound(new)
    <3>1. CASE MonitorSubscribe(t) \/ MonitorStreamEnds(t) \/ MonitorUpdate(t)
      BY <3>1 DEF MonitorSubscribe, MonitorStreamEnds, MonitorUpdate, MonitorAt
    <3>2. CASE MonitorReceive(t)
      <4>1. CASE UNCHANGED monitors
        <5>1. Becomes(t, monitors[t]) /\ monitors[t].pc = "idle"
          BY <3>2, <4>1 DEF Becomes, MonitorReceive
        <5> QED BY <5>1
      <4>2. CASE ~UNCHANGED monitors
        BY <3>2, <4>2 DEF MonitorReceive, MonitorReceives
      <4> QED BY <4>1, <4>2
    <3>3. CASE MonitorDecide(t)
      <4>1. monitors[t] \in [pc : {"policy", "update"}, msg : ConfigMsg, metadata : PvMetadata,
                             updated : {None}, attempt : {1}]
        BY <3>3 DEF MonitorDecide, MonitorTask
      <4>2. \A updated : LET task == monitors[t] IN
                /\ [task EXCEPT !.pc = "update"].msg = task.msg
                /\ [task EXCEPT !.pc = "rpc", !.updated = updated].msg = task.msg
        BY <4>1
      <4>3. MonitorAt("idle").pc = "idle"
        BY DEF MonitorAt
      <4> QED BY <3>3, <4>2, <4>3 DEF MonitorDecide
    <3>4. CASE MonitorRpc(t) \/ MonitorRecord(t)
      <4>1. monitors[t].pc \in {"rpc", "record"} /\ monitors[t] \in MonitorTask
        BY <3>4 DEF MonitorRpc, MonitorRecord
      <4>2. LET task == monitors[t] IN
            /\ [task EXCEPT !.pc = "record"].msg = task.msg
            /\ [task EXCEPT !.attempt = 2].msg = task.msg
            /\ [task EXCEPT !.pc = "update", !.updated = None, !.attempt = 1].msg = task.msg
        BY <4>1 DEF MonitorTask
      <4>3. MonitorAt("idle").pc = "idle"
        BY DEF MonitorAt
      <4>4. monitors[t].msg.op = "Config" => Normalizable(monitors[t].msg.enabled)
        BY <4>1 DEF Orderly
      <4>5. PICK new : /\ Becomes(t, new)
                       /\ new.pc = "idle" \/ new.msg = monitors[t].msg
        BY <3>4, <4>2, <4>3 DEF MonitorRpc, MonitorRecord
      <4> QED BY <4>4, <4>5
    <3> QED BY <1>3, <3>1, <3>2, <3>3, <3>4 DEF RunMonitor, MonitorStep
  <2>3. /\ monitors'[t] = new
        /\ \A u \in MonitoredTopics : u # t => monitors'[u] = monitors[u]
    BY <2>2 DEF Becomes
  <2>4. \A u \in MonitoredTopics : Sound(monitors'[u])
    BY <2>2, <2>3 DEF Orderly
  <2> QED BY <2>1, <2>4 DEF Orderly
<1>4. CASE RunControls \/ OperatorActs \/ ClockTicks \/ Await \/ UNCHANGED vars
  <2>1. UNCHANGED <<monitors, hydration>>
    BY <1>4 DEF RunControls, OperatorActs, OperatorTurn, ClockTicks, Await, vars, tasks
  <2> QED BY <1>1, <2>1
<1> QED BY <1>2, <1>3, <1>4 DEF Next

-----------------------------------------------------------------------------
(* The settings stay under way, and once nothing is, the cache has them.   *)

LEMMA InitSettings ==
    ASSUME Init
    PROVE  Orderly /\ \A d \in Device : SettingsOf(d)
<1> USE DEF Init, CachesInit, ExternalInit, ControlsInit, ControlsAt, MonitorsInit, MonitorAt,
            HydrationInit
<1>1. Orderly
  BY DEF Orderly
<1> SUFFICES ASSUME NEW d \in Device PROVE SettingsOf(d)
  BY <1>1
<1>2. /\ Unscoped = <<>> /\ ConfigsFor(<<>>, d) = {} /\ \A specific : LastSets(<<>>, d, specific)
      /\ \A t \in MonitoredTopics : ~HasInHand(t, d) /\ phoebus_topics[t] = <<>>
      /\ metadata_cache[d] = None
  BY ConfigsForDef DEF Unscoped, LastSets, HasInHand
<1>3. StaysAtHome(d)
  BY <1>2 DEF StaysAtHome
<1>4. ASSUME NEW t \in MonitoredTopics, t \in PhoebusTopics
      PROVE  LastSets(retained[t], d, phoebus_specific[t][d])
  <2> SUFFICES ASSUME NEW i \in DOMAIN retained[t], IsLastConfig(i, retained[t], d)
               PROVE  retained[t][i].specific = phoebus_specific[t][d]
    BY DEF LastSets
  <2>1. PICK j \in DOMAIN retained[t] :
            /\ IsLastConfig(j, retained[t], d)
            /\ phoebus_specific[t][d] = retained[t][j].specific
    BY <1>4 DEF InitialSpecific, IsLastConfig
  <2>2. i \in Int /\ j \in Int /\ i <= j /\ j <= i
    <3>1. retained[t] \in Seq(PhoebusMsg)
      BY <1>4, EnvironmentAssumption
    <3> QED BY <2>1, <3>1 DEF IsLastConfig
  <2> QED BY <2>1, <2>2
<1>5. ASSUME NEW t \in MonitoredTopics
      PROVE  SettingsFor(t, d)
  BY <1>2, <1>4 DEF SettingsFor, CachedAre
<1> QED BY <1>3, <1>5 DEF SettingsOf

LEMMA SettingsInductive ==
    ASSUME OneTopicEach, Placed, SettingsUnderway, [Next]_vars
    PROVE  SettingsUnderway'
<1>1. TypeOK /\ Orderly'
  BY OrderlyKept DEF Placed
<1> SUFFICES ASSUME faults' = 0, NEW d \in Device PROVE SettingsOf(d)'
  BY <1>1 DEF SettingsUnderway, SettingsOf
<1>2. NoFault /\ SettingsOf(d)
  BY <1>1, FaultsCounted DEF SettingsUnderway, SettingsOf
<1>3. CASE RunControls
  BY <1>2, <1>3, ControlsKeepsSettings
<1>4. CASE RunHydration
  BY <1>2, <1>4, HydrationKeepsSettings
<1>5. ASSUME NEW t \in MonitoredTopics, RunMonitor(t)
      PROVE  SettingsOf(d)'
  BY <1>2, <1>5, MonitorKeepsSettings
<1>6. CASE OperatorActs \/ ClockTicks \/ Await \/ UNCHANGED vars
  BY <1>2, <1>6, SurroundingsKeepSettings
<1> QED BY <1>3, <1>4, <1>5, <1>6 DEF Next

\* Until something is lost, and however operators and tasks take turns, settings that
\* the program remembers wrongly are in a record that a monitor is going to write.
THEOREM SettingsAreUnderway ==
    ASSUME OneTopicEach
    PROVE  Spec => []SettingsUnderway
<1>1. Init => SettingsUnderway /\ retained \in RetainedLogs
  BY InitSettings DEF SettingsUnderway, SettingsOf, Init, ExternalInit
<1>2. TypeOK /\ retained \in RetainedLogs /\ SettingsUnderway /\ [Next]_vars
          => (retained \in RetainedLogs)' /\ SettingsUnderway'
  BY LogsStay, SettingsInductive DEF Placed, SettingsUnderway
<1> QED BY <1>1, <1>2, TypeCorrect, PTL DEF Spec

\* Once all has settled and until something is lost, the metadata of a device in scope
\* have the settings of its last config, whoever acted at the same time.
THEOREM MetadataIsCurrent ==
    ASSUME OneTopicEach
    PROVE  Spec => [](faults = 0 => MetadataCurrent)
<1>1. SettingsUnderway => (faults = 0 => MetadataCurrent)
  <2> SUFFICES ASSUME SettingsUnderway, faults = 0, Quiet,
                      NEW d \in Device, metadata_cache[d] # None
               PROVE  metadata_cache[d].specific = phoebus_specific[metadata_cache[d].topic][d]
    BY DEF MetadataCurrent
  <2> DEFINE t == metadata_cache[d].topic
  <2>1. ConfiguredIn(t, d)
    BY DEF SettingsUnderway, StaysAtHome
  <2>2. t \in MonitoredTopics
    BY <2>1, ConfiguredIsMonitored
  <2>3. /\ phoebus_topics[t] = <<>> /\ ~HasInHand(t, d) /\ Unscoped = <<>>
        /\ ConfigsFor(<<>>, d) = {}
    BY <2>2, ConfigsForDef DEF Quiet, HasInHand, Unscoped
  <2>4. SettingsFor(t, d)
    BY <2>1, <2>2 DEF SettingsUnderway
  <2> QED BY <2>3, <2>4 DEF SettingsFor, CachedAre
<1> QED BY <1>1, SettingsAreUnderway, PTL

-----------------------------------------------------------------------------
(* Where a device is mirrored to.                                          *)

\* What may decide the route of a device, place by place.
LEMMA RoutesMean ==
    ASSUME NEW d, NEW r
    PROVE  /\ r \in RoutesFor(d) <=>
                 \/ metadata_cache[d] # None /\ r = Route(metadata_cache[d])
                 \/ /\ metadata_cache[d] = None
                    /\ \E t \in MonitoredTopics : \E i \in DOMAIN phoebus_topics[t] :
                          /\ phoebus_topics[t][i].op = "Config"
                          /\ phoebus_topics[t][i].device = d
                          /\ r = Route(from_unmapped(phoebus_topics[t][i], t))
                 \/ \E t \in MonitoredTopics : HoldsConfig(t, d) /\ r = Route(monitors[t].metadata)
           /\ r \in RoutesFor(d)' <=>
                 \/ metadata_cache'[d] # None /\ r = Route(metadata_cache'[d])
                 \/ /\ metadata_cache'[d] = None
                    /\ \E t \in MonitoredTopics : \E i \in DOMAIN phoebus_topics'[t] :
                          /\ phoebus_topics'[t][i].op = "Config"
                          /\ phoebus_topics'[t][i].device = d
                          /\ r = Route(from_unmapped(phoebus_topics'[t][i], t))
                 \/ \E t \in MonitoredTopics : HoldsConfig(t, d)' /\ r = Route(monitors'[t].metadata)
<1>1. r \in UnreadRoutes(d) <=>
          \E t \in MonitoredTopics : \E i \in DOMAIN phoebus_topics[t] :
              /\ phoebus_topics[t][i].op = "Config" /\ phoebus_topics[t][i].device = d
              /\ r = Route(from_unmapped(phoebus_topics[t][i], t))
  BY DEF UnreadRoutes
<1>2. r \in UnreadRoutes(d)' <=>
          \E t \in MonitoredTopics : \E i \in DOMAIN phoebus_topics'[t] :
              /\ phoebus_topics'[t][i].op = "Config" /\ phoebus_topics'[t][i].device = d
              /\ r = Route(from_unmapped(phoebus_topics'[t][i], t))
  BY DEF UnreadRoutes
<1> QED BY <1>1, <1>2 DEF RoutesFor

\* A monitor takes what it holds for a device from what was there before.
LEMMA RouteFrame ==
    ASSUME TypeOK, NEW d \in Device, NEW t \in MonitoredTopics, NEW new, Becomes(t, new),
           \/ metadata_cache'[d] = metadata_cache[d]
           \/ metadata_cache'[d] # None /\ Route(metadata_cache'[d]) \in RoutesFor(d),
           \A u \in MonitoredTopics : \A i \in DOMAIN phoebus_topics'[u] :
               \E j \in DOMAIN phoebus_topics[u] : phoebus_topics'[u][i] = phoebus_topics[u][j],
           new.pc \in {"policy", "rpc", "record", "update"} /\ new.msg.op = "Config"
                   /\ new.msg.device = d => Route(new.metadata) \in RoutesFor(d)
    PROVE  \A r \in RoutesFor(d)' : r \in RoutesFor(d)
<1> SUFFICES ASSUME NEW r, r \in RoutesFor(d)' PROVE r \in RoutesFor(d)
  OBVIOUS
<1>1. CASE metadata_cache'[d] # None /\ r = Route(metadata_cache'[d])
  BY <1>1, RoutesMean
<1>2. ASSUME metadata_cache'[d] = None, NEW u \in MonitoredTopics, NEW i \in DOMAIN phoebus_topics'[u],
             phoebus_topics'[u][i].op = "Config", phoebus_topics'[u][i].device = d,
             r = Route(from_unmapped(phoebus_topics'[u][i], u))
      PROVE  r \in RoutesFor(d)
  <2>1. PICK j \in DOMAIN phoebus_topics[u] : phoebus_topics'[u][i] = phoebus_topics[u][j]
    BY <1>2
  <2>2. metadata_cache[d] = None
    BY <1>2
  <2> QED BY <1>2, <2>1, <2>2, RoutesMean
<1>3. ASSUME NEW u \in MonitoredTopics, HoldsConfig(u, d)', r = Route(monitors'[u].metadata)
      PROVE  r \in RoutesFor(d)
  <2>1. monitors'[u] = IF u = t THEN new ELSE monitors[u]
    BY DEF Becomes, TypeOK, MonitorsTypeOK
  <2>2. CASE u = t
    BY <1>3, <2>1, <2>2 DEF HoldsConfig
  <2>3. CASE u # t
    <3>1. HoldsConfig(u, d) /\ r = Route(monitors[u].metadata)
      BY <1>3, <2>1, <2>3 DEF HoldsConfig
    <3> QED BY <3>1, RoutesMean
  <2> QED BY <2>2, <2>3
<1> QED BY <1>1, <1>2, <1>3, RoutesMean

LEMMA MonitorKeepsRoutes ==
    ASSUME TypeOK, NEW d \in Device, NEW t \in MonitoredTopics, RunMonitor(t)
    PROVE  \A r \in RoutesFor(d)' : r \in RoutesFor(d)
<1> USE DEF TypeOK, CachesTypeOK, ExternalTypeOK, MonitorsTypeOK
<1> DEFINE task == monitors[t]
           Held(new) == new.pc \in {"policy", "rpc", "record", "update"} /\ new.msg.op = "Config"
                            /\ new.msg.device = d
           Kept == \A u \in MonitoredTopics : \A i \in DOMAIN phoebus_topics'[u] :
                       \E j \in DOMAIN phoebus_topics[u] :
                           phoebus_topics'[u][i] = phoebus_topics[u][j]
<1>a. task \in MonitorTask
  OBVIOUS
<1>b. Held(task) => Route(task.metadata) \in RoutesFor(d)
  BY RoutesMean DEF HoldsConfig
<1>c. UNCHANGED phoebus_topics => Kept
  OBVIOUS
<1>d. ASSUME NEW rest, phoebus_topics' = [phoebus_topics EXCEPT ![t] = rest],
             \A i \in DOMAIN rest : \E j \in DOMAIN phoebus_topics[t] : rest[i] = phoebus_topics[t][j]
      PROVE  Kept
  <2> SUFFICES ASSUME NEW u \in MonitoredTopics, NEW i \in DOMAIN phoebus_topics'[u]
               PROVE  \E j \in DOMAIN phoebus_topics[u] :
                          phoebus_topics'[u][i] = phoebus_topics[u][j]
    OBVIOUS
  <2>1. phoebus_topics'[u] = IF u = t THEN rest ELSE phoebus_topics[u]
    BY <1>d
  <2> QED BY <1>d, <2>1
<1>e. ~Held(MonitorAt("idle")) /\ ~Held(MonitorAt("down"))
  BY DEF MonitorAt
\* What is left of a step that leaves the metadata of the device alone.
<1>f. ASSUME Kept, metadata_cache'[d] = metadata_cache[d], NEW new, Becomes(t, new),
             Held(new) => Route(new.metadata) \in RoutesFor(d)
      PROVE  \A r \in RoutesFor(d)' : r \in RoutesFor(d)
  BY <1>f, RouteFrame
<1>1. CASE MonitorSubscribe(t)
  <2>1. PICK n \in 1 .. Len(phoebus_topics[t]) + 1 :
            phoebus_topics' = [phoebus_topics EXCEPT ![t] = From(phoebus_topics[t], n)]
    BY <1>1 DEF MonitorSubscribe
  <2>2. Kept
    BY <1>d, <2>1, FromHeld
  <2> HIDE DEF Kept, Held
  <2> QED BY <1>1, <1>e, <1>f, <2>2 DEF MonitorSubscribe, caches
<1>2. CASE MonitorStreamEnds(t)
  <2> HIDE DEF Kept, Held
  <2> QED BY <1>2, <1>c, <1>e, <1>f DEF MonitorStreamEnds, caches, topics
<1>3. CASE MonitorReceive(t)
  <2> DEFINE msg == Head(phoebus_topics[t])
  <2>1. /\ phoebus_topics[t] # <<>> /\ msg \in PhoebusMsg
        /\ \E rest \in {Tail(phoebus_topics[t]), phoebus_topics[t]} :
              phoebus_topics' = [phoebus_topics EXCEPT ![t] = rest]
        /\ UNCHANGED metadata_cache
        /\ \/ UNCHANGED monitors
           \/ \E new : /\ Becomes(t, new) /\ new.msg = msg
                       /\ \/ msg.op = "Command"
                          \/ msg.op = "Config" /\ new.metadata = get_pv_metadata(msg, t)
    BY <1>3, ReceiveEffect DEF caches
  <2>2. Kept
    <3>1. \A i \in DOMAIN Tail(phoebus_topics[t]) : \E j \in DOMAIN phoebus_topics[t] :
              Tail(phoebus_topics[t])[i] = phoebus_topics[t][j]
      BY <2>1, TailHeld
    <3>2. PICK rest \in {Tail(phoebus_topics[t]), phoebus_topics[t]} :
              phoebus_topics' = [phoebus_topics EXCEPT ![t] = rest]
      BY <2>1
    <3>3. \A i \in DOMAIN rest : \E j \in DOMAIN phoebus_topics[t] :
              rest[i] = phoebus_topics[t][j]
      BY <3>1, <3>2
    <3> HIDE DEF Kept
    <3> QED BY <1>d, <3>2, <3>3
  <2>3. msg = phoebus_topics[t][1] /\ 1 \in DOMAIN phoebus_topics[t]
    BY <2>1, TailHeld
  <2>4. ASSUME msg.op = "Config", msg.device = d
        PROVE  Route(get_pv_metadata(msg, t)) \in RoutesFor(d)
    <3>1. CASE metadata_cache[d] # None
      BY <2>4, <3>1, RoutesMean DEF get_pv_metadata
    <3>2. CASE metadata_cache[d] = None
      <4>1. get_pv_metadata(msg, t) = from_unmapped(msg, t)
        BY <2>4, <3>2 DEF get_pv_metadata
      <4> QED BY <2>3, <2>4, <3>2, <4>1, RoutesMean
    <3> QED BY <3>1, <3>2
  <2> HIDE DEF msg
  <2>5. UNCHANGED monitors => Becomes(t, task)
    BY DEF Becomes
  <2>6. ASSUME NEW new, new.msg = msg,
               msg.op = "Command" \/ (msg.op = "Config" /\ new.metadata = get_pv_metadata(msg, t))
        PROVE  Held(new) => Route(new.metadata) \in RoutesFor(d)
    BY <2>4, <2>6
  <2> HIDE DEF Kept, Held
  <2> QED BY <1>b, <1>f, <2>1, <2>2, <2>5, <2>6
<1>4. ASSUME UNCHANGED <<phoebus_topics, metadata_cache>>, NEW new, Becomes(t, new),
             Held(new) => new.msg = task.msg /\ new.metadata = task.metadata,
             task.pc \in {"policy", "rpc", "record"}
      PROVE  \A r \in RoutesFor(d)' : r \in RoutesFor(d)
  <2>1. Held(new) => Route(new.metadata) \in RoutesFor(d)
    BY <1>4, <1>b
  <2> HIDE DEF Kept, Held
  <2> QED BY <1>4, <1>c, <1>f, <2>1
<1>5. CASE MonitorDecide(t) \/ MonitorRpc(t) \/ MonitorRecord(t)
  <2>1. UNCHANGED <<phoebus_topics, metadata_cache>> /\ task.pc \in {"policy", "rpc", "record"}
    BY <1>5 DEF MonitorDecide, MonitorRpc, MonitorRecord, topics, caches
  <2>2. \A updated :
            LET decided == [task EXCEPT !.pc = "rpc", !.updated = updated]
            IN  decided.msg = task.msg /\ decided.metadata = task.metadata
    BY <1>a, <2>1 DEF MonitorTask
  <2>3. /\ [task EXCEPT !.pc = "update"].msg = task.msg
        /\ [task EXCEPT !.pc = "update"].metadata = task.metadata
        /\ [task EXCEPT !.pc = "record"].msg = task.msg
        /\ [task EXCEPT !.pc = "record"].metadata = task.metadata
        /\ [task EXCEPT !.attempt = 2].msg = task.msg
        /\ [task EXCEPT !.attempt = 2].metadata = task.metadata
        /\ [task EXCEPT !.pc = "update", !.updated = None, !.attempt = 1].msg = task.msg
        /\ [task EXCEPT !.pc = "update", !.updated = None, !.attempt = 1].metadata = task.metadata
    BY <1>a, <2>1 DEF MonitorTask
  <2>4. \/ \E updated : Becomes(t, [task EXCEPT !.pc = "rpc", !.updated = updated])
        \/ Becomes(t, MonitorAt("idle"))
        \/ Becomes(t, [task EXCEPT !.pc = "update"])
        \/ Becomes(t, [task EXCEPT !.pc = "record"])
        \/ Becomes(t, [task EXCEPT !.attempt = 2])
        \/ Becomes(t, [task EXCEPT !.pc = "update", !.updated = None, !.attempt = 1])
    BY <1>5 DEF MonitorDecide, MonitorRpc, MonitorRecord
  <2> HIDE DEF Held
  <2> QED BY <1>4, <1>e, <2>1, <2>2, <2>3, <2>4
<1>6. CASE MonitorUpdate(t)
  <2> DEFINE metadata == [task.metadata EXCEPT !.specific = task.msg.specific]
  <2>1. /\ metadata_cache' = [metadata_cache EXCEPT ![task.msg.device] = metadata]
        /\ UNCHANGED phoebus_topics /\ Becomes(t, MonitorAt("idle")) /\ task.pc = "update"
    BY <1>6 DEF MonitorUpdate, update_cached_metadata, topics
  <2>2. /\ task.msg.op = "Config" /\ task.msg.device \in Device
        /\ task.metadata \in PvMetadata /\ task.msg.specific \in Specific
    BY <1>a, <2>1 DEF MonitorTask, ConfigMsg
  <2>3. metadata \in PvMetadata /\ Route(metadata) = Route(task.metadata)
    BY <2>2 DEF PvMetadata, Route
  <2> HIDE DEF metadata
  <2>4. CASE task.msg.device = d
    <3>1. metadata_cache'[d] = metadata /\ metadata # None
      BY <2>1, <2>3, <2>4, NoneAssumption
    <3>2. Route(metadata) \in RoutesFor(d)
      BY <1>b, <2>1, <2>2, <2>3, <2>4
    <3> QED BY <1>c, <1>e, <2>1, <3>1, <3>2, RouteFrame
  <2>5. CASE task.msg.device # d
    <3>1. metadata_cache'[d] = metadata_cache[d]
      BY <2>1, <2>5
    <3> HIDE DEF Kept, Held
    <3> QED BY <1>c, <1>e, <1>f, <2>1, <3>1
  <2> QED BY <2>4, <2>5
<1> QED BY <1>1, <1>2, <1>3, <1>5, <1>6 DEF RunMonitor, MonitorStep

\* A device in scope stays there.
LEMMA ScopeStays ==
    ASSUME TypeOK, [Next]_vars, NEW d \in Device, metadata_cache[d] # None
    PROVE  metadata_cache'[d] # None
<1> USE DEF TypeOK, CachesTypeOK
<1>1. CASE RunControls
  BY <1>1 DEF RunControls, ControlsStep, ControlsSubscribe, ControlsStreamEnds, ControlsReceive,
              ControlsDecide, ControlsPublish, ControlsRecord, caches
<1>2. CASE RunHydration
  <2>1. CASE HydrationUpdate
    <3> DEFINE config == Head(hydration.messages)
               metadata == [specific |-> config.specific, path |-> config.path,
                            topic |-> Head(hydration.todo)]
    <3>1. metadata_cache' = [metadata_cache EXCEPT ![config.device] = metadata]
      BY <2>1 DEF HydrationUpdate, update_cached_metadata
    <3>2. TypeOK'
      BY TypesKept
    <3>3. metadata_cache' \in [Device -> PvMetadata \cup {None}]
      BY <3>2
    <3>4. config \in ConfigMsg /\ hydration.todo # <<>> /\ hydration.todo \in Seq(PhoebusTopics)
      BY <2>1 DEF HydrationUpdate, HydrationTypeOK, Hydration
    <3>5. Head(hydration.todo) \in PhoebusTopics
      BY <3>4
    <3>6. metadata \in PvMetadata
      BY <3>4, <3>5, TopicFacts DEF ConfigMsg, PvMetadata
    <3> HIDE DEF metadata, config
    <3> QED BY <3>1, <3>6, NoneAssumption
  <2>2. CASE ~HydrationUpdate
    BY <1>2, <2>2 DEF RunHydration, HydrationStep, HydrationSnapshot, HydrationApply,
                      HydrationNextTopic, HydrationDone, caches
  <2> QED BY <2>1, <2>2
<1>3. ASSUME NEW t \in MonitoredTopics, RunMonitor(t)
      PROVE  metadata_cache'[d] # None
  <2>1. CASE MonitorUpdate(t)
    <3> DEFINE metadata == [monitors[t].metadata EXCEPT !.specific = monitors[t].msg.specific]
    <3>1. metadata_cache' = [metadata_cache EXCEPT ![monitors[t].msg.device] = metadata]
      BY <2>1 DEF MonitorUpdate, update_cached_metadata
    <3>2. monitors[t] \in MonitorTask /\ monitors[t].pc = "update"
      BY <2>1 DEF MonitorsTypeOK, MonitorUpdate
    <3>3. metadata \in PvMetadata
      BY <3>2 DEF MonitorTask, ConfigMsg, PvMetadata
    <3> HIDE DEF metadata
    <3> QED BY <3>1, <3>3, NoneAssumption
  <2>2. CASE ~MonitorUpdate(t)
    BY <1>3, <2>2 DEF RunMonitor, MonitorStep, MonitorSubscribe, MonitorStreamEnds,
                      MonitorReceive, MonitorDecide, MonitorRpc, MonitorRecord, caches
  <2> QED BY <2>1, <2>2
<1>4. CASE OperatorActs \/ ClockTicks \/ Await \/ UNCHANGED vars
  BY <1>4 DEF OperatorActs, OperatorTurn, ClockTicks, Await, vars, caches
<1> QED BY <1>1, <1>2, <1>3, <1>4 DEF Next

\* The Controls task finds the device in scope when it decides to publish.
LEMMA PublishingStays ==
    ASSUME TypeOK, PublishesInScope, [Next]_vars
    PROVE  PublishesInScope'
<1> SUFFICES ASSUME controls_task'.pc = "publish"
             PROVE  metadata_cache'[controls_task'.alarm.device] # None
  BY DEF PublishesInScope
<1>1. CASE RunControls
  <2>1. /\ controls_task.pc = "lookup" /\ controls_task' = [pc |-> "publish",
               alarm |-> controls_task.alarm, observed |-> None,
               metadata |-> metadata_cache[controls_task.alarm.device]]
        /\ metadata_cache[controls_task.alarm.device] # None
        /\ UNCHANGED metadata_cache
    BY <1>1 DEF RunControls, ControlsStep, ControlsSubscribe, ControlsStreamEnds, ControlsReceive,
                ControlsDecide, ControlsPublish, ControlsRecord, ControlsAt, SyncsToPhoebus, caches,
                TypeOK, ControlsTypeOK, ControlsTask
  <2> QED BY <2>1
<1>2. CASE UNCHANGED controls_task
  <2>1. controls_task.alarm.device \in Device
    BY <1>2 DEF TypeOK, ControlsTypeOK, ControlsTask, Mirrored, Status
  <2> QED BY <1>2, <2>1, ScopeStays DEF PublishesInScope
<1>3. ASSUME NEW t \in MonitoredTopics, RunMonitor(t) PROVE UNCHANGED controls_task
  BY <1>3 DEF RunMonitor
<1>4. CASE RunHydration \/ OperatorActs \/ ClockTicks \/ Await \/ UNCHANGED vars
  BY <1>2, <1>4 DEF RunHydration, OperatorActs, OperatorTurn, ClockTicks, Await, vars, tasks
<1> QED BY <1>1, <1>2, <1>3, <1>4 DEF Next

\* The Controls task adds configs of devices in scope, which decide nothing.
LEMMA ControlsKeepsRoutes ==
    ASSUME TypeOK, PublishesInScope, RunControls, NEW d \in Device
    PROVE  \A r \in RoutesFor(d)' : r \in RoutesFor(d)
<1> USE DEF TypeOK, ExternalTypeOK
<1>1. UNCHANGED <<metadata_cache, monitors>>
  BY DEF RunControls, ControlsStep, ControlsSubscribe, ControlsStreamEnds, ControlsReceive,
         ControlsDecide, ControlsPublish, ControlsRecord, caches
<1> SUFFICES ASSUME metadata_cache[d] = None, NEW t \in MonitoredTopics,
                    NEW i \in DOMAIN phoebus_topics'[t],
                    phoebus_topics'[t][i].op = "Config", phoebus_topics'[t][i].device = d
             PROVE  i \in DOMAIN phoebus_topics[t] /\ phoebus_topics'[t][i] = phoebus_topics[t][i]
  <2> SUFFICES ASSUME NEW r, r \in RoutesFor(d)' PROVE r \in RoutesFor(d)
    OBVIOUS
  <2>1. CASE metadata_cache'[d] # None /\ r = Route(metadata_cache'[d])
    BY <1>1, <2>1, RoutesMean
  <2>2. ASSUME NEW t \in MonitoredTopics, HoldsConfig(t, d)', r = Route(monitors'[t].metadata)
        PROVE  r \in RoutesFor(d)
    BY <1>1, <2>2, RoutesMean DEF HoldsConfig
  <2>3. ASSUME metadata_cache'[d] = None, NEW t \in MonitoredTopics,
               NEW i \in DOMAIN phoebus_topics'[t], phoebus_topics'[t][i].op = "Config",
               phoebus_topics'[t][i].device = d,
               r = Route(from_unmapped(phoebus_topics'[t][i], t))
        PROVE  r \in RoutesFor(d)
    <3>1. metadata_cache[d] = None
      BY <1>1, <2>3
    <3>2. i \in DOMAIN phoebus_topics[t] /\ phoebus_topics'[t][i] = phoebus_topics[t][i]
      BY <2>3, <3>1
    <3> QED BY <2>3, <3>1, <3>2, RoutesMean
  <2> QED BY <2>1, <2>2, <2>3, RoutesMean
<1>2. CASE UNCHANGED phoebus_topics
  BY <1>2
<1>3. CASE ControlsPublish
  <2>1. /\ controls_task.pc = "publish" /\ controls_task.alarm \in Mirrored
        /\ MirroredRecord \in PhoebusMsg
        /\ \/ /\ OutboundTopic \in MonitoredTopics
              /\ phoebus_topics' = [phoebus_topics EXCEPT ![OutboundTopic]
                                        = Append(@, MirroredRecord)]
           \/ UNCHANGED phoebus_topics
    BY <1>3, PublishEffect DEF ControlsPublish
  <2>2. MirroredRecord.device # d
    <3>1. MirroredRecord.device = controls_task.alarm.device
      BY DEF MirroredRecord, controls_to_phoebus
    <3> QED BY <2>1, <3>1 DEF PublishesInScope
  <2> DEFINE added == MirroredRecord
  <2> HIDE DEF added
  <2>3. CASE phoebus_topics' = [phoebus_topics EXCEPT ![OutboundTopic] = Append(@, added)]
    <3>1. phoebus_topics[t] \in Seq(PhoebusMsg) /\ added \in PhoebusMsg /\ added.device # d
      BY <2>1, <2>2 DEF added
    <3>2. phoebus_topics'[t] \in {phoebus_topics[t], Append(phoebus_topics[t], added)}
      BY <2>3
    <3>3. \A j \in DOMAIN Append(phoebus_topics[t], added) :
              \/ Append(phoebus_topics[t], added)[j] = added
              \/ /\ j \in DOMAIN phoebus_topics[t]
                 /\ Append(phoebus_topics[t], added)[j] = phoebus_topics[t][j]
      BY <3>1, AppendHeld
    <3> QED BY <3>1, <3>2, <3>3
  <2> QED BY <1>2, <2>1, <2>3 DEF added
<1> QED BY <1>2, <1>3 DEF RunControls, ControlsStep, ControlsSubscribe, ControlsStreamEnds,
                          ControlsReceive, ControlsDecide, ControlsRecord, topics

\* Without anything unread or in hand the cache alone decides the route.
LEMMA CacheDecides ==
    ASSUME NEW d,
           \A t \in MonitoredTopics : ~HoldsConfig(t, d)' /\ phoebus_topics'[t] = <<>>
    PROVE  \A r, s \in RoutesFor(d)' : r = s
<1>1. \A r \in RoutesFor(d)' : metadata_cache'[d] # None /\ r = Route(metadata_cache'[d])
  <2>1. DOMAIN <<>> = {}
    OBVIOUS
  <2> QED BY <2>1, RoutesMean
<1> QED BY <1>1

\* An operator who waits adds a single record.
LEMMA OperatorRoutes ==
    ASSUME TypeOK, Quiet, OperatorActs, NEW d \in Device
    PROVE  \A r, s \in RoutesFor(d)' : r = s
<1> USE DEF TypeOK, ExternalTypeOK
<1>1. UNCHANGED <<caches, tasks>>
  BY DEF OperatorActs, OperatorTurn
<1>2. \A t \in MonitoredTopics : ~HoldsConfig(t, d)'
  BY <1>1 DEF Quiet, HoldsConfig, tasks
<1>3. CASE \E status \in ControlsInputs : ControlsActs(status)
  <2>1. \A t \in MonitoredTopics : phoebus_topics'[t] = <<>>
    BY <1>3 DEF Quiet, ControlsActs
  <2> QED BY <1>2, <2>1, CacheDecides
<1>4. ASSUME NEW input \in PhoebusInputs, PhoebusActs(input)
      PROVE  \A r, s \in RoutesFor(d)' : r = s
  <2>1. input[1] \in MonitoredTopics /\ input[2] \in PhoebusMsg
    BY EnvironmentAssumption
  <2>2. phoebus_topics' = [phoebus_topics EXCEPT ![input[1]] = Append(@, input[2])]
    BY <1>4 DEF PhoebusActs, PublishPhoebus
  <2>3. \A t \in MonitoredTopics :
            phoebus_topics'[t] = IF t = input[1] THEN Append(<<>>, input[2]) ELSE <<>>
    BY <2>1, <2>2 DEF Quiet
  <2>4. <<>> \in Seq(PhoebusMsg) /\ DOMAIN <<>> = {}
    OBVIOUS
  <2>5. \A i \in DOMAIN Append(<<>>, input[2]) : Append(<<>>, input[2])[i] = input[2]
    BY <2>1, <2>4, AppendHeld
  <2>6. \A t \in MonitoredTopics : \A i \in DOMAIN phoebus_topics'[t] :
            t = input[1] /\ phoebus_topics'[t][i] = input[2]
    BY <2>3, <2>4, <2>5
  <2>7. \A r \in RoutesFor(d)' :
            \/ metadata_cache'[d] # None /\ r = Route(metadata_cache'[d])
            \/ metadata_cache'[d] = None /\ r = Route(from_unmapped(input[2], input[1]))
    <3> TAKE r \in RoutesFor(d)'
    <3>1. CASE metadata_cache'[d] # None /\ r = Route(metadata_cache'[d])
      BY <3>1
    <3>2. ASSUME metadata_cache'[d] = None, NEW t \in MonitoredTopics,
                 NEW i \in DOMAIN phoebus_topics'[t],
                 r = Route(from_unmapped(phoebus_topics'[t][i], t))
          PROVE  r = Route(from_unmapped(input[2], input[1]))
      BY <2>6, <3>2
    <3> QED BY <1>2, <3>1, <3>2, RoutesMean
  <2> QED BY <2>7
<1> QED BY <1>3, <1>4 DEF OperatorActs

\* Operators and the startup pass leave one route to each device.
LEMMA RoutesInductive ==
    ASSUME Paced, TypeOK, TurnsAreTaken, RoutesAgree, [Next]_vars
    PROVE  RoutesAgree'
<1>1. PublishesInScope'
  BY PublishingStays DEF RoutesAgree
<1> SUFFICES ASSUME hydration'.pc = "done", NEW d \in Device
             PROVE  \A r, s \in RoutesFor(d)' : r = s
  BY <1>1 DEF RoutesAgree
<1>2. ASSUME hydration.pc = "done", \A r \in RoutesFor(d)' : r \in RoutesFor(d)
      PROVE  \A r, s \in RoutesFor(d)' : r = s
  BY <1>2 DEF RoutesAgree
<1>3. CASE RunControls
  <2>1. \A r \in RoutesFor(d)' : r \in RoutesFor(d)
    BY <1>3, ControlsKeepsRoutes DEF RoutesAgree
  <2> QED BY <1>2, <1>3, <2>1 DEF RunControls
<1>4. ASSUME NEW t \in MonitoredTopics, RunMonitor(t)
      PROVE  \A r, s \in RoutesFor(d)' : r = s
  BY <1>2, <1>4, MonitorKeepsRoutes DEF RunMonitor
<1>5. CASE RunHydration
  <2>1. hydration.pc # "done" /\ UNCHANGED <<monitors, phoebus_topics>>
    BY <1>5 DEF RunHydration, HydrationStep, HydrationSnapshot, HydrationApply, HydrationUpdate,
                HydrationNextTopic, HydrationDone, topics
  <2>2. \A t \in MonitoredTopics : ~HoldsConfig(t, d)' /\ phoebus_topics'[t] = <<>>
    BY <2>1 DEF TurnsAreTaken, StillAtStartup, HoldsConfig
  <2> QED BY <2>2, CacheDecides
<1>6. CASE OperatorActs
  BY <1>6, OperatorRoutes DEF OperatorActs, OperatorTurn
<1>7. CASE ClockTicks \/ Await \/ UNCHANGED vars
  <2>1. UNCHANGED <<metadata_cache, monitors, phoebus_topics, hydration>>
    BY <1>7 DEF ClockTicks, Tick, Await, vars, caches, external, topics, tasks
  <2>2. \A r \in RoutesFor(d)' : r \in RoutesFor(d)
    BY <2>1, RoutesMean DEF HoldsConfig
  <2> QED BY <1>2, <2>1, <2>2
<1> QED BY <1>3, <1>4, <1>5, <1>6, <1>7 DEF Next

\* While operators act one at a time, all that may decide where a device is mirrored
\* to says the same: the cache, the metadata a monitor has read before a call, and
\* the unread config of a device that is not in scope yet.
THEOREM RoutesAgreed ==
    ASSUME Paced
    PROVE  Spec => []RoutesAgree
<1>1. Init => RoutesAgree
  BY DEF Init, ControlsInit, ControlsAt, HydrationInit, RoutesAgree, PublishesInScope
<1> QED BY <1>1, RoutesInductive, TypeCorrect, TurnsTaken, PTL DEF Spec

\* A device in scope stays there after startup, mirrored to the topic and the path
\* under which it came into scope: what a monitor writes back after its calls is what
\* everybody has seen meanwhile.
THEOREM RouteIsKept ==
    Spec => RouteKept
<1> DEFINE Kept == Paced /\ hydration.pc = "done" =>
                       \A d \in Device : metadata_cache[d] # None =>
                           /\ metadata_cache'[d] # None
                           /\ Route(metadata_cache'[d]) = Route(metadata_cache[d])
<1>1. CASE Paced
  <2>1. TypeOK /\ TurnsAreTaken /\ RoutesAgree /\ [Next]_vars => Kept
    <3> SUFFICES ASSUME TypeOK, TurnsAreTaken, RoutesAgree, [Next]_vars, hydration.pc = "done",
                        NEW d \in Device, metadata_cache[d] # None
                 PROVE  /\ metadata_cache'[d] # None
                        /\ Route(metadata_cache'[d]) = Route(metadata_cache[d])
      OBVIOUS
    <3>1. metadata_cache'[d] # None
      BY ScopeStays
    <3>2. Route(metadata_cache'[d]) \in RoutesFor(d)'
      BY <3>1, RoutesMean
    <3>3. Route(metadata_cache[d]) \in RoutesFor(d)
      BY RoutesMean
    <3>4. CASE UNCHANGED metadata_cache
      BY <3>1, <3>4
    <3>5. ASSUME NEW t \in MonitoredTopics, RunMonitor(t)
          PROVE  Route(metadata_cache'[d]) = Route(metadata_cache[d])
      <4>1. Route(metadata_cache'[d]) \in RoutesFor(d)
        BY <3>2, <3>5, MonitorKeepsRoutes
      <4> QED BY <1>1, <3>3, <4>1 DEF RoutesAgree
    <3>6. RunControls \/ RunHydration \/ OperatorActs \/ ClockTicks \/ Await \/ UNCHANGED vars
              => UNCHANGED metadata_cache
      BY DEF RunControls, ControlsStep, ControlsSubscribe, ControlsStreamEnds, ControlsReceive,
             ControlsDecide, ControlsPublish, ControlsRecord, RunHydration, HydrationStep,
             HydrationSnapshot, HydrationApply, HydrationUpdate, HydrationNextTopic, HydrationDone,
             OperatorActs, OperatorTurn, ClockTicks, Await, vars, caches
    <3> QED BY <3>1, <3>4, <3>5, <3>6 DEF Next
  <2> QED BY <1>1, <2>1, TypeCorrect, TurnsTaken, RoutesAgreed, PTL DEF Spec, RouteKept
<1>2. CASE ~Paced
  <2>1. [Next]_vars => Kept
    BY <1>2
  <2> QED BY <2>1, PTL DEF Spec, RouteKept
<1> QED BY <1>1, <1>2

=============================================================================
