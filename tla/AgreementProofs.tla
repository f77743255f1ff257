--------------------------- MODULE AgreementProofs ---------------------------
(***************************************************************************)
(* The startup pass, the operators and the clock keep the correction of a  *)
(* device under way as well; so what was asked for is what both systems    *)
(* and the program know of every device in scope once all has settled.     *)
(***************************************************************************)
EXTENDS SettlingProofs

-----------------------------------------------------------------------------
(* The startup pass.                                                       *)

\* The last config in the tail of a log is the last one in the log; without one
\* there it is the head.
LEMMA LastConfigOfTail ==
    ASSUME NEW records \in Seq(PhoebusMsg), records # <<>>, NEW d
    PROVE  /\ \A i : IsLastConfig(i, Tail(records), d) =>
                 /\ i \in DOMAIN Tail(records) /\ i + 1 \in DOMAIN records
                 /\ IsLastConfig(i + 1, records, d) /\ Tail(records)[i] = records[i + 1]
           /\ Configures(Head(records), d) /\ ConfigsFor(Tail(records), d) = {} =>
                 1 \in DOMAIN records /\ IsLastConfig(1, records, d) /\ Head(records) = records[1]
<1>1. /\ DOMAIN records = 1 .. Len(records) /\ Len(records) \in Nat \ {0}
      /\ DOMAIN Tail(records) = 1 .. Len(records) - 1
      /\ \A i \in DOMAIN Tail(records) : Tail(records)[i] = records[i + 1]
      /\ Head(records) = records[1]
  OBVIOUS
<1>2. ASSUME NEW i, IsLastConfig(i, Tail(records), d)
      PROVE  /\ i \in DOMAIN Tail(records) /\ i + 1 \in DOMAIN records
             /\ IsLastConfig(i + 1, records, d) /\ Tail(records)[i] = records[i + 1]
  <2>1. i \in DOMAIN Tail(records) /\ Configures(Tail(records)[i], d)
    BY <1>2, ConfigsForDef DEF IsLastConfig
  <2>2. i + 1 \in ConfigsFor(records, d)
    BY <1>1, <2>1, ConfigsForDef
  <2>3. ASSUME NEW j \in ConfigsFor(records, d)
        PROVE  j <= i + 1
    <3>1. j \in DOMAIN records /\ Configures(records[j], d)
      BY ConfigsForDef
    <3>2. CASE j = 1
      BY <1>1, <2>1, <3>2
    <3>3. CASE j # 1
      <4>1. j - 1 \in DOMAIN Tail(records) /\ Tail(records)[j - 1] = records[j]
        BY <1>1, <3>1, <3>3
      <4>2. j - 1 \in ConfigsFor(Tail(records), d)
        BY <3>1, <4>1, ConfigsForDef
      <4>3. j - 1 <= i
        BY <1>2, <4>2 DEF IsLastConfig
      <4> QED BY <1>1, <2>1, <3>1, <4>3
    <3> QED BY <3>2, <3>3
  <2> QED BY <1>1, <2>1, <2>2, <2>3 DEF IsLastConfig
<1>3. ASSUME Configures(Head(records), d), ConfigsFor(Tail(records), d) = {}
      PROVE  1 \in DOMAIN records /\ IsLastConfig(1, records, d)
  <2>1. 1 \in ConfigsFor(records, d)
    BY <1>1, <1>3, ConfigsForDef
  <2>2. ASSUME NEW j \in ConfigsFor(records, d), j # 1
        PROVE  FALSE
    <3>1. j \in DOMAIN records /\ Configures(records[j], d)
      BY ConfigsForDef
    <3>2. j - 1 \in DOMAIN Tail(records) /\ Tail(records)[j - 1] = records[j]
      BY <1>1, <2>2, <3>1
    <3> QED BY <1>3, <3>1, <3>2, ConfigsForDef
  <2>3. \A j \in ConfigsFor(records, d) : j <= 1
    BY <2>2
  <2> QED BY <1>1, <2>1, <2>3 DEF IsLastConfig
<1> QED BY <1>1, <1>2, <1>3

LEMMA LastOfTail ==
    ASSUME NEW records \in Seq(PhoebusMsg), records # <<>>, NEW d
    PROVE  /\ LastShows(records, d) => LastShows(Tail(records), d)
           /\ LastShows(records, d) /\ Configures(records[1], d) /\ ConfigsFor(Tail(records), d) = {}
                 => Shown(records[1].enabled) = intent[d]
<1>1. Head(records) = records[1]
  OBVIOUS
<1> QED BY <1>1, LastConfigOfTail DEF LastShows

\* A state record that reports a device to be well.
ReportsWell(msg, d) == msg.op = "State" /\ msg.severity = "OK" /\ msg.device = d

WellReported(records, d) == \E i \in DOMAIN records : ReportsWell(records[i], d)

LEMMA TailReports ==
    ASSUME NEW records \in Seq(PhoebusMsg), records # <<>>, NEW d
    PROVE  WellReported(records, d) <=> ReportsWell(Head(records), d) \/ WellReported(Tail(records), d)
  BY HeadAndTail, Zenon DEF WellReported

\* During the startup pass a device that is remembered is as it was asked for, or has
\* a config still to be recorded; nothing else is under way.
LEMMA StartupSettles ==
    ASSUME Ready, NEW d \in Device, SettlesFor(d), RunHydration, UNCHANGED intent,
           hydration.pc # "done",
           IsKnown(d)' =>
               /\ Remembered(d)' \/ Hydrates(d)'
               /\ metadata_cache'[d] # None \/ Scopes(d)' \/ Hydrates(d)',
           phoebus_view[d] # None =>
               \/ metadata_cache'[d] # None \/ Scopes(d)' \/ Hydrates(d)'
               \/ /\ hydration'.pc # "done"
                  /\ \E i \in DOMAIN hydration'.todo :
                        /\ ConfigsFor(retained[hydration'.todo[i]], d) # {}
                        /\ i = 1 => hydration'.pc = "snapshot",
           hydration'.pc # "done" =>
               /\ LastShows(Unapplied, d)'
               /\ Scopes(d)' => IsKnown(d)'
               /\ WellReported(Unapplied, d)' =>
                     metadata_cache'[d] # None \/ Scopes(d)' \/ Hydrates(d)'
    PROVE  SettlesFor(d)'
<1> USE DEF Ready, Wished, TypeOK
<1>1. UNCHANGED <<controls_topic, phoebus_topics, controls_view, phoebus_view, controls_task,
                  monitors, now, retained>>
  BY HydrationKeeps DEF views, phoebus_side, RunHydration, HydrationStep, HydrationSnapshot,
                        HydrationApply, HydrationUpdate, HydrationNextTopic, HydrationDone
<1>2. /\ controls_topic = <<>> /\ controls_task.pc \in {"down", "idle"}
      /\ \A t \in MonitoredTopics : phoebus_topics[t] = <<>> /\ monitors[t].pc = "down"
  BY DEF TurnsAreTaken, StillAtStartup
<1>3. controls_view[d] = intent[d] /\ phoebus_view[d] = intent[d]
  BY DEF SettlesFor, LogsShowIntent
<1>4. ToldControls(d)' /\ ToldPhoebus(d)'
  BY <1>1, <1>3 DEF ToldControls, ToldPhoebus, Effective
<1>5. SourcesTold(d)' /\ ControlsMirrors(d)' /\ \A t \in MonitoredTopics : MonitorMirrors(monitors[t], d)'
  BY <1>1, <1>2, <1>4 DEF SourcesTold, ControlsMirrors, ControlsHolds, MonitorMirrors
<1>6. KnownIsTold(d)' /\ KnownIsScoped(d)'
  BY <1>4 DEF KnownIsTold, KnownIsScoped, Underway
<1>7. ConfiguredIsScoped(d)'
  BY <1>1 DEF ConfiguredIsScoped
<1>8. LogsShowIntent(d)'
  <2> SUFFICES ASSUME hydration'.pc # "done" PROVE LogsShowIntent(d)'
    BY DEF LogsShowIntent
  <2>1. \A t \in PhoebusTopics : LastShows(retained[t], d)'
    BY <1>1 DEF SettlesFor, LogsShowIntent, LastShows
  <2> QED BY <1>1, <1>3, <2>1 DEF LogsShowIntent, WellReported, ReportsWell
<1> QED BY <1>5, <1>6, <1>7, <1>8 DEF SettlesFor

\* What is known of a device during the startup pass.
LEMMA AtStartup ==
    ASSUME Ready, NEW d \in Device, SettlesFor(d), hydration.pc # "done"
    PROVE  /\ IsKnown(d) => /\ Remembered(d) \/ Hydrates(d)
                            /\ metadata_cache[d] # None \/ Scopes(d) \/ Hydrates(d)
           /\ phoebus_view[d] # None =>
                 \/ metadata_cache[d] # None \/ Scopes(d) \/ Hydrates(d)
                 \/ \E i \in DOMAIN hydration.todo :
                       /\ ConfigsFor(retained[hydration.todo[i]], d) # {}
                       /\ i = 1 => hydration.pc = "snapshot"
           /\ LastShows(Unapplied, d)
           /\ \A t \in PhoebusTopics : LastShows(retained[t], d)
           /\ Scopes(d) => IsKnown(d)
           /\ WellReported(Unapplied, d) => metadata_cache[d] # None \/ Scopes(d) \/ Hydrates(d)
<1>1. /\ controls_topic = <<>> /\ controls_task.pc \in {"down", "idle"}
      /\ \A t \in MonitoredTopics : phoebus_topics[t] = <<>> /\ monitors[t].pc = "down"
  BY DEF Ready, TurnsAreTaken, StillAtStartup
<1>2. /\ ~StatusWaits(d) /\ ~ControlsHolds(d, {"lookup", "publish", "record"})
      /\ ~RecordWaits(d) /\ ~MonitorHolds(d, {"policy", "rpc", "record"})
      /\ ~MonitorHolds(d, {"policy", "rpc", "record", "update"}) /\ ~MonitorHolds(d, {"update"})
  BY <1>1, ConfigsForDef DEF StatusWaits, ControlsHolds, RecordWaits, MonitorHolds
<1>3. IsKnown(d) => Remembered(d) \/ Hydrates(d)
  BY <1>2 DEF SettlesFor, KnownIsTold, Underway
<1>4. IsKnown(d) => metadata_cache[d] # None \/ Scopes(d) \/ Hydrates(d)
  BY <1>2 DEF SettlesFor, KnownIsScoped
<1>5. phoebus_view[d] # None =>
         \/ metadata_cache[d] # None \/ Scopes(d) \/ Hydrates(d)
         \/ \E i \in DOMAIN hydration.todo :
               /\ ConfigsFor(retained[hydration.todo[i]], d) # {}
               /\ i = 1 => hydration.pc = "snapshot"
  BY <1>2 DEF SettlesFor, ConfiguredIsScoped
<1>6. /\ LastShows(Unapplied, d)
      /\ \A t \in PhoebusTopics : LastShows(retained[t], d)
      /\ Scopes(d) => IsKnown(d)
      /\ WellReported(Unapplied, d) => metadata_cache[d] # None \/ Scopes(d) \/ Hydrates(d)
  BY DEF SettlesFor, LogsShowIntent, WellReported, ReportsWell
<1> QED BY <1>3, <1>4, <1>5, <1>6

\* A snapshot holds every config its topic had at startup.
LEMMA SnapshotSettles ==
    ASSUME StatesAreConfigured, retained \in RetainedLogs,
           Ready, NEW d \in Device, SettlesFor(d), RunHydration, UNCHANGED intent,
           HydrationSnapshot, NoFault
    PROVE  SettlesFor(d)'
<1> USE DEF Ready, Wished, TypeOK, ExternalTypeOK, HydrationTypeOK, Hydration
<1> DEFINE topic == Head(hydration.todo)
           todo == hydration.todo
<1>1. /\ hydration.pc = "snapshot" /\ todo # <<>> /\ todo \in Seq(PhoebusTopics)
      /\ UNCHANGED <<alarm_states, metadata_cache, now, retained, phoebus_view>>
  BY DEF HydrationSnapshot, caches, views, phoebus_side
<1>2. topic \in PhoebusTopics /\ topic = todo[1] /\ topic \in MonitoredTopics
  BY <1>1, TopicFacts
<1>3. retained[topic] \in Seq(PhoebusMsg)
  BY <1>2
<1>4. retained[topic] \o phoebus_topics[topic] = retained[topic]
  <2>1. phoebus_topics[topic] = <<>>
    BY <1>1, <1>2 DEF TurnsAreTaken, StillAtStartup
  <2> QED BY <1>3, <2>1, ConcatEmptySeq
<1>5. hydration' = [hydration EXCEPT !.pc = "apply", !.messages = retained[topic]]
  <2>1. ~Fault
    BY DEF Fault, NoFault
  <2> QED BY <1>4, <2>1 DEF HydrationSnapshot
<1>6. hydration'.pc = "apply" /\ hydration'.messages = retained[topic] /\ hydration'.todo = todo
  BY <1>5
<1>7. /\ Unapplied = <<>> /\ ~Hydrates(d) /\ ~Scopes(d) /\ ~Scopes(d)'
      /\ Unapplied' = retained[topic]
  BY <1>1, <1>6, ConfigsForDef DEF Unapplied, Hydrates, Scopes
<1>8. Hydrates(d)' <=> ConfigsFor(retained[topic], d) # {}
  BY <1>7 DEF Hydrates
<1>9. (IsKnown(d)' <=> IsKnown(d)) /\ (Remembered(d)' <=> Remembered(d))
  BY <1>1 DEF IsKnown, Remembered, Effective
<1>10. phoebus_view[d] # None =>
          \/ metadata_cache'[d] # None \/ Hydrates(d)'
          \/ \E i \in DOMAIN todo : ConfigsFor(retained[todo[i]], d) # {} /\ i # 1
  BY <1>1, <1>2, <1>7, <1>8, AtStartup
<1>11. LastShows(Unapplied, d)'
  <2>1. LastShows(retained[topic], d)
    BY <1>1, <1>2, AtStartup
  <2> QED BY <1>7, <2>1 DEF LastShows
<1>12. WellReported(Unapplied, d)' => Hydrates(d)'
  <2>1. WellReported(Unapplied, d)' <=> WellReported(retained[topic], d)
    BY <1>7 DEF WellReported
  <2>2. WellReported(retained[topic], d) => ConfigsFor(retained[topic], d) # {}
    BY <1>2 DEF StatesAreConfigured, WellReported, ReportsWell
  <2> QED BY <1>8, <2>1, <2>2
<1> HIDE DEF todo
<1>13. phoebus_view[d] # None =>
           \/ metadata_cache'[d] # None \/ Scopes(d)' \/ Hydrates(d)'
           \/ /\ hydration'.pc # "done"
              /\ \E i \in DOMAIN hydration'.todo :
                    /\ ConfigsFor(retained[hydration'.todo[i]], d) # {}
                    /\ i = 1 => hydration'.pc = "snapshot"
  BY <1>6, <1>10
<1>14. IsKnown(d)' => Remembered(d)' /\ metadata_cache'[d] # None
  BY <1>1, <1>7, <1>9, AtStartup
<1> QED BY <1>1, <1>7, <1>11, <1>12, <1>13, <1>14, StartupSettles

LEMMA NextTopicSettles ==
    ASSUME Ready, NEW d \in Device, SettlesFor(d), RunHydration, UNCHANGED intent,
           HydrationNextTopic
    PROVE  SettlesFor(d)'
<1> USE DEF Ready, Wished, TypeOK, ExternalTypeOK, HydrationTypeOK, Hydration
<1> DEFINE todo == hydration.todo
<1>1. /\ hydration.pc = "apply" /\ todo # <<>> /\ todo \in Seq(PhoebusTopics)
      /\ UNCHANGED <<alarm_states, metadata_cache, now, retained, phoebus_view>>
      /\ hydration'.pc = "snapshot" /\ hydration'.todo = Tail(todo)
      /\ hydration.messages = <<>>
  BY DEF HydrationNextTopic, caches, views, phoebus_side
<1>2. /\ ~Hydrates(d) /\ ~Scopes(d) /\ ~Hydrates(d)' /\ ~Scopes(d)'
      /\ Unapplied' = <<>>
  BY <1>1, ConfigsForDef DEF Unapplied, Hydrates, Scopes
<1>3. (IsKnown(d)' <=> IsKnown(d)) /\ (Remembered(d)' <=> Remembered(d))
  BY <1>1 DEF IsKnown, Remembered, Effective
<1>4. phoebus_view[d] # None =>
          \/ metadata_cache'[d] # None
          \/ \E i \in DOMAIN Tail(todo) : ConfigsFor(retained[Tail(todo)[i]], d) # {}
  <2>1. phoebus_view[d] # None =>
           \/ metadata_cache[d] # None
           \/ \E i \in DOMAIN todo : ConfigsFor(retained[todo[i]], d) # {} /\ i # 1
    BY <1>1, <1>2, AtStartup
  <2> HIDE DEF todo
  <2>2. ASSUME NEW i \in DOMAIN todo, ConfigsFor(retained[todo[i]], d) # {}, i # 1
        PROVE  \E j \in DOMAIN Tail(todo) : ConfigsFor(retained[Tail(todo)[j]], d) # {}
    <3>1. i - 1 \in DOMAIN Tail(todo) /\ Tail(todo)[i - 1] = todo[i]
      BY <1>1, <2>2, HeadAndTail, Zenon
    <3> QED BY <2>2, <3>1
  <2> QED BY <1>1, <2>1, <2>2
<1>5. LastShows(Unapplied, d)' /\ ~WellReported(Unapplied, d)'
  BY <1>2 DEF LastShows, WellReported
<1> HIDE DEF todo
<1>6. phoebus_view[d] # None =>
           \/ metadata_cache'[d] # None \/ Scopes(d)' \/ Hydrates(d)'
           \/ /\ hydration'.pc # "done"
              /\ \E i \in DOMAIN hydration'.todo :
                    /\ ConfigsFor(retained[hydration'.todo[i]], d) # {}
                    /\ i = 1 => hydration'.pc = "snapshot"
  BY <1>1, <1>4
<1>7. IsKnown(d)' => Remembered(d)' /\ metadata_cache'[d] # None
  BY <1>1, <1>2, <1>3, AtStartup
<1> QED BY <1>1, <1>2, <1>5, <1>6, <1>7, StartupSettles

LEMMA DoneSettles ==
    ASSUME Ready, NEW d \in Device, SettlesFor(d), RunHydration, UNCHANGED intent,
           HydrationDone
    PROVE  SettlesFor(d)'
<1> USE DEF Ready, Wished, TypeOK, ExternalTypeOK, HydrationTypeOK, Hydration
<1>1. /\ hydration.pc = "snapshot" /\ hydration.todo = <<>> /\ hydration'.pc = "done"
      /\ UNCHANGED <<alarm_states, metadata_cache, now>>
  BY DEF HydrationDone, caches
<1>2. ~Hydrates(d) /\ ~Scopes(d) /\ ~Hydrates(d)' /\ ~Scopes(d)'
  BY <1>1, ConfigsForDef DEF Unapplied, Hydrates, Scopes
<1>3. (IsKnown(d)' <=> IsKnown(d)) /\ (Remembered(d)' <=> Remembered(d))
  BY <1>1 DEF IsKnown, Remembered, Effective
<1>4. phoebus_view[d] # None => metadata_cache'[d] # None
  BY <1>1, <1>2, AtStartup
<1>5. IsKnown(d)' => Remembered(d)' /\ metadata_cache'[d] # None
  BY <1>1, <1>2, <1>3, AtStartup
<1> QED BY <1>1, <1>4, <1>5, StartupSettles

LEMMA ScopeSettles ==
    ASSUME Ready, NEW d \in Device, SettlesFor(d), RunHydration, UNCHANGED intent,
           HydrationUpdate
    PROVE  SettlesFor(d)'
<1> USE DEF Ready, Wished, TypeOK, ExternalTypeOK, HydrationTypeOK, Hydration
<1> DEFINE config == Head(hydration.messages)
           metadata == [specific |-> config.specific, path |-> config.path,
                        topic |-> Head(hydration.todo)]
<1>1. /\ hydration.pc = "update"
      /\ hydration'.pc = "apply" /\ hydration'.messages = Tail(hydration.messages)
      /\ hydration'.todo = hydration.todo
      /\ metadata_cache' = [metadata_cache EXCEPT ![config.device] = metadata]
      /\ metadata_cache \in [Device -> PvMetadata \cup {None}]
      /\ UNCHANGED <<alarm_states, now, retained, phoebus_view>>
  BY DEF HydrationUpdate, update_cached_metadata, CachesTypeOK, views, phoebus_side
<1>2. config \in ConfigMsg /\ Head(hydration.todo) \in PhoebusTopics
  BY <1>1
<1>3. metadata # None
  <2>1. metadata \in PvMetadata
    BY <1>2, TopicFacts DEF PvMetadata, ConfigMsg
  <2> QED BY <2>1, NoneAssumption
<1>4. /\ Unapplied' = Unapplied
      /\ Hydrates(d)' <=> Hydrates(d)
      /\ Scopes(d) <=> config.device = d
      /\ ~Scopes(d)'
  BY <1>1 DEF Unapplied, Hydrates, Scopes
<1> HIDE DEF metadata
<1>5. IF config.device = d THEN metadata_cache'[d] # None
                           ELSE metadata_cache'[d] = metadata_cache[d]
  BY <1>1, <1>3
<1>6. Remembered(d)' <=> Remembered(d)
  BY <1>1 DEF Remembered, Effective
<1>7. IsKnown(d)' => IsKnown(d)
  BY <1>1, <1>4, <1>5, AtStartup DEF IsKnown
<1>8. metadata_cache[d] # None \/ Scopes(d) => metadata_cache'[d] # None
  BY <1>4, <1>5
<1>9. IsKnown(d)' => /\ Remembered(d)' \/ Hydrates(d)'
                     /\ metadata_cache'[d] # None \/ Hydrates(d)'
  BY <1>1, <1>4, <1>6, <1>7, <1>8, AtStartup
<1>10. LastShows(Unapplied, d)' /\ (WellReported(Unapplied, d)' <=> WellReported(Unapplied, d))
  <2>1. LastShows(Unapplied, d)
    BY <1>1, AtStartup
  <2> QED BY <1>4, <2>1 DEF LastShows, WellReported
<1>11. WellReported(Unapplied, d)' => metadata_cache'[d] # None \/ Hydrates(d)'
  BY <1>1, <1>4, <1>8, <1>10, AtStartup
<1>12. phoebus_view[d] # None =>
           \/ metadata_cache'[d] # None \/ Hydrates(d)'
           \/ /\ hydration'.pc # "done"
              /\ \E i \in DOMAIN hydration'.todo :
                    /\ ConfigsFor(retained[hydration'.todo[i]], d) # {}
                    /\ i = 1 => hydration'.pc = "snapshot"
  <2>1. phoebus_view[d] # None =>
           \/ metadata_cache'[d] # None \/ Hydrates(d)'
           \/ \E i \in DOMAIN hydration.todo :
                 /\ ConfigsFor(retained[hydration.todo[i]], d) # {}
                 /\ i = 1 => hydration.pc = "snapshot"
    BY <1>1, <1>4, <1>8, AtStartup
  <2> QED BY <1>1, <2>1
<1> QED BY <1>1, <1>4, <1>9, <1>10, <1>11, <1>12, StartupSettles

\* A record of the snapshot that is no valid config and no evidence is passed over,
\* as is a config or evidence of another device.
LEMMA PassOver ==
    ASSUME Ready, NEW d \in Device, SettlesFor(d), RunHydration, UNCHANGED intent,
           HydrationApply,
           hydration'.pc \in {"apply", "update"}, hydration'.todo = hydration.todo,
           Unapplied' = Tail(hydration.messages),
           ~Configures(Head(hydration.messages), d),
           ~Scopes(d)',
           Effective(alarm_states[d])' = Effective(alarm_states[d]) \/ alarm_states[d] = None,
           IsKnown(d)' => IsKnown(d) \/ ReportsWell(Head(hydration.messages), d)
    PROVE  SettlesFor(d)'
<1> USE DEF Ready, Wished, TypeOK, ExternalTypeOK, HydrationTypeOK, Hydration
<1> DEFINE messages == hydration.messages
<1>1. /\ hydration.pc = "apply" /\ messages # <<>> /\ messages \in Seq(PhoebusMsg)
      /\ UNCHANGED <<metadata_cache, now, retained, phoebus_view>>
  BY DEF HydrationApply, views, phoebus_side
<1>2. Unapplied = messages /\ ~Scopes(d)
  BY <1>1 DEF Unapplied, Scopes
<1>3. Hydrates(d)' <=> Hydrates(d)
  <2>1. ConfigsFor(messages, d) # {} <=> ConfigsFor(Tail(messages), d) # {}
    BY <1>1, TailConfigures
  <2> QED BY <1>2, <2>1 DEF Hydrates
<1>4. alarm_states[d] # None => (Remembered(d)' <=> Remembered(d))
  BY <1>1, NextTelling
<1>a. metadata_cache[d] # None \/ IsKnown(d) => alarm_states[d] # None
  BY DEF IsKnown, ScopeInvariant, ScopeImpliesObserved
<1>5. LastShows(Unapplied, d)'
  <2>1. LastShows(messages, d)
    BY <1>1, <1>2, AtStartup
  <2>2. LastShows(Tail(messages), d)
    BY <1>1, <2>1, LastOfTail
  <2> QED BY <2>2 DEF LastShows
<1>6. /\ WellReported(Unapplied, d)' => WellReported(Unapplied, d)
      /\ ReportsWell(Head(messages), d) => WellReported(Unapplied, d)
  <2>1. WellReported(messages, d) <=> ReportsWell(Head(messages), d) \/ WellReported(Tail(messages), d)
    BY <1>1, TailReports
  <2>2. WellReported(Unapplied, d)' <=> WellReported(Tail(messages), d)
    BY DEF WellReported
  <2> QED BY <1>2, <2>1, <2>2
<1>7. WellReported(Unapplied, d) => metadata_cache'[d] # None \/ Hydrates(d)'
  BY <1>1, <1>2, <1>3, AtStartup
<1>8. IsKnown(d)' => IsKnown(d) \/ Hydrates(d)'
  BY <1>1, <1>6, <1>7 DEF IsKnown
<1>9. IsKnown(d)' => /\ Remembered(d)' \/ Hydrates(d)'
                     /\ metadata_cache'[d] # None \/ Hydrates(d)'
  BY <1>1, <1>2, <1>3, <1>4, <1>a, <1>8, AtStartup
<1>10. phoebus_view[d] # None =>
           \/ metadata_cache'[d] # None \/ Hydrates(d)'
           \/ /\ hydration'.pc # "done"
              /\ \E i \in DOMAIN hydration'.todo :
                    /\ ConfigsFor(retained[hydration'.todo[i]], d) # {}
                    /\ i = 1 => hydration'.pc = "snapshot"
  <2>1. phoebus_view[d] # None =>
           \/ metadata_cache'[d] # None \/ Hydrates(d)'
           \/ \E i \in DOMAIN hydration.todo :
                 /\ ConfigsFor(retained[hydration.todo[i]], d) # {}
                 /\ i = 1 => hydration.pc = "snapshot"
    BY <1>1, <1>2, <1>3, AtStartup
  <2> QED BY <1>1, <2>1
<1> QED BY <1>1, <1>5, <1>6, <1>7, <1>9, <1>10, StartupSettles

\* A valid config of the snapshot is recorded; if it is the last one, it is what was
\* asked for.
LEMMA ConfigSettles ==
    ASSUME Ready, NEW d \in Device, SettlesFor(d), RunHydration, UNCHANGED intent,
           HydrationApply, Configures(Head(hydration.messages), d)
    PROVE  SettlesFor(d)'
<1> USE DEF Ready, Wished, TypeOK, ExternalTypeOK, HydrationTypeOK, Hydration
<1> DEFINE messages == hydration.messages
           msg == Head(messages)
           state == as_cached_state(msg.enabled, now)
<1>1. /\ hydration.pc = "apply" /\ messages # <<>> /\ messages \in Seq(PhoebusMsg)
      /\ msg \in PhoebusMsg /\ msg = messages[1] /\ now \in Nat
      /\ UNCHANGED <<metadata_cache, now, retained, phoebus_view>>
  BY DEF HydrationApply, views, phoebus_side
<1>2. /\ msg.op = "Config" /\ msg.device = d /\ Normalizable(msg.enabled)
      /\ msg.enabled \in Enablement
  BY <1>1 DEF Configures, PhoebusMsg, CommandMsg, ConfigMsg, StateMsg, BadKeyMsg
<1>3. /\ alarm_states' = [alarm_states EXCEPT ![d] = state]
      /\ hydration' = [hydration EXCEPT !.pc = "update"]
  BY <1>2 DEF HydrationApply, record_alarm_state
<1>4. /\ hydration'.pc = "update" /\ hydration'.messages = messages
      /\ hydration'.todo = hydration.todo
  BY <1>3
<1>5. alarm_states'[d] = state /\ state \in CachedState /\ IsEnablement(state.state)
  <2>1. alarm_states \in [Device -> Observation]
    BY DEF CachesTypeOK
  <2>2. state \in CachedState
    BY <1>1, <1>2, AsCachedStateType
  <2>3. IsEnablement(state.state)
    BY DEF as_cached_state, Plain, IsEnablement
  <2> QED BY <1>3, <2>1, <2>2, <2>3
<1>6. Unapplied = messages /\ Unapplied' = Tail(messages)
  BY <1>1, <1>4 DEF Unapplied
<1>7. Scopes(d)'
  BY <1>2, <1>4 DEF Scopes
<1>8. IsKnown(d)'
  BY <1>5, NoneAssumption DEF IsKnown
<1>9. Hydrates(d)' \/ Remembered(d)'
  <2> SUFFICES ASSUME ~Hydrates(d)' PROVE Remembered(d)'
    OBVIOUS
  <2>1. ConfigsFor(Tail(messages), d) = {}
    BY <1>6 DEF Hydrates
  <2>2. Shown(msg.enabled) = intent[d]
    <3>1. LastShows(messages, d)
      BY <1>1, <1>6, AtStartup
    <3>2. Configures(messages[1], d)
      BY <1>1
    <3> QED BY <1>1, <2>1, <3>1, <3>2, LastOfTail
  <2>3. EffectiveAt(state, now) = EffectiveAt(intent[d], now)
    BY <1>1, <1>2, <2>2, ReadingKeeps
  <2> QED BY <1>1, <1>5, <2>3 DEF Remembered, Effective
<1>10. LastShows(Unapplied, d)'
  <2>1. LastShows(messages, d)
    BY <1>1, <1>6, AtStartup
  <2>2. LastShows(Tail(messages), d)
    BY <1>1, <2>1, LastOfTail
  <2> QED BY <1>6, <2>2 DEF LastShows
<1> QED BY <1>1, <1>4, <1>7, <1>8, <1>9, <1>10, StartupSettles

LEMMA ApplySettles ==
    ASSUME Ready, NEW d \in Device, SettlesFor(d), RunHydration, UNCHANGED intent,
           HydrationApply
    PROVE  SettlesFor(d)'
<1> USE DEF Ready, Wished, TypeOK, ExternalTypeOK, HydrationTypeOK, Hydration
<1> DEFINE messages == hydration.messages
           msg == Head(messages)
           Skips == hydration' = [hydration EXCEPT !.messages = Tail(messages)]
<1>1. /\ hydration.pc = "apply" /\ messages # <<>> /\ messages \in Seq(PhoebusMsg)
      /\ msg \in PhoebusMsg
      /\ UNCHANGED <<metadata_cache, now>>
  BY DEF HydrationApply
<1>2. CASE Configures(msg, d)
  BY <1>2, ConfigSettles
<1>3. ASSUME ~Configures(msg, d), Skips,
             Effective(alarm_states[d])' = Effective(alarm_states[d]) \/ alarm_states[d] = None,
             IsKnown(d)' => IsKnown(d) \/ ReportsWell(msg, d)
      PROVE  SettlesFor(d)'
  <2>1. /\ hydration'.pc = "apply" /\ hydration'.messages = Tail(messages)
        /\ hydration'.todo = hydration.todo
    BY <1>1, <1>3
  <2>2. Unapplied' = Tail(messages) /\ ~Scopes(d)'
    BY <2>1 DEF Unapplied, Scopes
  <2> QED BY <1>3, <2>1, <2>2, PassOver
<1>4. UNCHANGED <<alarm_states[d]>> =>
          Effective(alarm_states[d])' = Effective(alarm_states[d]) /\ (IsKnown(d)' <=> IsKnown(d))
  BY <1>1, NextTelling DEF IsKnown
<1>5. CASE ~Configures(msg, d) /\ msg.op = "Config"
  <2>1. CASE Normalizable(msg.enabled)
    <3>1. /\ alarm_states' = [alarm_states EXCEPT ![msg.device] = as_cached_state(msg.enabled, now)]
          /\ hydration' = [hydration EXCEPT !.pc = "update"]
      BY <1>5, <2>1 DEF HydrationApply, record_alarm_state
    <3>2. msg.device # d
      BY <1>5, <2>1 DEF Configures
    <3>3. /\ hydration'.pc = "update" /\ hydration'.messages = messages
          /\ hydration'.todo = hydration.todo
      BY <3>1
    <3>4. Unapplied' = Tail(messages) /\ ~Scopes(d)'
      BY <3>2, <3>3 DEF Unapplied, Scopes
    <3>5. alarm_states'[d] = alarm_states[d]
      BY <3>1, <3>2 DEF CachesTypeOK
    <3> QED BY <1>4, <1>5, <3>3, <3>4, <3>5, PassOver
  <2>2. CASE ~Normalizable(msg.enabled)
    <3>1. Skips /\ UNCHANGED alarm_states
      BY <1>5, <2>2 DEF HydrationApply
    <3> QED BY <1>3, <1>4, <1>5, <3>1
  <2> QED BY <2>1, <2>2
<1>6. CASE msg.op \in {"Command", "BadKey"}
  <2>1. Skips /\ UNCHANGED alarm_states /\ ~Configures(msg, d)
    BY <1>6 DEF HydrationApply, Configures
  <2> QED BY <1>3, <1>4, <2>1
<1>7. CASE msg.op = "State"
  <2> DEFINE evidence == Plain(severity_to_state(msg.severity))
  <2>1. Skips /\ ~Configures(msg, d)
    BY <1>7 DEF HydrationApply, Configures
  <2>2. CASE UNCHANGED <<alarm_states[d]>>
    BY <1>3, <1>4, <2>1, <2>2
  <2>3. CASE ~(UNCHANGED <<alarm_states[d]>>)
    <3>1. /\ ~IsBypassed(alarm_states[msg.device])
          /\ alarm_states' = [alarm_states EXCEPT ![msg.device] = evidence]
      BY <1>7, <2>3 DEF HydrationApply, record_startup_state_evidence, record_alarm_state, IsBypassed
    <3>2. msg.device = d /\ alarm_states'[d] = evidence
      BY <2>3, <3>1 DEF CachesTypeOK
    <3>3. /\ evidence # None /\ evidence.state # "Bypassed"
          /\ IsEnablement(evidence.state) => msg.severity = "OK"
      <4>1. evidence \in CachedState
        BY SeverityType
      <4>2. evidence.state # "Bypassed" /\ (IsEnablement(evidence.state) => msg.severity = "OK")
        BY DEF severity_to_state, Plain, IsEnablement
      <4> QED BY <4>1, <4>2, NoneAssumption
    <3> HIDE DEF evidence
    <3>4. IsKnown(d)' => metadata_cache[d] # None \/ ReportsWell(msg, d)
      BY <1>1, <1>7, <3>2, <3>3 DEF IsKnown, ReportsWell
    <3>5. alarm_states[d] # None => Effective(alarm_states[d])' = Effective(alarm_states[d])
      BY <3>1, <3>2, <3>3 DEF IsBypassed, Effective, EffectiveAt
    <3> QED BY <1>3, <2>1, <3>4, <3>5 DEF IsKnown
  <2> QED BY <2>2, <2>3
<1>8. msg.op \in {"Config", "Command", "BadKey", "State"}
  BY <1>1 DEF PhoebusMsg, CommandMsg, ConfigMsg, StateMsg, BadKeyMsg
<1> QED BY <1>2, <1>5, <1>6, <1>7, <1>8

\* Without a fault, a snapshot is read and holds what it should.
LEMMA HydrationSettles ==
    ASSUME StatesAreConfigured, retained \in RetainedLogs,
           Ready, NEW d \in Device, SettlesFor(d), RunHydration, NoFault, UNCHANGED intent
    PROVE  SettlesFor(d)'
  BY SnapshotSettles, ApplySettles, ScopeSettles, NextTopicSettles, DoneSettles
     DEF RunHydration, HydrationStep

-----------------------------------------------------------------------------
(* The operators and the clock.                                            *)

\* Once every action has settled, a device in scope is, on all sides, as it was
\* asked for, and a device that Phoebus has configured is in scope.
LEMMA AtRest ==
    ASSUME NEW d \in Device, SettlesFor(d), Quiet
    PROVE  /\ IsKnown(d) => /\ Remembered(d) /\ ToldControls(d) /\ ToldPhoebus(d)
                            /\ metadata_cache[d] # None
           /\ phoebus_view[d] # None => metadata_cache[d] # None
<1>1. /\ ~StatusWaits(d) /\ ~ControlsHolds(d, {"lookup", "publish", "record"}) /\ ~RecordWaits(d)
      /\ ~MonitorHolds(d, {"policy", "rpc", "record"}) /\ ~MonitorHolds(d, {"update"})
      /\ ~MonitorHolds(d, {"policy", "rpc", "record", "update"})
      /\ ~Hydrates(d) /\ ~Scopes(d)
  BY ConfigsForDef DEF Quiet, StatusWaits, ControlsHolds, RecordWaits, MonitorHolds, Hydrates,
                       Unapplied, Scopes
<1>2. IsKnown(d) => Remembered(d) /\ metadata_cache[d] # None
  BY <1>1 DEF SettlesFor, KnownIsTold, KnownIsScoped, Underway
<1>3. IsKnown(d) => ToldControls(d) /\ ToldPhoebus(d)
  BY <1>2 DEF SettlesFor, KnownIsTold, Remembered, ToldControls, ToldPhoebus
<1>4. phoebus_view[d] # None => metadata_cache[d] # None
  BY <1>1 DEF SettlesFor, ConfiguredIsScoped, Quiet
<1> QED BY <1>2, <1>3, <1>4

\* What an operator asks for when all has settled is told to one system, and on its
\* way to the other.
LEMMA AskingSettles ==
    ASSUME Ready, NEW d \in Device, SettlesFor(d), Quiet,
           UNCHANGED <<caches, retained, now, tasks>>,
           \/ /\ UNCHANGED <<intent[d], controls_view[d], phoebus_view[d]>>
              /\ ~StatusWaits(d)' /\ ~RecordWaits(d)'
           \/ /\ controls_view'[d] = intent'[d] /\ UNCHANGED <<phoebus_view[d]>>
              /\ StatusWaits(d)' /\ ~RecordWaits(d)'
           \/ /\ phoebus_view'[d] = intent'[d] /\ UNCHANGED <<controls_view[d]>>
              /\ RecordWaits(d)' /\ ~StatusWaits(d)'
    PROVE  SettlesFor(d)'
<1> USE DEF Ready, Wished, TypeOK
<1>1. UNCHANGED <<alarm_states, metadata_cache, controls_task, monitors, hydration>>
  BY DEF caches, tasks
<1>2. /\ hydration.pc = "done" /\ controls_task.pc = "idle"
      /\ \A t \in MonitoredTopics : monitors[t].pc = "idle"
  BY DEF Quiet
<1>3. /\ \A stages \in SUBSET {"lookup", "publish", "record"} : ~ControlsHolds(d, stages)'
      /\ \A stages \in SUBSET {"policy", "rpc", "record", "update"} : ~MonitorHolds(d, stages)'
  BY <1>1, <1>2 DEF ControlsHolds, MonitorHolds
<1>4. StatusWaits(d)' => ToldControls(d)'
  BY DEF ToldControls
<1>5. RecordWaits(d)' => ToldPhoebus(d)'
  BY DEF ToldPhoebus
<1>6. SourcesTold(d)'
  BY <1>3, <1>4, <1>5 DEF SourcesTold
<1>7. ControlsMirrors(d)' /\ \A t \in MonitoredTopics : MonitorMirrors(monitors[t], d)'
  BY <1>1, <1>2 DEF ControlsMirrors, ControlsHolds, MonitorMirrors
<1>8. (IsKnown(d)' <=> IsKnown(d)) /\ (phoebus_view'[d] # None => phoebus_view[d] # None \/ RecordWaits(d)')
  BY <1>1 DEF IsKnown
<1>9. KnownIsTold(d)'
  <2> SUFFICES ASSUME IsKnown(d)
               PROVE  /\ (Effective(controls_view[d]) = Effective(alarm_states[d]))' \/ ToldControls(d)'
                      /\ (Effective(phoebus_view[d]) = Effective(alarm_states[d]))' \/ ToldPhoebus(d)'
                      /\ Remembered(d)' \/ Underway(d)'
    BY <1>8 DEF KnownIsTold
  <2>1. /\ Effective(alarm_states[d]) = Effective(intent[d])
        /\ Effective(controls_view[d]) = Effective(intent[d])
        /\ Effective(phoebus_view[d]) = Effective(intent[d])
    BY AtRest DEF Remembered, ToldControls, ToldPhoebus
  <2>2. UNCHANGED <<controls_view[d]>> =>
            (Effective(controls_view[d]) = Effective(alarm_states[d]))'
    BY <1>1, <2>1 DEF Effective
  <2>3. UNCHANGED <<phoebus_view[d]>> =>
            (Effective(phoebus_view[d]) = Effective(alarm_states[d]))'
    BY <1>1, <2>1 DEF Effective
  <2>4. UNCHANGED <<intent[d]>> => Remembered(d)'
    BY <1>1, <2>1 DEF Remembered, Effective
  <2> QED BY <1>4, <1>5, <2>2, <2>3, <2>4 DEF Underway
<1>10. KnownIsScoped(d)'
  BY <1>1, <1>8, AtRest DEF KnownIsScoped
<1>11. ConfiguredIsScoped(d)'
  BY <1>1, <1>8, AtRest DEF ConfiguredIsScoped
<1>12. LogsShowIntent(d)'
  BY <1>1, <1>2 DEF LogsShowIntent
<1> QED BY <1>6, <1>7, <1>9, <1>10, <1>11, <1>12 DEF SettlesFor

LEMMA OperatorSettles ==
    ASSUME Paced, Ready, NEW d \in Device, SettlesFor(d), OperatorAsks
    PROVE  SettlesFor(d)'
<1> USE DEF Ready, Wished, TypeOK, ExternalTypeOK
<1>0. Quiet /\ UNCHANGED <<caches, retained, now, tasks>>
  BY DEF OperatorAsks, OperatorTurn
<1>1. controls_topic = <<>> /\ \A t \in MonitoredTopics : phoebus_topics[t] = <<>>
  BY <1>0 DEF Quiet
<1>2. ASSUME NEW status \in ControlsInputs, AsksControls(status)
      PROVE  SettlesFor(d)'
  <2>1. status \in Status /\ status.device \in Device
    BY EnvironmentAssumption DEF Status
  <2>2. /\ controls_topic' = Append(<<>>, status) /\ UNCHANGED <<phoebus_topics, phoebus_view>>
        /\ IF IsEnablement(status.state)
           THEN /\ controls_view' = [controls_view EXCEPT ![status.device] = from_status(status)]
                /\ intent' = [intent EXCEPT ![status.device] = from_status(status)]
           ELSE UNCHANGED <<controls_view, intent>>
    BY <1>1, <1>2 DEF AsksControls, ControlsActs, PublishStatus, phoebus_side
  <2>3. StatusWaits(d)' <=> Enables(status, d)
    <3>1. <<>> \in Seq(Status) /\ ~Waits(<<>>, d)
      BY DEF Waits
    <3>2. StatusWaits(d)' <=> Waits(Append(<<>>, status), d)
      BY <2>2 DEF StatusWaits, Waits
    <3> QED BY <2>1, <3>1, <3>2, AppendEnables
  <2>4. ~RecordWaits(d)'
    BY <1>1, <2>2, ConfigsForDef DEF RecordWaits
  <2>5. CASE Enables(status, d)
    BY <1>0, <2>1, <2>2, <2>3, <2>4, <2>5, AskingSettles DEF Enables
  <2>6. CASE ~Enables(status, d)
    BY <1>0, <2>1, <2>2, <2>3, <2>4, <2>6, AskingSettles DEF Enables
  <2> QED BY <2>5, <2>6
<1>3. ASSUME NEW input \in PhoebusInputs, AsksPhoebus(input)
      PROVE  SettlesFor(d)'
  <2> DEFINE msg == input[2]
  <2>1. input[1] \in MonitoredTopics /\ msg \in PhoebusMsg
    BY EnvironmentAssumption
  <2>2. /\ phoebus_topics' = [phoebus_topics EXCEPT ![input[1]] = Append(@, msg)]
        /\ UNCHANGED <<controls_topic, controls_view>>
        /\ IF msg.op = "Config" /\ Normalizable(msg.enabled)
           THEN /\ phoebus_view' = [phoebus_view EXCEPT ![msg.device] = Shown(msg.enabled)]
                /\ intent' = [intent EXCEPT ![msg.device] = Shown(msg.enabled)]
           ELSE UNCHANGED <<phoebus_view, intent>>
    BY <1>3 DEF AsksPhoebus, PhoebusActs, PublishPhoebus, phoebus_side
  <2> HIDE DEF msg
  <2>3. RecordWaits(d)' <=> Configures(msg, d)
    <3>1. \A t \in MonitoredTopics :
              phoebus_topics'[t] = IF t = input[1] THEN Append(<<>>, msg) ELSE <<>>
      BY <1>1, <2>1, <2>2
    <3>2. ConfigsFor(<<>>, d) = {} /\ <<>> \in Seq(PhoebusMsg)
      BY ConfigsForDef
    <3>3. ConfigsFor(Append(<<>>, msg), d) # {} <=> Configures(msg, d)
      BY <2>1, <3>2, AppendConfigures
    <3> QED BY <2>1, <3>1, <3>2, <3>3 DEF RecordWaits
  <2>4. ~StatusWaits(d)'
    BY <1>1, <2>2 DEF StatusWaits
  <2>5. CASE Configures(msg, d)
    <3>1. phoebus_view'[d] = intent'[d]
      BY <2>2, <2>5 DEF Configures
    <3> QED BY <1>0, <2>2, <2>3, <2>4, <2>5, <3>1, AskingSettles
  <2>6. CASE ~Configures(msg, d)
    <3>1. phoebus_view'[d] = phoebus_view[d] /\ intent'[d] = intent[d]
      BY <2>2, <2>6 DEF Configures
    <3> QED BY <1>0, <2>2, <2>3, <2>4, <2>6, <3>1, AskingSettles
  <2> QED BY <2>5, <2>6
<1> QED BY <1>2, <1>3 DEF OperatorAsks

\* The clock leaves equal what amounts to the same.
LEMMA TickSettles ==
    ASSUME Ready, NEW d \in Device, SettlesFor(d), ClockTicks, UNCHANGED intent
    PROVE  SettlesFor(d)'
<1> USE DEF Ready, Wished, TypeOK, ExternalTypeOK, CachesTypeOK
<1>1. /\ now' = now + 1 /\ now \in Nat
      /\ UNCHANGED <<alarm_states, metadata_cache, retained, controls_topic, phoebus_topics,
                     controls_view, phoebus_view, controls_task, monitors, hydration>>
  BY DEF ClockTicks, Tick, caches, tasks, topics, views, phoebus_side
<1>2. ASSUME NEW v \in Observation, NEW w \in Observation,
             EffectiveAt(v, now) = EffectiveAt(w, now)
      PROVE  EffectiveAt(v, now') = EffectiveAt(w, now')
  BY <1>1, <1>2, TickKeeps
<1>3. /\ ToldControls(d) => ToldControls(d)'
      /\ ToldPhoebus(d) => ToldPhoebus(d)'
      /\ Remembered(d) => Remembered(d)'
      /\ Effective(controls_view[d]) = Effective(alarm_states[d])
             => (Effective(controls_view[d]) = Effective(alarm_states[d]))'
      /\ Effective(phoebus_view[d]) = Effective(alarm_states[d])
             => (Effective(phoebus_view[d]) = Effective(alarm_states[d]))'
  BY <1>1, <1>2 DEF ToldControls, ToldPhoebus, Remembered, Effective
<1>4. /\ StatusWaits(d)' <=> StatusWaits(d)
      /\ RecordWaits(d)' <=> RecordWaits(d)
      /\ Unapplied' = Unapplied
      /\ Hydrates(d)' <=> Hydrates(d)
      /\ Scopes(d)' <=> Scopes(d)
      /\ IsKnown(d)' <=> IsKnown(d)
      /\ \A stages : ControlsHolds(d, stages)' <=> ControlsHolds(d, stages)
      /\ \A stages : MonitorHolds(d, stages)' <=> MonitorHolds(d, stages)
  BY <1>1 DEF StatusWaits, RecordWaits, Unapplied, Hydrates, Scopes, IsKnown, ControlsHolds, MonitorHolds
<1>5. SourcesTold(d)'
  BY <1>3, <1>4 DEF SettlesFor, SourcesTold
<1>6. ControlsMirrors(d)'
  <2>1. ControlsHolds(d, {"record"}) =>
            (Effective(from_status(controls_task.alarm)) = Effective(intent[d]))'
    <3> SUFFICES ASSUME ControlsHolds(d, {"record"})
                 PROVE  EffectiveAt(from_status(controls_task.alarm), now') = EffectiveAt(intent[d], now')
      BY <1>1 DEF Effective
    <3>1. controls_task.alarm \in Status
      BY DEF ControlsHolds, ControlsTypeOK, ControlsTask, Mirrored
    <3>2. EffectiveAt(from_status(controls_task.alarm), now) = EffectiveAt(intent[d], now)
      BY DEF SettlesFor, ControlsMirrors, Effective
    <3>3. from_status(controls_task.alarm) \in Observation /\ intent[d] \in Observation
      BY <3>1, FromStatusType DEF Observation
    <3> QED BY <1>2, <3>2, <3>3
  <2>2. ControlsHolds(d, {"lookup"}) =>
            (controls_task.observed = alarm_states[d])' \/ Remembered(d)'
    BY <1>1, <1>3 DEF SettlesFor, ControlsMirrors
  <2>3. ControlsHolds(d, {"record"}) => ToldPhoebus(d)'
    BY <1>3 DEF SettlesFor, ControlsMirrors
  <2> QED BY <1>1, <1>4, <2>1, <2>2, <2>3 DEF SettlesFor, ControlsMirrors
<1>7. \A t \in MonitoredTopics : MonitorMirrors(monitors[t], d)'
  <2> SUFFICES ASSUME NEW t \in MonitoredTopics PROVE MonitorMirrors(monitors[t], d)'
    OBVIOUS
  <2>1. ASSUME monitors[t].pc = "record",
               EffectiveAt(monitors[t].updated, now) = EffectiveAt(intent[d], now)
        PROVE  EffectiveAt(monitors[t].updated, now') = EffectiveAt(intent[d], now')
    <3>1. monitors[t].updated \in Observation /\ intent[d] \in Observation
      BY <2>1, InHandType DEF InHand, MonitorsTypeOK, Observation
    <3> QED BY <1>2, <2>1, <3>1
  <2> QED BY <1>1, <1>3, <2>1 DEF SettlesFor, MonitorMirrors, Effective
<1>8. KnownIsTold(d)'
  BY <1>3, <1>4 DEF SettlesFor, KnownIsTold, Underway
<1>9. KnownIsScoped(d)'
  BY <1>1, <1>4 DEF SettlesFor, KnownIsScoped
<1>10. ConfiguredIsScoped(d)'
  BY <1>1, <1>4 DEF SettlesFor, ConfiguredIsScoped
<1>11. LogsShowIntent(d)'
  BY <1>1, <1>4 DEF SettlesFor, LogsShowIntent, LastShows
<1> QED BY <1>5, <1>6, <1>7, <1>8, <1>9, <1>10, <1>11 DEF SettlesFor

LEMMA StutterSettles ==
    ASSUME NEW d \in Device, SettlesFor(d), UNCHANGED <<vars, intent>>
    PROVE  SettlesFor(d)'
<1>1. UNCHANGED <<alarm_states, metadata_cache, retained, controls_topic, phoebus_topics,
                  controls_view, phoebus_view, controls_task, monitors, hydration, now>>
  BY DEF vars, caches, external, topics, views, phoebus_side
<1>2. /\ ToldControls(d)' <=> ToldControls(d)
      /\ ToldPhoebus(d)' <=> ToldPhoebus(d)
      /\ Remembered(d)' <=> Remembered(d)
      /\ (Effective(controls_view[d]) = Effective(alarm_states[d]))'
             <=> Effective(controls_view[d]) = Effective(alarm_states[d])
      /\ (Effective(phoebus_view[d]) = Effective(alarm_states[d]))'
             <=> Effective(phoebus_view[d]) = Effective(alarm_states[d])
  BY <1>1 DEF ToldControls, ToldPhoebus, Remembered, Effective
<1>3. /\ StatusWaits(d)' <=> StatusWaits(d)
      /\ RecordWaits(d)' <=> RecordWaits(d)
      /\ Unapplied' = Unapplied
      /\ Hydrates(d)' <=> Hydrates(d)
      /\ Scopes(d)' <=> Scopes(d)
      /\ IsKnown(d)' <=> IsKnown(d)
      /\ \A stages : ControlsHolds(d, stages)' <=> ControlsHolds(d, stages)
      /\ \A stages : MonitorHolds(d, stages)' <=> MonitorHolds(d, stages)
  BY <1>1 DEF StatusWaits, RecordWaits, Unapplied, Hydrates, Scopes, IsKnown, ControlsHolds, MonitorHolds
<1>4. SourcesTold(d)' /\ KnownIsTold(d)'
  BY <1>2, <1>3 DEF SettlesFor, SourcesTold, KnownIsTold, Underway
<1>5. ControlsMirrors(d)' /\ \A t \in MonitoredTopics : MonitorMirrors(monitors[t], d)'
  BY <1>1, <1>2, <1>3 DEF SettlesFor, ControlsMirrors, MonitorMirrors, Effective
<1>6. KnownIsScoped(d)' /\ ConfiguredIsScoped(d)'
  BY <1>1, <1>3 DEF SettlesFor, KnownIsScoped, ConfiguredIsScoped
<1>7. LogsShowIntent(d)'
  BY <1>1, <1>3 DEF SettlesFor, LogsShowIntent, LastShows
<1> QED BY <1>4, <1>5, <1>6, <1>7 DEF SettlesFor

-----------------------------------------------------------------------------
(* Statuses are heard, faults are counted, and the startup pass starts from *)
(* what both systems show.                                                  *)

LEMMA FaultsCounted ==
    ASSUME TypeOK, [Next]_vars
    PROVE  faults' = 0 => faults = 0 /\ NoFault
<1> USE DEF TypeOK, ExternalTypeOK
<1>1. NoFault \/ faults' = faults + 1
  <2>1. CASE RunControls
    BY <2>1 DEF RunControls, ControlsStep, ControlsSubscribe, ControlsStreamEnds, ControlsReceive,
                ControlsDecide, ControlsPublish, ControlsRecord, TakenFrom, ResumeAt, Fault, NoFault
  <2>2. CASE RunHydration
    BY <2>2 DEF RunHydration, HydrationStep, HydrationSnapshot, HydrationApply, HydrationUpdate,
                HydrationNextTopic, HydrationDone, Fault, NoFault
  <2>3. ASSUME NEW t \in MonitoredTopics, RunMonitor(t)
        PROVE  NoFault \/ faults' = faults + 1
    BY <2>3 DEF RunMonitor, MonitorStep, MonitorSubscribe, MonitorStreamEnds, MonitorReceive,
                MonitorDecide, MonitorRpc, MonitorRecord, MonitorUpdate, TakenFrom, ResumeAt,
                Fault, NoFault
  <2>4. CASE OperatorActs \/ ClockTicks \/ Await \/ UNCHANGED vars
    BY <2>4 DEF OperatorActs, OperatorTurn, ClockTicks, Tick, Await, vars, external, NoFault
  <2> QED BY <2>1, <2>2, <2>3, <2>4 DEF Next
<1> QED BY <1>1 DEF NoFault

Heard(status) == IsEnablement(status.state) => status.parses /\ status.source = "Epics"

LEMMA HeardKept ==
    ASSUME OperatorsAreHeard, TypeOK, HeardStatuses, [Next]_vars
    PROVE  HeardStatuses'
<1> USE DEF TypeOK, ExternalTypeOK
<1> DEFINE AllHeard(queue) == \A i \in DOMAIN queue : Heard(queue[i])
<1>0. (HeardStatuses <=> AllHeard(controls_topic)) /\ (HeardStatuses' <=> AllHeard(controls_topic'))
  BY DEF HeardStatuses, Heard
<1>1. ASSUME NEW status \in Status, Heard(status), controls_topic' = Append(controls_topic, status)
      PROVE  HeardStatuses'
  <2>1. AllHeard(Append(controls_topic, status))
    BY <1>0, <1>1, AppendHeld
  <2> QED BY <1>0, <1>1, <2>1
<1>2. CASE UNCHANGED controls_topic
  BY <1>2 DEF HeardStatuses
<1>3. CASE RunControls
  <2>1. CASE ControlsSubscribe
    BY <1>0, <2>1, FromHeld DEF ControlsSubscribe
  <2>2. CASE ControlsReceive
    <3>1. AllHeard(Tail(controls_topic))
      BY <1>0, <2>2, TailHeld DEF ControlsReceive
    <3> QED BY <1>0, <1>2, <2>2, <3>1 DEF ControlsReceive
  <2>3. CASE ControlsStreamEnds \/ ControlsDecide \/ ControlsPublish \/ ControlsRecord
    BY <1>2, <2>3 DEF ControlsStreamEnds, ControlsDecide, ControlsPublish, ControlsRecord, topics
  <2> QED BY <1>3, <2>1, <2>2, <2>3 DEF RunControls, ControlsStep
<1>4. ASSUME NEW t \in MonitoredTopics, RunMonitor(t)
      PROVE  HeardStatuses'
  <2>1. CASE MonitorRpc(t)
    <3>1. Heard(ServedStatus(monitors[t]))
      BY DEF Heard, ServedStatus
    <3> QED BY <1>1, <1>2, <2>1, <3>1, RpcEffect
  <2>2. CASE ~MonitorRpc(t)
    BY <1>2, <1>4, <2>2 DEF RunMonitor, MonitorStep, MonitorSubscribe, MonitorStreamEnds,
                            MonitorReceive, MonitorDecide, MonitorRecord, MonitorUpdate, topics
  <2> QED BY <2>1, <2>2
<1>5. CASE OperatorActs
  <2>1. ASSUME NEW status \in ControlsInputs, ControlsActs(status)
        PROVE  HeardStatuses'
    BY <1>1, <2>1, EnvironmentAssumption DEF ControlsActs, PublishStatus, OperatorsAreHeard, Heard
  <2>2. ASSUME NEW input \in PhoebusInputs, PhoebusActs(input)
        PROVE  HeardStatuses'
    BY <1>2, <2>2 DEF PhoebusActs
  <2> QED BY <1>5, <2>1, <2>2 DEF OperatorActs
<1>6. CASE RunHydration
  BY <1>2, <1>6, HydrationKeeps
<1>7. CASE ClockTicks \/ Await \/ UNCHANGED vars
  BY <1>2, <1>7 DEF ClockTicks, Tick, Await, vars, external, topics
<1> QED BY <1>3, <1>4, <1>5, <1>6, <1>7 DEF Next

LEMMA InitSettles ==
    ASSUME ConfiguredAlike, MirroringInit
    PROVE  HeardStatuses /\ \A d \in Device : SettlesFor(d)
<1> USE DEF MirroringInit, Init, CachesInit, ExternalInit, ControlsInit, ControlsAt, MonitorsInit,
            MonitorAt, HydrationInit
<1>1. HeardStatuses
  BY DEF HeardStatuses
<1> SUFFICES ASSUME NEW d \in Device PROVE SettlesFor(d)
  BY <1>1
<1>2. /\ ~IsKnown(d) /\ ~StatusWaits(d) /\ ~RecordWaits(d) /\ ~Scopes(d)
      /\ \A stages : "down" \notin stages => ~ControlsHolds(d, stages) /\ ~MonitorHolds(d, stages)
      /\ Unapplied = <<>>
  BY ConfigsForDef DEF IsKnown, StatusWaits, RecordWaits, Scopes, ControlsHolds, MonitorHolds, Unapplied
<1>3. SourcesTold(d)
  <2>1. /\ ~ControlsHolds(d, {"lookup", "publish", "record"})
        /\ ~MonitorHolds(d, {"policy", "rpc", "record", "update"})
    BY <1>2
  <2> QED BY <1>2, <2>1 DEF SourcesTold
<1>4. ControlsMirrors(d) /\ \A t \in MonitoredTopics : MonitorMirrors(monitors[t], d)
  BY DEF ControlsMirrors, ControlsHolds, MonitorMirrors
<1>5. KnownIsTold(d) /\ KnownIsScoped(d)
  BY <1>2 DEF KnownIsTold, KnownIsScoped
<1>6. ConfiguredIsScoped(d)
  <2> SUFFICES ASSUME phoebus_view[d] # None
               PROVE  \E i \in DOMAIN TopicSeq : ConfigsFor(retained[TopicSeq[i]], d) # {}
    BY DEF ConfiguredIsScoped
  <2>1. PICK t \in PhoebusTopics : ConfigsFor(retained[t], d) # {}
    BY DEF InitialView
  <2>2. PICK i \in DOMAIN TopicSeq : TopicSeq[i] = t
    BY DEF PhoebusTopics, Range
  <2> QED BY <2>1, <2>2
<1>7. \A t \in PhoebusTopics : LastShows(retained[t], d)
  <2> SUFFICES ASSUME NEW t \in PhoebusTopics, NEW i \in DOMAIN retained[t],
                      IsLastConfig(i, retained[t], d)
               PROVE  Shown(retained[t][i].enabled) = intent[d]
    BY DEF LastShows
  <2>1. ConfigsFor(retained[t], d) # {}
    BY DEF IsLastConfig
  <2>2. PICK u \in PhoebusTopics : \E j \in DOMAIN retained[u] :
            /\ IsLastConfig(j, retained[u], d)
            /\ phoebus_view[d] = Shown(retained[u][j].enabled)
    BY <2>1 DEF InitialView
  <2>3. retained \in RetainedLogs
    OBVIOUS
  <2> QED BY <2>2, <2>3 DEF ConfiguredAlike
<1>8. LogsShowIntent(d)
  <2>1. LastShows(Unapplied, d) /\ ~WellReported(Unapplied, d)
    BY <1>2 DEF LastShows, WellReported
  <2> QED BY <1>2, <1>7, <2>1 DEF LogsShowIntent, WellReported, ReportsWell
<1> QED BY <1>3, <1>4, <1>5, <1>6, <1>7, <1>8 DEF SettlesFor

-----------------------------------------------------------------------------
(* The correction stays under way, and once nothing is, all is as asked.   *)

LEMMA LogsStay == [Next]_vars => UNCHANGED retained
  BY DEF Next, RunControls, ControlsStep, ControlsSubscribe, ControlsStreamEnds, ControlsReceive,
         ControlsDecide, ControlsPublish, ControlsRecord, RunHydration, HydrationStep,
         HydrationSnapshot, HydrationApply, HydrationUpdate, HydrationNextTopic, HydrationDone,
         RunMonitor, MonitorStep, MonitorSubscribe, MonitorStreamEnds, MonitorReceive, MonitorDecide,
         MonitorRpc, MonitorRecord, MonitorUpdate, OperatorActs, OperatorTurn, ClockTicks, Tick,
         Await, vars, external

\* What the correction relies on beside itself.
Settled == /\ Wished /\ Agrees /\ TurnsAreTaken /\ ScopeInvariant /\ RoutableInvariant
           /\ retained \in RetainedLogs

LEMMA CorrectionInductive ==
    ASSUME Paced, StatesAreConfigured, OperatorsAreHeard, Settled, CorrectionUnderway,
           [MirroringNext]_mirror_vars
    PROVE  CorrectionUnderway'
<1> SUFFICES ASSUME faults' = 0
             PROVE  HeardStatuses' /\ \A d \in Device : SettlesFor(d)'
  BY DEF CorrectionUnderway
<1> USE DEF Settled
<1>1. [Next]_vars /\ TypeOK
  BY StepsOfSynchronizer DEF Wished
<1>2. NoFault /\ HeardStatuses /\ \A d \in Device : SettlesFor(d)
  BY <1>1, FaultsCounted DEF CorrectionUnderway
<1>3. Ready
  BY <1>2 DEF Ready
<1>4. HeardStatuses'
  BY <1>1, <1>2, HeardKept
<1> SUFFICES ASSUME NEW d \in Device PROVE SettlesFor(d)'
  BY <1>4
<1>5. CASE OperatorAsks
  BY <1>2, <1>3, <1>5, OperatorSettles
<1>6. CASE RunControls /\ UNCHANGED intent
  BY <1>2, <1>3, <1>6, ControlsSettles
<1>7. CASE RunHydration /\ UNCHANGED intent
  BY <1>2, <1>3, <1>7, HydrationSettles
<1>8. ASSUME NEW t \in MonitoredTopics, RunMonitor(t), UNCHANGED intent
      PROVE  SettlesFor(d)'
  BY <1>2, <1>3, <1>8, MonitorSettles
<1>9. CASE ClockTicks /\ UNCHANGED intent
  BY <1>2, <1>3, <1>9, TickSettles
<1>10. CASE UNCHANGED <<vars, intent>>
  BY <1>2, <1>10, StutterSettles
<1>11. CASE Await /\ UNCHANGED intent
  BY <1>10, <1>11 DEF Await
<1> QED BY <1>5, <1>6, <1>7, <1>8, <1>9, <1>10, <1>11 DEF MirroringNext, ProgramRuns, mirror_vars

LEMMA AlwaysSettled ==
    ASSUME Paced, WellNamedTopics
    PROVE  MirroringSpec => []Settled
<1>1. MirroringSpec => Spec
  <2>1. MirroringInit => Init
    BY DEF MirroringInit
  <2> QED BY <2>1, StepsOfSynchronizer, PTL DEF MirroringSpec, Spec
<1>2. Spec => [](retained \in RetainedLogs)
  <2>1. Init => retained \in RetainedLogs
    BY DEF Init, ExternalInit
  <2>2. retained \in RetainedLogs /\ [Next]_vars => (retained \in RetainedLogs)'
    BY LogsStay
  <2> QED BY <2>1, <2>2, PTL DEF Spec
<1>3. Wished /\ Agrees /\ TurnsAreTaken /\ ScopeInvariant /\ RoutableInvariant
          /\ retained \in RetainedLogs => Settled
  BY DEF Settled
<1> QED BY <1>1, <1>2, <1>3, AlwaysAgrees, TurnsTaken, ScopeKept, RoutableKept, PTL

\* While operators act one at a time and until something fails, what a system or the
\* program knows of a device other than was asked for is being corrected: the update
\* is in a topic not yet read or in the hands of a task that will not drop it.
THEOREM CorrectionIsUnderway ==
    ASSUME Paced, WellNamedTopics, ConfiguredAlike, StatesAreConfigured, OperatorsAreHeard
    PROVE  MirroringSpec => []CorrectionUnderway
<1>1. MirroringInit => CorrectionUnderway
  BY InitSettles DEF CorrectionUnderway
<1>2. Settled /\ CorrectionUnderway /\ [MirroringNext]_mirror_vars => CorrectionUnderway'
  BY CorrectionInductive
<1> QED BY <1>1, <1>2, AlwaysSettled, PTL DEF MirroringSpec

\* Once all has settled and until something fails, both systems agree on every device
\* in scope.
THEOREM SystemsAgree ==
    ASSUME Paced, WellNamedTopics, ConfiguredAlike, StatesAreConfigured, OperatorsAreHeard
    PROVE  MirroringSpec => [](faults = 0 => Agreement)
<1>1. CorrectionUnderway => (faults = 0 => Agreement)
  BY AtRest DEF CorrectionUnderway, Agreement, IsKnown, ToldControls, ToldPhoebus
<1> QED BY <1>1, CorrectionIsUnderway, PTL

\* And what the program remembers of such a device is what both were told.
THEOREM CacheIsCurrent ==
    ASSUME Paced, WellNamedTopics, ConfiguredAlike, StatesAreConfigured, OperatorsAreHeard
    PROVE  MirroringSpec => [](faults = 0 => CacheCurrent)
<1>1. CorrectionUnderway => (faults = 0 => CacheCurrent)
  BY AtRest DEF CorrectionUnderway, CacheCurrent, IsKnown, ToldPhoebus, Remembered
<1> QED BY <1>1, CorrectionIsUnderway, PTL

\* And every device that Phoebus has configured, at startup or later, is in scope.
THEOREM ScopeIsComplete ==
    ASSUME Paced, WellNamedTopics, ConfiguredAlike, StatesAreConfigured, OperatorsAreHeard
    PROVE  MirroringSpec => [](faults = 0 => ScopeComplete)
<1>1. CorrectionUnderway => (faults = 0 => ScopeComplete)
  BY AtRest DEF CorrectionUnderway, ScopeComplete
<1> QED BY <1>1, CorrectionIsUnderway, PTL

=============================================================================
