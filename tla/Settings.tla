------------------------------ MODULE Settings -------------------------------
(***************************************************************************)
(* Why the cached settings of a device are those of its last config once   *)
(* everything has settled, however the operators act: until then the       *)
(* record that carries them is unread or in the hands of a monitor. And    *)
(* why a device stays mirrored to the same topic and path while they act   *)
(* one at a time.                                                          *)
(***************************************************************************)
EXTENDS Synchronizer

Configures(msg, d) == msg.op = "Config" /\ msg.device = d /\ Normalizable(msg.enabled)

\* The topic may hold a config of the device: from before the start, or because
\* somebody publishes one.
ConfiguredIn(t, d) ==
    \/ t \in PhoebusTopics /\ \E log \in RetainedLogs : ConfigsFor(log[t], d) # {}
    \/ \E input \in PhoebusInputs : input[1] = t /\ Configures(input[2], d)

\* What the surroundings are relied on for: a device is configured in one topic,
\* which is not named like a command topic.
OneTopicEach ==
    \A d \in Device, t \in MonitoredTopics : ConfiguredIn(t, d) =>
        /\ normalize_topic(t) = t
        /\ \A u \in MonitoredTopics : ConfiguredIn(u, d) => u = t

-----------------------------------------------------------------------------
HasInHand(t, d) ==
    monitors[t].pc \in {"policy", "rpc", "record", "update"} /\ Configures(monitors[t].msg, d)

\* The records of a snapshot that are still to be applied.
Unscoped == IF hydration.pc \in {"apply", "update"} THEN hydration.messages ELSE <<>>

\* Whatever may become the metadata of a device, or is read from them to publish,
\* belongs to the topic that configures it; the monitor of that topic is the only
\* one to write them, so that they are still what it has read.
StaysAtHome(d) ==
    /\ metadata_cache[d] # None => ConfiguredIn(metadata_cache[d].topic, d)
    /\ controls_task.pc = "publish" /\ controls_task.alarm.device = d
          => ConfiguredIn(controls_task.metadata.topic, d)
    /\ ConfigsFor(Unscoped, d) # {} => ConfiguredIn(Head(hydration.todo), d)
    /\ \A t \in MonitoredTopics :
          /\ ConfigsFor(phoebus_topics[t], d) # {} => ConfiguredIn(t, d)
          /\ HasInHand(t, d) =>
                /\ ConfiguredIn(t, d)
                /\ monitors[t].metadata.topic = t
                /\ metadata_cache[d] \in {None, monitors[t].metadata}

LastSets(records, d, specific) ==
    \A i \in DOMAIN records : IsLastConfig(i, records, d) => records[i].specific = specific

CachedAre(d, specific) == metadata_cache[d] # None => metadata_cache[d].specific = specific

\* The settings of the last config of a device in a topic are in the last record of
\* its queue; if there is none, in the record the monitor holds; else, during the
\* startup pass, in the last one of the snapshot; and otherwise in the cache.
SettingsFor(t, d) ==
    LET specific == phoebus_specific[t][d] IN
    /\ LastSets(phoebus_topics[t], d, specific)
    /\ ConfigsFor(phoebus_topics[t], d) = {} =>
          /\ hydration.pc # "done" /\ t \in PhoebusTopics => LastSets(retained[t], d, specific)
          /\ LastSets(Unscoped, d, specific)
          /\ HasInHand(t, d) => monitors[t].msg.specific = specific
          /\ ~HasInHand(t, d) /\ ConfigsFor(Unscoped, d) = {} => CachedAre(d, specific)

\* Monitors start when the startup pass is done; both bring a device into scope by a
\* config that has a meaning.
Orderly ==
    /\ hydration.pc # "done" => \A t \in MonitoredTopics : monitors[t].pc = "down"
    /\ hydration.pc = "update" => Normalizable(Head(hydration.messages).enabled)
    /\ \A t \in MonitoredTopics :
          monitors[t].pc \in {"rpc", "record", "update"} /\ monitors[t].msg.op = "Config"
              => Normalizable(monitors[t].msg.enabled)

\* As long as nothing is lost, settings that the program remembers wrongly are
\* about to be read or written, in whatever order operators and tasks act.
SettingsUnderway ==
    /\ Orderly
    /\ faults = 0 => \A d \in Device :
          /\ StaysAtHome(d)
          /\ \A t \in MonitoredTopics : ConfiguredIn(t, d) => SettingsFor(t, d)

-----------------------------------------------------------------------------
(* Where a device is mirrored to, as far as the metadata in the cache, the *)
(* ones a monitor holds, and the configs that would bring it into scope    *)
(* decide that.                                                            *)

HoldsConfig(t, d) ==
    /\ monitors[t].pc \in {"policy", "rpc", "record", "update"}
    /\ monitors[t].msg.op = "Config" /\ monitors[t].msg.device = d

\* The routes a device may get from its unread configs, and from all that is there.
UnreadRoutes(d) ==
    UNION {{Route(from_unmapped(phoebus_topics[t][i], t)) :
              i \in {j \in DOMAIN phoebus_topics[t] :
                        phoebus_topics[t][j].op = "Config" /\ phoebus_topics[t][j].device = d}} :
           t \in MonitoredTopics}

RoutesFor(d) ==
    (IF metadata_cache[d] # None THEN {Route(metadata_cache[d])} ELSE UnreadRoutes(d))
        \cup {Route(monitors[t].metadata) : t \in {u \in MonitoredTopics : HoldsConfig(u, d)}}

\* What the Controls task publishes is for a device it found in scope.
PublishesInScope ==
    controls_task.pc = "publish" => metadata_cache[controls_task.alarm.device] # None

\* While operators act one at a time there is one route for each device.
RoutesAgree ==
    /\ PublishesInScope
    /\ Paced /\ hydration.pc = "done" =>
          \A d \in Device : \A r, s \in RoutesFor(d) : r = s

=============================================================================
