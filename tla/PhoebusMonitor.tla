--------------------------- MODULE PhoebusMonitor ----------------------------
(***************************************************************************)
(* The Phoebus-to-Controls monitors, one task per configured topic and one *)
(* per command topic.  A command goes through                              *)
(*                                                                         *)
(*    idle -> rpc -> record -> idle                                        *)
(*                                                                         *)
(* and a config through                                                    *)
(*                                                                         *)
(*    idle -> policy -> rpc -> record -> update -> idle                    *)
(*                                                                         *)
(* with the shortcuts policy -> update (no enablement change) and          *)
(* policy -> idle (duplicate).  Each arrow is one await.                   *)
(***************************************************************************)
EXTENDS Environment

VARIABLE monitors

\* Every topic of the list is given a monitor, and its command topic another one.  A list
\* that leads to one topic twice would start two monitors of it: left out.
ASSUME OneMonitorAssumption ==
    \A i, j \in DOMAIN TopicSeq :
        /\ i # j => TopicSeq[i] # TopicSeq[j]
        /\ TopicSeq[i] # get_command_topic(TopicSeq[j])

\* What a monitor holds at each stage; a command goes through rpc and record
\* without metadata.
MonitorTask ==
    [pc : {"down", "idle"}, msg : {None}, metadata : {None}, updated : {None}, attempt : {1}]
        \cup [pc : {"policy", "update"}, msg : ConfigMsg, metadata : PvMetadata,
              updated : {None}, attempt : {1}]
        \cup [pc : {"rpc", "record"}, msg : ConfigMsg, metadata : PvMetadata,
              updated : CachedState, attempt : {1, 2}]
        \cup [pc : {"rpc", "record"}, msg : CommandMsg, metadata : {None},
              updated : CachedState, attempt : {1, 2}]

MonitorAt(pc) ==
    [pc |-> pc, msg |-> None, metadata |-> None, updated |-> None, attempt |-> 1]

MonitorsTypeOK == monitors \in [MonitoredTopics -> MonitorTask]

MonitorsInit == monitors = [t \in MonitoredTopics |-> MonitorAt("down")]

Becomes(t, task) == monitors' = [monitors EXCEPT ![t] = task]

-----------------------------------------------------------------------------
\* Mutant: a monitor reads only what arrives after it has subscribed.
SubscribeAtEnd(t) ==
    /\ monitors[t].pc = "down"
    /\ Becomes(t, MonitorAt("idle"))
    /\ phoebus_topics' = [phoebus_topics EXCEPT ![t] = <<>>]
    /\ NoFault
    /\ UNCHANGED <<caches, retained, controls_topic, views, now, actions>>

\* start: connect, and connect again a second after the stream ended.
MonitorSubscribe(t) ==
    /\ monitors[t].pc = "down"
    /\ Becomes(t, MonitorAt("idle"))
    /\ \E n \in 1 .. Len(phoebus_topics[t]) + 1 :
          /\ phoebus_topics' = [phoebus_topics EXCEPT ![t] = From(@, n)]
          /\ ResumeAt(n)
    /\ UNCHANGED <<caches, retained, controls_topic, views, now, actions>>

\* watch_stream: the stream yields None.
MonitorStreamEnds(t) ==
    /\ monitors[t].pc = "idle"
    /\ Becomes(t, MonitorAt("down"))
    /\ Fault
    /\ UNCHANGED <<caches, retained, topics, views, now, actions>>

\* decide_phoebus_command, on the state observed in the same step.
Acknowledges(msg) ==
    /\ msg.command = "acknowledge"
    /\ ~suppresses_incoming(alarm_states[msg.device], Plain("Acknowledged"))

\* Mutant: the metadata of a device in scope are not looked up.
FetchUnmapped(config, t) == from_unmapped(config, t)

\* get_pv_metadata: a device seen for the first time gets empty metadata.
get_pv_metadata(config, t) ==
    IF metadata_cache[config.device] # None THEN metadata_cache[config.device]
    ELSE from_unmapped(config, t)

\* The first step with a record: a command is decided at once, a config first
\* fetches its metadata; state records, bad keys, values that do not parse and
\* commands that ask for nothing new are dropped.
MonitorReceives(t, msg) ==
    \/ /\ msg.op = "Command"
       /\ IF Acknowledges(msg)
          THEN Becomes(t, [pc |-> "rpc", msg |-> msg, metadata |-> None,
                           updated |-> Plain("Acknowledged"), attempt |-> 1])
          ELSE UNCHANGED monitors
    \/ /\ msg.op = "Config"
       /\ IF msg.enabled.kind # "NotJson"
          THEN Becomes(t, [pc |-> "policy", msg |-> msg, metadata |-> get_pv_metadata(msg, t),
                           updated |-> None, attempt |-> 1])
          ELSE UNCHANGED monitors
    \/ /\ msg.op \in {"State", "BadKey"}
       /\ UNCHANGED monitors

\* Mutant: a record is delivered again and again.
ReceiveAgain(t) ==
    /\ monitors[t].pc = "idle"
    /\ phoebus_topics[t] # <<>>
    /\ MonitorReceives(t, Head(phoebus_topics[t]))
    /\ NoFault
    /\ UNCHANGED <<caches, retained, topics, views, now, actions>>

MonitorReceive(t) ==
    /\ monitors[t].pc = "idle"
    /\ phoebus_topics[t] # <<>>
    /\ \E rest \in {Tail(phoebus_topics[t]), phoebus_topics[t]} :
          /\ TakenFrom(phoebus_topics[t], rest)
          /\ phoebus_topics' = [phoebus_topics EXCEPT ![t] = rest]
    /\ MonitorReceives(t, Head(phoebus_topics[t]))
    /\ UNCHANGED <<caches, retained, controls_topic, views, now, actions>>

\* process_config: read the observed state and decide (decide_phoebus_config).
\* A suppressed config is a duplicate, or changes the metadata only.
MonitorDecide(t) ==
    LET task == monitors[t]
        config == task.msg
        updated == as_cached_state(config.enabled, now)
        suppressed == suppresses_incoming(alarm_states[config.device], updated)
    IN
    /\ task.pc = "policy"
    /\ \/ /\ ~Normalizable(config.enabled)
          /\ Becomes(t, MonitorAt("idle"))
       \/ /\ Normalizable(config.enabled)
          /\ suppressed
          /\ config.specific = task.metadata.specific
          /\ Becomes(t, MonitorAt("idle"))
       \/ /\ Normalizable(config.enabled)
          /\ suppressed
          /\ config.specific # task.metadata.specific
          /\ Becomes(t, [task EXCEPT !.pc = "update"])
       \/ /\ Normalizable(config.enabled)
          /\ ~suppressed
          /\ Becomes(t, [task EXCEPT !.pc = "rpc", !.updated = updated])
    /\ NoFault
    /\ UNCHANGED <<caches, retained, topics, views, now, actions>>

\* execute_command: the call succeeds; or an attempt fails, having reached the
\* service or not, and is made once more; or there is no connection at all, and
\* no second attempt.  Succeeded or failed, the task goes on to record.
MonitorRpc(t) ==
    LET task == monitors[t]
        failed == IF task.attempt = 1 THEN [task EXCEPT !.attempt = 2]
                                      ELSE [task EXCEPT !.pc = "record"]
    IN
    /\ task.pc = "rpc"
    /\ \/ /\ ServeCommand(task.msg.device, task.updated, task.msg.hops)
          /\ \/ /\ Becomes(t, [task EXCEPT !.pc = "record"])
                /\ NoFault
             \/ /\ Becomes(t, failed)
                /\ Fault
       \/ /\ UNCHANGED <<controls_topic, controls_view>>
          /\ \/ Becomes(t, failed)
             \/ /\ task.attempt = 1
                /\ Becomes(t, [task EXCEPT !.pc = "record"])
          /\ Fault
    /\ UNCHANGED <<caches, retained, phoebus_topics, phoebus_side, now, actions>>

\* Mutant: a config whose state was forwarded leaves the metadata alone.
RecordIsLast(t) ==
    /\ monitors[t].pc = "record"
    /\ record_alarm_state(monitors[t].msg.device, monitors[t].updated)
    /\ Becomes(t, MonitorAt("idle"))
    /\ NoFault
    /\ UNCHANGED <<metadata_cache, retained, topics, views, now, actions>>

MonitorRecord(t) ==
    LET task == monitors[t] IN
    /\ task.pc = "record"
    /\ record_alarm_state(task.msg.device, task.updated)
    /\ IF task.msg.op = "Config"
       THEN Becomes(t, [task EXCEPT !.pc = "update", !.updated = None, !.attempt = 1])
       ELSE Becomes(t, MonitorAt("idle"))
    /\ NoFault
    /\ UNCHANGED <<metadata_cache, retained, topics, views, now, actions>>

\* Mutant: the metadata are written back as they were.
UpdateNothing(t) ==
    /\ monitors[t].pc = "update"
    /\ update_cached_metadata(monitors[t].msg.device, monitors[t].metadata)
    /\ Becomes(t, MonitorAt("idle"))
    /\ NoFault
    /\ UNCHANGED <<alarm_states, retained, topics, views, now, actions>>

\* The end of process_config: path and topic are those read before the decision.
MonitorUpdate(t) ==
    LET task == monitors[t] IN
    /\ task.pc = "update"
    /\ update_cached_metadata(task.msg.device,
                              [task.metadata EXCEPT !.specific = task.msg.specific])
    /\ Becomes(t, MonitorAt("idle"))
    /\ NoFault
    /\ UNCHANGED <<alarm_states, retained, topics, views, now, actions>>

MonitorStep(t) ==
    \/ MonitorSubscribe(t)
    \/ MonitorStreamEnds(t)
    \/ MonitorReceive(t)
    \/ MonitorDecide(t)
    \/ MonitorRpc(t)
    \/ MonitorRecord(t)
    \/ MonitorUpdate(t)

=============================================================================
