---------------------------- MODULE ControlsSync -----------------------------
(***************************************************************************)
(* The Controls-to-Phoebus task.  It takes one Status at a time through    *)
(*                                                                         *)
(*    idle -> lookup -> publish -> record -> idle                          *)
(*                                                                         *)
(* where each arrow is one await of process_controls_message: reading the  *)
(* observed state, reading the metadata and deciding, publishing, and      *)
(* recording what was observed.                                            *)
(***************************************************************************)
EXTENDS Environment

VARIABLE controls_task

Mirrored == {status \in Status : state_to_operation(status.state) \in {"Command", "Config"}}

\* What the task holds at each stage.
ControlsTask ==
    [pc : {"down", "idle"}, alarm : {None}, observed : {None}, metadata : {None}]
        \cup [pc : {"lookup"}, alarm : Status, observed : Observation, metadata : {None}]
        \cup [pc : {"publish", "record"}, alarm : Mirrored, observed : {None},
              metadata : PvMetadata]

ControlsAt(pc) == [pc |-> pc, alarm |-> None, observed |-> None, metadata |-> None]

ControlsTypeOK == controls_task \in ControlsTask

ControlsInit == controls_task = ControlsAt("down")

-----------------------------------------------------------------------------
\* synchronize: connect, and connect again a second after the stream ended.
ControlsSubscribe ==
    /\ controls_task.pc = "down"
    /\ controls_task' = ControlsAt("idle")
    /\ \E n \in 1 .. Len(controls_topic) + 1 :
          /\ controls_topic' = From(controls_topic, n)
          /\ ResumeAt(n)
    /\ UNCHANGED <<caches, retained, phoebus_topics, views, now, actions>>

\* monitor: the stream yields None.
ControlsStreamEnds ==
    /\ controls_task.pc = "idle"
    /\ controls_task' = ControlsAt("down")
    /\ Fault
    /\ UNCHANGED <<caches, retained, topics, views, now, actions>>

\* process_runtime_message: what does not parse or is not from EPICS is
\* dropped; otherwise the observed state is read.
ControlsReceive ==
    /\ controls_task.pc = "idle"
    /\ controls_topic # <<>>
    /\ \E rest \in {Tail(controls_topic), controls_topic} :
          TakenFrom(controls_topic, rest) /\ controls_topic' = rest
    /\ LET alarm == Head(controls_topic) IN
       IF alarm.parses /\ alarm.source = "Epics"
       THEN controls_task' = [pc |-> "lookup", alarm |-> alarm,
                              observed |-> alarm_states[alarm.device], metadata |-> None]
       ELSE UNCHANGED controls_task
    /\ UNCHANGED <<caches, retained, phoebus_topics, views, now, actions>>

\* Mutant: devices that are out of scope are mirrored too.
SyncsOutOfScope(alarm, observed, metadata) ==
    /\ state_to_operation(alarm.state) # None
    /\ ~suppresses_incoming(observed, from_status(alarm))

SyncsToPhoebus(alarm, observed, metadata) ==
    /\ metadata # None
    /\ state_to_operation(alarm.state) # None
    /\ ~suppresses_incoming(observed, from_status(alarm))

\* process_controls_message up to the decision.
ControlsDecide ==
    /\ controls_task.pc = "lookup"
    /\ LET metadata == metadata_cache[controls_task.alarm.device] IN
       IF SyncsToPhoebus(controls_task.alarm, controls_task.observed, metadata)
       THEN controls_task' = [pc |-> "publish", alarm |-> controls_task.alarm,
                              observed |-> None, metadata |-> metadata]
       ELSE controls_task' = ControlsAt("idle")
    /\ NoFault
    /\ UNCHANGED <<caches, retained, topics, views, now, actions>>

OutboundTopic ==
    get_topic_for_operation(state_to_operation(controls_task.alarm.state),
                            controls_task.metadata)

\* Mutant: a failed publish ends the work on the status.
PublishOrDrop ==
    /\ controls_task.pc = "publish"
    /\ \/ /\ OutboundTopic \in MonitoredTopics
          /\ PublishPhoebus(OutboundTopic,
                 controls_to_phoebus(controls_task.alarm,
                                     state_to_operation(controls_task.alarm.state),
                                     controls_task.metadata))
          /\ controls_task' = [controls_task EXCEPT !.pc = "record"]
          /\ NoFault
       \/ /\ UNCHANGED <<phoebus_topics, phoebus_side>>
          /\ controls_task' = ControlsAt("idle")
          /\ IF OutboundTopic \in MonitoredTopics THEN Fault ELSE NoFault
    /\ UNCHANGED <<caches, retained, controls_topic, controls_view, now, actions>>

\* sync_epics_message_to_phoebus: the record is published, or the publish
\* fails, or no publisher fits and nothing is sent.  All paths go on to record
\* (so a failed publish that reached the topic all the same is the first case).
ControlsPublish ==
    /\ controls_task.pc = "publish"
    /\ controls_task' = [controls_task EXCEPT !.pc = "record"]
    /\ \/ /\ OutboundTopic \in MonitoredTopics
          /\ PublishPhoebus(OutboundTopic,
                 controls_to_phoebus(controls_task.alarm,
                                     state_to_operation(controls_task.alarm.state),
                                     controls_task.metadata))
          /\ NoFault
       \/ /\ OutboundTopic \in MonitoredTopics
          /\ UNCHANGED <<phoebus_topics, phoebus_side>>
          /\ Fault
       \/ /\ OutboundTopic \notin MonitoredTopics
          /\ UNCHANGED <<phoebus_topics, phoebus_side>>
          /\ NoFault
    /\ UNCHANGED <<caches, retained, controls_topic, controls_view, now, actions>>

\* Mutant: what was published is not recorded.
ForgetToRecord ==
    /\ controls_task.pc = "record"
    /\ controls_task' = ControlsAt("idle")
    /\ NoFault
    /\ UNCHANGED <<caches, retained, topics, views, now, actions>>

ControlsRecord ==
    /\ controls_task.pc = "record"
    /\ record_alarm_state(controls_task.alarm.device, from_status(controls_task.alarm))
    /\ controls_task' = ControlsAt("idle")
    /\ NoFault
    /\ UNCHANGED <<metadata_cache, retained, topics, views, now, actions>>

ControlsStep ==
    \/ ControlsSubscribe
    \/ ControlsStreamEnds
    \/ ControlsReceive
    \/ ControlsDecide
    \/ ControlsPublish
    \/ ControlsRecord

=============================================================================
