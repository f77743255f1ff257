--------------------------- MODULE MirroringProofs ---------------------------
(***************************************************************************)
(* While operators act one at a time, the program implements AlarmMirror:  *)
(* for every set of devices and topics and every bound, whatever fails and *)
(* whatever is lost or delivered twice.                                    *)
(***************************************************************************)
EXTENDS Mirroring, SynchronizerProofs

\* Amounts at a given instant.
AmountsAt(views_, n) == [d \in Device |-> EffectiveAt(views_[d], n)]

\* The parts of InFlightIntended at a given instant and for given wishes.
StatusAgrees(status, wanted, n) ==
    IsEnablement(status.state)
        => EffectiveAt(from_status(status), n) = EffectiveAt(wanted[status.device], n)

RecordAgrees(msg, wanted, n) ==
    msg.op = "Config" /\ Normalizable(msg.enabled)
        => EffectiveAt(Shown(msg.enabled), n) = EffectiveAt(wanted[msg.device], n)

UpdateAgrees(task, wanted, n) ==
    IsEnablement(task.updated.state)
        => EffectiveAt(task.updated, n) = EffectiveAt(wanted[task.msg.device], n)

TopicAgrees(queue, wanted, n) ==
    \A i \in DOMAIN queue : StatusAgrees(queue[i], wanted, n)

RecordsAgree(queue, wanted, n) ==
    \A i \in DOMAIN queue : RecordAgrees(queue[i], wanted, n)

ControlsTaskAgrees(task, wanted, n) ==
    task.pc \in {"lookup", "publish"} => StatusAgrees(task.alarm, wanted, n)

MonitorAgrees(task, wanted, n) ==
    /\ task.pc = "policy" => RecordAgrees(task.msg, wanted, n)
    /\ task.pc = "rpc" => UpdateAgrees(task, wanted, n)

Agrees == 
    /\ TopicAgrees(controls_topic, intent, now)
    /\ \A t \in MonitoredTopics : RecordsAgree(phoebus_topics[t], intent, now)
    /\ ControlsTaskAgrees(controls_task, intent, now)
    /\ \A t \in MonitoredTopics : MonitorAgrees(monitors[t], intent, now)

\* Agrees is InFlightIntended with its instant and wishes spelt out.
LEMMA AgreesDef == InFlightIntended <=> Agrees
  BY DEF InFlightIntended, Agrees, IntendedStatus, IntendedRecord, IntendedUpdate,
         TopicAgrees, RecordsAgree, ControlsTaskAgrees, MonitorAgrees, StatusAgrees,
         RecordAgrees, UpdateAgrees, Effective, EffectiveAt

-----------------------------------------------------------------------------
(* What an enablement amounts to survives every conversion, and time.      *)

LEMMA EffectiveAtType ==
    ASSUME NEW view \in Observation, NEW n \in Nat
    PROVE  EffectiveAt(view, n) \in Observation
  BY DEF EffectiveAt, Observation, CachedState, State, Wake, Plain

\* It is none of the snoozes that are over.
LEMMA EffectiveAtCurrent ==
    ASSUME NEW view \in Observation, now \in Nat
    PROVE  EffectiveAt(view, now) \in Mirror!Current
<1>1. EffectiveAt(view, now) \in Observation
  BY EffectiveAtType
<1> SUFFICES ASSUME NEW n \in Time, n <= now, EffectiveAt(view, now) = [state |-> "Bypassed", wake |-> n]
             PROVE  FALSE
  BY <1>1 DEF Mirror!Current
<1>2. view # None
  <2>1. [state |-> "Bypassed", wake |-> n] \in CachedState
    BY DEF CachedState, State, Wake
  <2> QED BY <2>1, NoneAssumption DEF EffectiveAt
<1>3. view = [state |-> "Bypassed", wake |-> n] /\ view.wake > now
  BY <1>2, WakeAssumption DEF EffectiveAt, Plain, Observation
<1> QED BY <1>3, TimeAssumption

\* Reading the enabled field of a config: a snooze that is over by now is read as
\* an active alarm, which is what Phoebus then shows.
LEMMA ReadingKeeps ==
    ASSUME NEW enabled \in Enablement, Normalizable(enabled), NEW n \in Nat
    PROVE  EffectiveAt(as_cached_state(enabled, n), n) = EffectiveAt(Shown(enabled), n)
<1>1. Shown(enabled) # None /\ as_cached_state(enabled, n) # None
  BY NoneAssumption, AsCachedStateType
     DEF Shown, Enablement, CachedState, State, Wake, Plain, Normalizable
<1>2. CASE enabled.kind \in {"Active", "Bypassed"}
  BY <1>1, <1>2 DEF Enablement, as_cached_state, Shown, EffectiveAt, Plain
<1>3. CASE enabled.kind = "SnoozedUntil"
  <2>1. enabled.until \in Time /\ enabled.until \in Nat
    BY <1>3, TimeAssumption DEF Enablement
  <2> QED BY <1>1, <1>3, <2>1 DEF as_cached_state, Shown, EffectiveAt, Plain
<1> QED BY <1>2, <1>3 DEF Normalizable

\* Writing a Status as a config: a wake that is missing or cannot be represented
\* makes a bypass without end of it, which is what it was.
LEMMA WritingKeeps ==
    ASSUME NEW status \in Status, IsEnablement(status.state), NEW n \in Nat
    PROVE  EffectiveAt(Shown(normalized_enablement_from_controls(status)), n)
               = EffectiveAt(from_status(status), n)
<1> DEFINE enabled == normalized_enablement_from_controls(status)
<1>1. enabled \in Enablement /\ Normalizable(enabled)
  BY DEF normalized_enablement_from_controls, Enablement, Normalizable, Status
<1>2. Shown(enabled) # None /\ from_status(status) # None
  BY <1>1, NoneAssumption, FromStatusType
     DEF Shown, Enablement, CachedState, State, Wake, Plain, Normalizable
<1>3. CASE status.state # "Bypassed"
  BY <1>2, <1>3 DEF normalized_enablement_from_controls, Shown, from_status, EffectiveAt, Plain
<1>4. CASE status.state = "Bypassed" /\ status.wake \in Time
  BY <1>2, <1>4 DEF normalized_enablement_from_controls, Shown, from_status, EffectiveAt, Plain
<1>5. CASE status.state = "Bypassed" /\ status.wake \notin Time
  BY <1>2, <1>5, WakeAssumption
     DEF normalized_enablement_from_controls, Shown, from_status, EffectiveAt, Plain
<1> QED BY <1>3, <1>4, <1>5

Expired(e, n) == IF e = [state |-> "Bypassed", wake |-> n] THEN Plain("Unbypassed") ELSE e

\* A tick changes nothing but the snoozes that end with it.
LEMMA TickEffect ==
    ASSUME NEW view \in Observation, NEW n \in Nat
    PROVE  EffectiveAt(view, n + 1) = IF n + 1 \in Time THEN Expired(EffectiveAt(view, n), n + 1)
                                      ELSE EffectiveAt(view, n)
<1>1. CASE view = None
  <2>1. n + 1 \in Time => [state |-> "Bypassed", wake |-> n + 1] \in CachedState
    BY DEF CachedState, State, Wake
  <2> QED BY <1>1, <2>1, NoneAssumption DEF EffectiveAt, Expired
<1>2. CASE view # None /\ (view.state # "Bypassed" \/ view.wake \notin Time)
  BY <1>2, WakeAssumption DEF EffectiveAt, Expired, Plain
<1>3. CASE view # None /\ view.state = "Bypassed" /\ view.wake \in Time
  <2>1. view = [state |-> "Bypassed", wake |-> view.wake] /\ view.wake \in Nat
    BY <1>3, TimeAssumption DEF Observation, CachedState
  <2>2. CASE view.wake > n + 1
    BY <1>3, <2>1, <2>2 DEF EffectiveAt, Expired, Plain
  <2>3. CASE view.wake = n + 1
    BY <1>3, <2>1, <2>3 DEF EffectiveAt, Expired, Plain
  <2>4. CASE view.wake <= n
    BY <1>3, <2>1, <2>4 DEF EffectiveAt, Expired, Plain
  <2> QED BY <2>1, <2>2, <2>3, <2>4
<1> QED BY <1>1, <1>2, <1>3

\* So what amounts to the same at an instant amounts to the same at the next.
LEMMA TickKeeps ==
    ASSUME NEW v \in Observation, NEW w \in Observation, NEW n \in Nat,
           EffectiveAt(v, n) = EffectiveAt(w, n)
    PROVE  EffectiveAt(v, n + 1) = EffectiveAt(w, n + 1)
  BY TickEffect

-----------------------------------------------------------------------------
(* Every step keeps what is under way in line with what was asked for.     *)

\* A program step is a step of Synchronizer, and so is an operator's.
LEMMA StepsOfSynchronizer == [MirroringNext]_mirror_vars => [Next]_vars
<1>1. OperatorAsks => OperatorActs
  BY DEF OperatorAsks, AsksControls, AsksPhoebus, OperatorActs
<1>2. ProgramRuns => Next
  BY DEF ProgramRuns, Next
<1>3. OperatorActs => Next
  BY DEF Next
<1>4. UNCHANGED mirror_vars => UNCHANGED vars
  BY DEF mirror_vars
<1> QED BY <1>1, <1>2, <1>3, <1>4 DEF MirroringNext

Wished == TypeOK /\ intent \in [Device -> Observation]

\* What the Controls task publishes is what it was told.
LEMMA MirroredRecordAgrees ==
    ASSUME NEW status \in Mirrored, NEW metadata \in PvMetadata, NEW wanted, NEW n \in Nat,
           StatusAgrees(status, wanted, n)
    PROVE  RecordAgrees(controls_to_phoebus(status, state_to_operation(status.state), metadata),
                        wanted, n)
<1> DEFINE msg == controls_to_phoebus(status, state_to_operation(status.state), metadata)
<1> SUFFICES ASSUME msg.op = "Config"
             PROVE  EffectiveAt(Shown(msg.enabled), n) = EffectiveAt(wanted[msg.device], n)
  BY DEF RecordAgrees
<1>1. state_to_operation(status.state) = "Config" /\ status \in Status
  BY DEF controls_to_phoebus, Mirrored
<1>2. IsEnablement(status.state)
  BY <1>1, NoneAssumption DEF state_to_operation, IsEnablement
<1>3. msg.enabled = normalized_enablement_from_controls(status) /\ msg.device = status.device
  BY <1>1 DEF controls_to_phoebus
<1> HIDE DEF msg
<1> QED BY <1>1, <1>2, <1>3, WritingKeeps DEF StatusAgrees

LEMMA ControlsAgrees ==
    ASSUME Wished, Agrees, RunControls, UNCHANGED intent
    PROVE  Agrees'
<1> USE DEF Wished, TypeOK, ExternalTypeOK
<1>0. UNCHANGED <<now, monitors>>
  BY DEF RunControls, ControlsStep, ControlsSubscribe, ControlsStreamEnds, ControlsReceive,
         ControlsDecide, ControlsPublish, ControlsRecord
<1>a. \A t \in MonitoredTopics : MonitorAgrees(monitors[t], intent, now)'
  BY <1>0 DEF Agrees
<1>b. ASSUME UNCHANGED phoebus_topics
      PROVE  \A t \in MonitoredTopics : RecordsAgree(phoebus_topics[t], intent, now)'
  BY <1>0, <1>b DEF Agrees
<1>c. ASSUME UNCHANGED controls_topic PROVE TopicAgrees(controls_topic, intent, now)'
  BY <1>0, <1>c DEF Agrees
<1>d. ASSUME controls_task'.pc \notin {"lookup", "publish"}
      PROVE  ControlsTaskAgrees(controls_task, intent, now)'
  BY <1>d DEF ControlsTaskAgrees
<1>1. CASE ControlsSubscribe
  <2>1. TopicAgrees(controls_topic, intent, now)'
    BY <1>0, <1>1, FromHeld DEF ControlsSubscribe, TopicAgrees, Agrees
  <2>2. UNCHANGED phoebus_topics /\ controls_task'.pc = "idle"
    BY <1>1 DEF ControlsSubscribe, ControlsAt
  <2> QED BY <1>a, <1>b, <1>d, <2>1, <2>2 DEF Agrees
<1>2. CASE ControlsStreamEnds
  <2>1. UNCHANGED <<controls_topic, phoebus_topics>> /\ controls_task'.pc = "down"
    BY <1>2 DEF ControlsStreamEnds, ControlsAt, topics
  <2> QED BY <1>a, <1>b, <1>c, <1>d, <2>1 DEF Agrees
<1>3. CASE ControlsReceive
  <2>1. StatusAgrees(Head(controls_topic), intent, now)
    BY <1>3, TailHeld DEF ControlsReceive, TopicAgrees, Agrees
  <2>2. TopicAgrees(controls_topic, intent, now)'
    <3>1. CASE controls_topic' = Tail(controls_topic)
      BY <1>0, <1>3, <3>1, TailHeld DEF ControlsReceive, TopicAgrees, Agrees
    <3>2. CASE controls_topic' = controls_topic
      BY <3>2, <1>c
    <3> QED BY <1>3, <3>1, <3>2 DEF ControlsReceive
  <2>3. ControlsTaskAgrees(controls_task, intent, now)'
    BY <1>0, <1>3, <2>1 DEF ControlsReceive, ControlsTaskAgrees, Agrees
  <2>4. UNCHANGED phoebus_topics
    BY <1>3 DEF ControlsReceive
  <2> QED BY <1>a, <1>b, <2>2, <2>3, <2>4 DEF Agrees
<1>4. CASE ControlsDecide
  <2>1. UNCHANGED <<controls_topic, phoebus_topics>>
    BY <1>4 DEF ControlsDecide, topics
  <2>2. ControlsTaskAgrees(controls_task, intent, now)'
    BY <1>0, <1>4 DEF ControlsDecide, ControlsAt, ControlsTaskAgrees, Agrees
  <2> QED BY <1>a, <1>b, <1>c, <2>1, <2>2 DEF Agrees
<1>5. CASE ControlsPublish
  <2> DEFINE alarm == controls_task.alarm
             msg == controls_to_phoebus(alarm, state_to_operation(alarm.state),
                                        controls_task.metadata)
  <2>1. /\ alarm \in Mirrored /\ controls_task.metadata \in PvMetadata
        /\ StatusAgrees(alarm, intent, now)
    BY <1>5 DEF ControlsPublish, ControlsTypeOK, ControlsTask, ControlsTaskAgrees, Agrees
  <2>2. msg \in PhoebusMsg
    BY <2>1, ControlsToPhoebusType DEF Mirrored
  <2>3. RecordAgrees(msg, intent, now)
    BY <2>1, MirroredRecordAgrees
  <2>4. UNCHANGED controls_topic /\ controls_task'.pc = "record"
    BY <1>5 DEF ControlsPublish, ControlsTypeOK, ControlsTask
  <2>5. \/ UNCHANGED phoebus_topics
        \/ /\ OutboundTopic \in MonitoredTopics
           /\ phoebus_topics' = [phoebus_topics EXCEPT ![OutboundTopic] = Append(@, msg)]
    BY <1>5 DEF ControlsPublish, PublishPhoebus
  <2> HIDE DEF msg
  <2>6. \A t \in MonitoredTopics : RecordsAgree(phoebus_topics[t], intent, now)'
    <3>1. CASE UNCHANGED phoebus_topics
      BY <3>1, <1>b
    <3>2. CASE /\ OutboundTopic \in MonitoredTopics
               /\ phoebus_topics' = [phoebus_topics EXCEPT ![OutboundTopic] = Append(@, msg)]
      <4>1. \A t \in MonitoredTopics : phoebus_topics'[t] \in
                 {phoebus_topics[t], Append(phoebus_topics[t], msg)}
        BY <3>2
      <4>2. ASSUME NEW t \in MonitoredTopics
            PROVE  RecordsAgree(Append(phoebus_topics[t], msg), intent, now)
        BY <2>2, <2>3, AppendHeld DEF RecordsAgree, Agrees
      <4> QED BY <1>0, <4>1, <4>2 DEF Agrees
    <3> QED BY <2>5, <3>1, <3>2
  <2> QED BY <1>a, <1>c, <1>d, <2>4, <2>6 DEF Agrees
<1>6. CASE ControlsRecord
  <2>1. UNCHANGED <<controls_topic, phoebus_topics>> /\ controls_task'.pc = "idle"
    BY <1>6 DEF ControlsRecord, ControlsAt, topics
  <2> QED BY <1>a, <1>b, <1>c, <1>d, <2>1 DEF Agrees
<1> QED BY <1>1, <1>2, <1>3, <1>4, <1>5, <1>6 DEF RunControls, ControlsStep

LEMMA MonitorStepAgrees ==
    ASSUME Wished, Agrees, NEW t \in MonitoredTopics, RunMonitor(t), UNCHANGED intent
    PROVE  Agrees'
<1> USE DEF Wished, TypeOK, ExternalTypeOK
<1> DEFINE task == monitors[t]
<1>0. UNCHANGED <<now, controls_task>>
  BY DEF RunMonitor, MonitorStep, MonitorSubscribe, MonitorStreamEnds, MonitorReceive,
         MonitorDecide, MonitorRpc, MonitorRecord, MonitorUpdate
<1>a. ControlsTaskAgrees(controls_task, intent, now)'
  BY <1>0 DEF Agrees
<1>b. ASSUME UNCHANGED phoebus_topics
      PROVE  \A u \in MonitoredTopics : RecordsAgree(phoebus_topics[u], intent, now)'
  BY <1>0, <1>b DEF Agrees
<1>c. ASSUME UNCHANGED controls_topic PROVE TopicAgrees(controls_topic, intent, now)'
  BY <1>0, <1>c DEF Agrees
<1>d. ASSUME NEW new, Becomes(t, new), MonitorAgrees(new, intent, now)
      PROVE  \A u \in MonitoredTopics : MonitorAgrees(monitors[u], intent, now)'
  BY <1>0, <1>d DEF Becomes, MonitorsTypeOK, Agrees
<1>e. ASSUME NEW new, new.pc \notin {"policy", "rpc"}
      PROVE  MonitorAgrees(new, intent, now)
  BY <1>e DEF MonitorAgrees
<1>f. MonitorAgrees(MonitorAt("idle"), intent, now) /\ MonitorAgrees(MonitorAt("down"), intent, now)
  BY <1>e DEF MonitorAt
<1>g. task \in MonitorTask /\ MonitorAgrees(task, intent, now)
  BY DEF MonitorsTypeOK, Agrees
<1>h. ASSUME NEW queue, phoebus_topics' = [phoebus_topics EXCEPT ![t] = queue],
             RecordsAgree(queue, intent, now)
      PROVE  \A u \in MonitoredTopics : RecordsAgree(phoebus_topics[u], intent, now)'
  BY <1>0, <1>h DEF Agrees
<1>i. RecordsAgree(phoebus_topics[t], intent, now) /\ phoebus_topics[t] \in Seq(PhoebusMsg)
  BY DEF Agrees
<1>1. CASE MonitorSubscribe(t)
  <2>1. PICK n \in 1 .. Len(phoebus_topics[t]) + 1 :
          phoebus_topics' = [phoebus_topics EXCEPT ![t] = From(@, n)]
    BY <1>1 DEF MonitorSubscribe
  <2>2. RecordsAgree(From(phoebus_topics[t], n), intent, now)
    BY <1>i, FromHeld DEF RecordsAgree
  <2>3. UNCHANGED controls_topic
    BY <1>1 DEF MonitorSubscribe
  <2>4. Becomes(t, MonitorAt("idle"))
    BY <1>1 DEF MonitorSubscribe
  <2> QED BY <1>a, <1>c, <1>d, <1>f, <1>h, <2>1, <2>2, <2>3, <2>4 DEF Agrees
<1>2. CASE MonitorStreamEnds(t)
  <2>1. UNCHANGED <<controls_topic, phoebus_topics>> /\ Becomes(t, MonitorAt("down"))
    BY <1>2 DEF MonitorStreamEnds, topics
  <2> QED BY <1>a, <1>b, <1>c, <1>d, <1>f, <2>1 DEF Agrees
<1>3. CASE MonitorReceive(t)
  <2> DEFINE msg == Head(phoebus_topics[t])
  <2>1. /\ phoebus_topics[t] # <<>> /\ MonitorReceives(t, msg) /\ UNCHANGED controls_topic
        /\ \E rest \in {Tail(phoebus_topics[t]), phoebus_topics[t]} :
              phoebus_topics' = [phoebus_topics EXCEPT ![t] = rest]
    BY <1>3 DEF MonitorReceive
  <2>2. RecordsAgree(Tail(phoebus_topics[t]), intent, now) /\ RecordAgrees(msg, intent, now)
    BY <1>i, <2>1, TailHeld DEF RecordsAgree
  <2>3. \A u \in MonitoredTopics : RecordsAgree(phoebus_topics[u], intent, now)'
    BY <1>h, <1>i, <2>1, <2>2
  <2> HIDE DEF msg
  <2>4. \A u \in MonitoredTopics : MonitorAgrees(monitors[u], intent, now)'
    <3>1. CASE msg.op = "Command" /\ Acknowledges(msg)
      <4> DEFINE new == [pc |-> "rpc", msg |-> msg, metadata |-> None,
                         updated |-> Plain("Acknowledged"), attempt |-> 1]
      <4>1. Becomes(t, new)
        BY <2>1, <3>1 DEF MonitorReceives
      <4>2. MonitorAgrees(new, intent, now)
        BY DEF MonitorAgrees, UpdateAgrees, IsEnablement, Plain
      <4> QED BY <1>d, <4>1, <4>2
    <3>2. CASE msg.op = "Config" /\ msg.enabled.kind # "NotJson"
      <4> DEFINE new == [pc |-> "policy", msg |-> msg, metadata |-> get_pv_metadata(msg, t),
                         updated |-> None, attempt |-> 1]
      <4>1. Becomes(t, new)
        BY <2>1, <3>2 DEF MonitorReceives
      <4>2. MonitorAgrees(new, intent, now)
        BY <2>2 DEF MonitorAgrees
      <4> QED BY <1>d, <4>1, <4>2
    <3>3. CASE UNCHANGED monitors
      BY <1>0, <3>3 DEF Agrees
    <3> QED BY <2>1, <3>1, <3>2, <3>3 DEF MonitorReceives
  <2> QED BY <1>a, <1>c, <2>1, <2>3, <2>4 DEF Agrees
<1>4. CASE MonitorDecide(t)
  <2> DEFINE updated == as_cached_state(task.msg.enabled, now)
  <2>1. task \in [pc : {"policy", "update"}, msg : ConfigMsg, metadata : PvMetadata,
                  updated : {None}, attempt : {1}]
    BY <1>4, <1>g DEF MonitorDecide, MonitorTask
  <2>2. [task EXCEPT !.pc = "update"].pc = "update"
    BY <2>1
  <2>3. ASSUME Normalizable(task.msg.enabled)
        PROVE  MonitorAgrees([task EXCEPT !.pc = "rpc", !.updated = updated], intent, now)
    <3>1. EffectiveAt(updated, now) = EffectiveAt(Shown(task.msg.enabled), now)
      BY <2>1, <2>3, ReadingKeeps DEF ConfigMsg
    <3>2. EffectiveAt(Shown(task.msg.enabled), now) = EffectiveAt(intent[task.msg.device], now)
      BY <1>4, <1>g, <2>1, <2>3 DEF MonitorDecide, MonitorAgrees, RecordAgrees, ConfigMsg
    <3> HIDE DEF updated
    <3>3. /\ [task EXCEPT !.pc = "rpc", !.updated = updated].pc = "rpc"
          /\ [task EXCEPT !.pc = "rpc", !.updated = updated].updated = updated
          /\ [task EXCEPT !.pc = "rpc", !.updated = updated].msg = task.msg
      BY <2>1
    <3> QED BY <3>1, <3>2, <3>3 DEF MonitorAgrees, UpdateAgrees
  <2>4. \A u \in MonitoredTopics : MonitorAgrees(monitors[u], intent, now)'
    BY <1>4, <1>d, <1>e, <1>f, <2>2, <2>3 DEF MonitorDecide
  <2>5. UNCHANGED <<controls_topic, phoebus_topics>>
    BY <1>4 DEF MonitorDecide, topics
  <2> QED BY <1>a, <1>b, <1>c, <2>4, <2>5 DEF Agrees
<1>5. CASE MonitorRpc(t)
  <2> DEFINE status == [parses |-> TRUE, source |-> "Epics", device |-> task.msg.device,
                        state |-> task.updated.state, wake |-> task.updated.wake,
                        hops |-> NextHop(task.msg.hops)]
  <2>1. /\ task.msg \in CommandMsg \cup ConfigMsg /\ task.updated \in CachedState
        /\ \E msgs, metas : task \in [pc : {"rpc", "record"}, msg : msgs, metadata : metas,
                                      updated : CachedState, attempt : {1, 2}]
    BY <1>5, <1>g DEF MonitorRpc, MonitorTask
  <2>2. status \in Status
    BY <2>1, NextHopType DEF Status, CachedState, CommandMsg, ConfigMsg
  <2>3. from_status(status) = task.updated
    BY <2>1 DEF from_status, CachedState
  <2>4. StatusAgrees(status, intent, now)
    BY <1>5, <1>g, <2>3 DEF MonitorRpc, MonitorAgrees, UpdateAgrees, StatusAgrees
  <2>5. UNCHANGED controls_topic \/ controls_topic' = Append(controls_topic, status)
    BY <1>5 DEF MonitorRpc, ServeCommand, PublishStatus
  <2> HIDE DEF status
  <2>6. TopicAgrees(Append(controls_topic, status), intent, now)
    BY <2>2, <2>4, AppendHeld DEF TopicAgrees, Agrees
  <2>7. TopicAgrees(controls_topic, intent, now)'
    BY <1>0, <1>c, <2>5, <2>6
  <2>8. MonitorAgrees([task EXCEPT !.pc = "record"], intent, now)
    BY <1>e, <2>1
  <2>9. MonitorAgrees([task EXCEPT !.attempt = 2], intent, now)
    BY <1>5, <1>g, <2>1 DEF MonitorRpc, MonitorAgrees, UpdateAgrees
  <2>10. \A u \in MonitoredTopics : MonitorAgrees(monitors[u], intent, now)'
    BY <1>5, <1>d, <2>8, <2>9 DEF MonitorRpc
  <2>11. UNCHANGED phoebus_topics
    BY <1>5 DEF MonitorRpc
  <2> QED BY <1>a, <1>b, <2>7, <2>10, <2>11 DEF Agrees
<1>6. CASE MonitorRecord(t)
  <2>1. \E msgs, metas : task \in [pc : {"rpc", "record"}, msg : msgs, metadata : metas,
                                   updated : CachedState, attempt : {1, 2}]
    BY <1>6, <1>g DEF MonitorRecord, MonitorTask
  <2>2. [task EXCEPT !.pc = "update", !.updated = None, !.attempt = 1].pc = "update"
    BY <2>1
  <2>3. \A u \in MonitoredTopics : MonitorAgrees(monitors[u], intent, now)'
    BY <1>6, <1>d, <1>e, <1>f, <2>2 DEF MonitorRecord
  <2>4. UNCHANGED <<controls_topic, phoebus_topics>>
    BY <1>6 DEF MonitorRecord, topics
  <2> QED BY <1>a, <1>b, <1>c, <2>3, <2>4 DEF Agrees
<1>7. CASE MonitorUpdate(t)
  <2>1. \A u \in MonitoredTopics : MonitorAgrees(monitors[u], intent, now)'
    BY <1>7, <1>d, <1>f DEF MonitorUpdate
  <2>2. UNCHANGED <<controls_topic, phoebus_topics>>
    BY <1>7 DEF MonitorUpdate, topics
  <2> QED BY <1>a, <1>b, <1>c, <2>1, <2>2 DEF Agrees
<1> QED BY <1>1, <1>2, <1>3, <1>4, <1>5, <1>6, <1>7 DEF RunMonitor, MonitorStep

\* An operator who waits finds nothing under way.
LEMMA WaitedFor == Paced /\ OperatorAsks => OthersWait
  BY DEF OperatorAsks, OperatorTurn, Quiet, OthersWait

\* What is then under way is the new wish itself.
LEMMA OperatorAgrees ==
    ASSUME OthersWait, Wished, OperatorAsks
    PROVE  Agrees' /\ intent' \in [Device -> Observation]
<1> USE DEF Wished, TypeOK, ExternalTypeOK
<1>0. UNCHANGED <<now, controls_task, monitors>>
  BY DEF OperatorAsks, OperatorTurn, tasks
<1>1. ControlsTaskAgrees(controls_task, intent, now)'
  BY <1>0 DEF OthersWait, ControlsTaskAgrees
<1>2. \A t \in MonitoredTopics : MonitorAgrees(monitors[t], intent, now)'
  BY <1>0 DEF OthersWait, MonitorAgrees
<1>3. ASSUME NEW status \in ControlsInputs, AsksControls(status)
      PROVE  Agrees' /\ intent' \in [Device -> Observation]
  <2>1. status \in Status
    BY EnvironmentAssumption
  <2>2. controls_topic' = <<status>> /\ UNCHANGED phoebus_topics
    BY <1>0, <1>3, <2>1 DEF OthersWait, AsksControls, ControlsActs, PublishStatus
  <2>3. from_status(status) \in Observation /\ status.device \in Device
    BY <2>1, FromStatusType DEF Observation, Status
  <2>4. intent' \in [Device -> Observation]
    BY <1>3, <2>3 DEF AsksControls
  <2>5. IsEnablement(status.state) => intent'[status.device] = from_status(status)
    BY <1>3, <2>3 DEF AsksControls
  <2>6. TopicAgrees(controls_topic, intent, now)'
    BY <1>0, <2>2, <2>5 DEF TopicAgrees, StatusAgrees
  <2>7. \A t \in MonitoredTopics : RecordsAgree(phoebus_topics[t], intent, now)'
    BY <1>0, <2>2 DEF OthersWait, RecordsAgree
  <2> QED BY <1>1, <1>2, <2>4, <2>6, <2>7 DEF Agrees
<1>4. ASSUME NEW input \in PhoebusInputs, AsksPhoebus(input)
      PROVE  Agrees' /\ intent' \in [Device -> Observation]
  <2> DEFINE msg == input[2]
  <2>1. input[1] \in MonitoredTopics /\ msg \in PhoebusMsg
    BY EnvironmentAssumption
  <2>2. /\ phoebus_topics' = [phoebus_topics EXCEPT ![input[1]] = Append(@, msg)]
        /\ UNCHANGED controls_topic
    BY <1>4 DEF AsksPhoebus, PhoebusActs, PublishPhoebus
  <2>3. intent' = IF msg.op = "Config" /\ Normalizable(msg.enabled)
                  THEN [intent EXCEPT ![msg.device] = Shown(msg.enabled)]
                  ELSE intent
    BY <1>4 DEF AsksPhoebus
  <2> HIDE DEF msg
  <2>4. ASSUME msg.op = "Config", Normalizable(msg.enabled)
        PROVE  msg.device \in Device /\ Shown(msg.enabled) \in Observation
    <3>1. msg \in ConfigMsg
      BY <2>1, <2>4 DEF PhoebusMsg, CommandMsg, StateMsg, BadKeyMsg
    <3> QED BY <2>4, <3>1 DEF ConfigMsg, Shown, Plain, Observation, CachedState, State, Wake,
                              Enablement, Normalizable
  <2>5. intent' \in [Device -> Observation]
    BY <2>3, <2>4
  <2>6. msg.op = "Config" /\ Normalizable(msg.enabled) => intent'[msg.device] = Shown(msg.enabled)
    BY <2>3, <2>4
  <2>7. RecordAgrees(msg, intent', now')
    BY <2>6 DEF RecordAgrees
  <2>8. \A t \in MonitoredTopics :
            phoebus_topics'[t] = IF t = input[1] THEN Append(<<>>, msg) ELSE <<>>
    BY <1>0, <2>1, <2>2 DEF OthersWait
  <2>a. <<>> \in Seq(PhoebusMsg) /\ DOMAIN <<>> = {}
    OBVIOUS
  <2>b. \A i \in DOMAIN Append(<<>>, msg) : Append(<<>>, msg)[i] = msg
    BY <2>1, <2>a, AppendHeld
  <2>9. \A t \in MonitoredTopics : RecordsAgree(phoebus_topics[t], intent, now)'
    BY <2>7, <2>8, <2>a, <2>b DEF RecordsAgree
  <2>10. TopicAgrees(controls_topic, intent, now)'
    BY <1>0, <2>2 DEF OthersWait, TopicAgrees
  <2> QED BY <1>1, <1>2, <2>5, <2>9, <2>10 DEF Agrees
<1> QED BY <1>3, <1>4 DEF OperatorAsks

\* The clock changes what is under way and what was asked for in the same way.
LEMMA TickAgrees ==
    ASSUME Wished, Agrees, ClockTicks, UNCHANGED intent
    PROVE  Agrees'
<1> USE DEF Wished, TypeOK, ExternalTypeOK
<1>0. /\ now' = now + 1
      /\ UNCHANGED <<controls_topic, phoebus_topics, controls_task, monitors>>
  BY DEF ClockTicks, Tick, topics, tasks
<1>1. ASSUME NEW status \in Status, StatusAgrees(status, intent, now)
      PROVE  StatusAgrees(status, intent, now + 1)
  <2>1. from_status(status) \in Observation /\ intent[status.device] \in Observation
    BY FromStatusType DEF Observation, Status
  <2> QED BY <1>1, <2>1, TickKeeps DEF StatusAgrees
<1>2. ASSUME NEW msg \in PhoebusMsg, RecordAgrees(msg, intent, now)
      PROVE  RecordAgrees(msg, intent, now + 1)
  <2> SUFFICES ASSUME msg.op = "Config", Normalizable(msg.enabled)
               PROVE  EffectiveAt(Shown(msg.enabled), now + 1)
                          = EffectiveAt(intent[msg.device], now + 1)
    BY DEF RecordAgrees
  <2>1. msg \in ConfigMsg
    BY DEF PhoebusMsg, CommandMsg, StateMsg, BadKeyMsg
  <2>2. Shown(msg.enabled) \in Observation /\ intent[msg.device] \in Observation
    BY <2>1 DEF ConfigMsg, Shown, Plain, Observation, CachedState, State, Wake,
                Enablement, Normalizable
  <2> QED BY <1>2, <2>2, TickKeeps DEF RecordAgrees
<1>3. ASSUME NEW task \in MonitorTask, MonitorAgrees(task, intent, now)
      PROVE  MonitorAgrees(task, intent, now + 1)
  <2>1. task.pc = "policy" => task.msg \in PhoebusMsg
    BY DEF MonitorTask, PhoebusMsg
  <2>2. task.pc = "rpc" => UpdateAgrees(task, intent, now + 1)
    <3> SUFFICES ASSUME task.pc = "rpc" PROVE UpdateAgrees(task, intent, now + 1)
      OBVIOUS
    <3>1. task.updated \in Observation /\ task.msg \in CommandMsg \cup ConfigMsg
      BY DEF MonitorTask, Observation
    <3>2. intent[task.msg.device] \in Observation
      BY <3>1 DEF CommandMsg, ConfigMsg
    <3> QED BY <1>3, <3>1, <3>2, TickKeeps DEF UpdateAgrees, MonitorAgrees
  <2> QED BY <1>2, <1>3, <2>1, <2>2 DEF MonitorAgrees
<1>4. TopicAgrees(controls_topic, intent, now)'
  <2>1. \A i \in DOMAIN controls_topic : controls_topic[i] \in Status
    OBVIOUS
  <2> QED BY <1>0, <1>1, <2>1 DEF TopicAgrees, Agrees
<1>5. \A t \in MonitoredTopics : RecordsAgree(phoebus_topics[t], intent, now)'
  <2>1. \A t \in MonitoredTopics : \A i \in DOMAIN phoebus_topics[t] :
            phoebus_topics[t][i] \in PhoebusMsg
    OBVIOUS
  <2> QED BY <1>0, <1>2, <2>1 DEF RecordsAgree, Agrees
<1>6. ControlsTaskAgrees(controls_task, intent, now)'
  <2>1. controls_task.pc \in {"lookup", "publish"} => controls_task.alarm \in Status
    BY DEF ControlsTypeOK, ControlsTask, Mirrored
  <2> QED BY <1>0, <1>1, <2>1 DEF ControlsTaskAgrees, Agrees
<1>7. \A t \in MonitoredTopics : MonitorAgrees(monitors[t], intent, now)'
  BY <1>0, <1>3 DEF Agrees, MonitorsTypeOK
<1> QED BY <1>4, <1>5, <1>6, <1>7 DEF Agrees

LEMMA StutterAgrees ==
    ASSUME Agrees, UNCHANGED <<controls_topic, phoebus_topics, controls_task, monitors, intent, now>>
    PROVE  Agrees'
  BY DEF Agrees

LEMMA HydrationKeeps ==
    ASSUME RunHydration
    PROVE  UNCHANGED <<controls_topic, phoebus_topics, views, controls_task, monitors, now>>
  BY DEF RunHydration, HydrationStep, HydrationSnapshot, HydrationApply, HydrationUpdate,
         HydrationNextTopic, HydrationDone, topics

\* Agrees is inductive, together with the types.
LEMMA AgreesInductive ==
    ASSUME OperatorAsks => OthersWait, Wished, Agrees, [MirroringNext]_mirror_vars
    PROVE  Agrees' /\ intent' \in [Device -> Observation]
<1>1. CASE OperatorAsks
  BY <1>1, OperatorAgrees
<1>2. CASE RunControls /\ UNCHANGED intent
  BY <1>2, ControlsAgrees DEF Wished
<1>3. CASE RunHydration /\ UNCHANGED intent
  BY <1>3, HydrationKeeps, StutterAgrees DEF Wished
<1>4. ASSUME NEW t \in MonitoredTopics, RunMonitor(t), UNCHANGED intent
      PROVE  Agrees' /\ intent' \in [Device -> Observation]
  BY <1>4, MonitorStepAgrees DEF Wished
<1>5. CASE ClockTicks /\ UNCHANGED intent
  BY <1>5, TickAgrees DEF Wished
<1>6. CASE UNCHANGED <<vars, intent>>
  BY <1>6, StutterAgrees DEF Wished, vars, external, topics
<1>7. CASE Await /\ UNCHANGED intent
  BY <1>6, <1>7 DEF Await
<1> QED BY <1>1, <1>2, <1>3, <1>4, <1>5, <1>6, <1>7 DEF MirroringNext, ProgramRuns, mirror_vars

LEMMA MirroringTypes == MirroringSpec => []TypeOK
<1>1. MirroringSpec => Spec
  <2>1. MirroringInit => Init
    BY DEF MirroringInit
  <2> QED BY <2>1, StepsOfSynchronizer, PTL DEF MirroringSpec, Spec
<1> QED BY <1>1, TypeCorrect, PTL

LEMMA InitAgrees == MirroringInit => Agrees /\ intent \in [Device -> Observation]
  BY DEF MirroringInit, Init, ExternalInit, ControlsInit, ControlsAt, MonitorsInit, MonitorAt,
         Agrees, TopicAgrees, RecordsAgree, ControlsTaskAgrees, MonitorAgrees

LEMMA AlwaysAgrees ==
    ASSUME Paced
    PROVE  MirroringSpec => [](Wished /\ Agrees)
<1> DEFINE Kept == Agrees /\ intent \in [Device -> Observation]
<1>1. MirroringInit => Kept
  BY InitAgrees
<1>2. TypeOK /\ Kept /\ [MirroringNext]_mirror_vars => Kept'
  BY AgreesInductive, WaitedFor DEF Wished
<1>3. TypeOK /\ Kept => Wished /\ Agrees
  BY DEF Wished
<1> HIDE DEF Kept
<1> QED BY <1>1, <1>2, <1>3, MirroringTypes, PTL DEF MirroringSpec

\* While operators act one at a time, whatever a task has read and whatever waits
\* in a topic asks for what was asked for last, even when calls fail, streams end
\* and records are lost or delivered twice.
THEOREM InFlightIsIntended ==
    ASSUME Paced
    PROVE  MirroringSpec => []InFlightIntended
  BY AlwaysAgrees, AgreesDef, PTL

-----------------------------------------------------------------------------
(* Every step is a step of AlarmMirror, or changes nothing it can see.     *)

LEMMA AmountsDef ==
    /\ Amounts(intent) = AmountsAt(intent, now)
    /\ Amounts(controls_view) = AmountsAt(controls_view, now)
    /\ Amounts(phoebus_view) = AmountsAt(phoebus_view, now)
  BY DEF Amounts, AmountsAt, Effective, EffectiveAt

LEMMA AmountsDefPrimed ==
    /\ Amounts(intent)' = AmountsAt(intent', now')
    /\ Amounts(controls_view)' = AmountsAt(controls_view', now')
    /\ Amounts(phoebus_view)' = AmountsAt(phoebus_view', now')
  BY DEF Amounts, AmountsAt, Effective, EffectiveAt

\* What the program does to the two views: nothing, or what was asked for.
LEMMA ProgramViews ==
    ASSUME Wished, Agrees, RunControls \/ (\E t \in MonitoredTopics : RunMonitor(t))
    PROVE  /\ UNCHANGED now
           /\ \/ UNCHANGED <<controls_view, phoebus_view>>
              \/ \E d \in Device, v \in Observation :
                    /\ EffectiveAt(v, now) = EffectiveAt(intent[d], now)
                    /\ \/ /\ controls_view' = [controls_view EXCEPT ![d] = v]
                          /\ UNCHANGED phoebus_view
                       \/ /\ phoebus_view' = [phoebus_view EXCEPT ![d] = v]
                          /\ UNCHANGED controls_view
<1> USE DEF Wished, TypeOK, ExternalTypeOK
<1>1. CASE RunControls
  <2>1. UNCHANGED <<now, controls_view>> /\ (ControlsPublish \/ UNCHANGED phoebus_view)
    BY <1>1 DEF RunControls, ControlsStep, ControlsSubscribe, ControlsStreamEnds, ControlsReceive,
                ControlsDecide, ControlsPublish, ControlsRecord, views, phoebus_side
  <2> DEFINE alarm == controls_task.alarm
             msg == controls_to_phoebus(alarm, state_to_operation(alarm.state),
                                        controls_task.metadata)
  <2>2. ASSUME ControlsPublish, ~UNCHANGED phoebus_view
        PROVE  /\ msg.op = "Config" /\ Normalizable(msg.enabled)
               /\ phoebus_view' = [phoebus_view EXCEPT ![msg.device] = Shown(msg.enabled)]
    BY <2>2 DEF ControlsPublish, PublishPhoebus, phoebus_side
  <2>3. ASSUME ControlsPublish
        PROVE  msg \in PhoebusMsg /\ RecordAgrees(msg, intent, now)
    <3>1. /\ alarm \in Mirrored /\ controls_task.metadata \in PvMetadata
          /\ StatusAgrees(alarm, intent, now)
      BY <2>3 DEF ControlsPublish, ControlsTypeOK, ControlsTask, ControlsTaskAgrees, Agrees
    <3> QED BY <3>1, ControlsToPhoebusType, MirroredRecordAgrees DEF Mirrored
  <2> HIDE DEF msg
  <2>4. ASSUME ControlsPublish, ~UNCHANGED phoebus_view
        PROVE  /\ msg.device \in Device /\ Shown(msg.enabled) \in Observation
               /\ EffectiveAt(Shown(msg.enabled), now) = EffectiveAt(intent[msg.device], now)
    <3>1. msg \in ConfigMsg
      BY <2>2, <2>3, <2>4 DEF PhoebusMsg, CommandMsg, StateMsg, BadKeyMsg
    <3>2. msg.device \in Device /\ Shown(msg.enabled) \in Observation
      BY <2>2, <2>4, <3>1 DEF ConfigMsg, Shown, Plain, Observation, CachedState, State, Wake,
                              Enablement, Normalizable
    <3> QED BY <2>2, <2>3, <2>4, <3>2 DEF RecordAgrees
  <2> QED BY <2>1, <2>2, <2>4
<1>2. ASSUME NEW t \in MonitoredTopics, RunMonitor(t)
      PROVE  /\ UNCHANGED <<now, phoebus_view>>
             /\ \/ UNCHANGED controls_view
                \/ \E d \in Device, v \in Observation :
                      /\ EffectiveAt(v, now) = EffectiveAt(intent[d], now)
                      /\ controls_view' = [controls_view EXCEPT ![d] = v]
  <2> DEFINE task == monitors[t]
             status == [parses |-> TRUE, source |-> "Epics", device |-> task.msg.device,
                        state |-> task.updated.state, wake |-> task.updated.wake,
                        hops |-> NextHop(task.msg.hops)]
  <2>1. UNCHANGED <<now, phoebus_view>> /\ (MonitorRpc(t) \/ UNCHANGED controls_view)
    BY <1>2 DEF RunMonitor, MonitorStep, MonitorSubscribe, MonitorStreamEnds, MonitorReceive,
                MonitorDecide, MonitorRpc, MonitorRecord, MonitorUpdate, views, phoebus_side
  <2>2. task \in MonitorTask /\ MonitorAgrees(task, intent, now)
    BY DEF MonitorsTypeOK, Agrees
  <2>3. ASSUME MonitorRpc(t), ~UNCHANGED controls_view
        PROVE  /\ IsEnablement(task.updated.state)
               /\ controls_view' = [controls_view EXCEPT ![task.msg.device] = from_status(status)]
    BY <2>3 DEF MonitorRpc, ServeCommand, PublishStatus
  <2>4. ASSUME MonitorRpc(t)
        PROVE  /\ task.msg.device \in Device /\ task.updated \in CachedState
               /\ task.pc = "rpc"
    BY <2>2, <2>4 DEF MonitorRpc, MonitorTask, CommandMsg, ConfigMsg
  <2>5. ASSUME MonitorRpc(t)
        PROVE  from_status(status) = task.updated
    BY <2>4, <2>5 DEF from_status, CachedState
  <2> HIDE DEF status
  <2> QED BY <2>1, <2>2, <2>3, <2>4, <2>5 DEF MonitorAgrees, UpdateAgrees, Observation
<1> QED BY <1>1, <1>2

\* A program step mirrors a wish or is not seen.
LEMMA ProgramMirrors ==
    ASSUME Wished, Agrees, UNCHANGED intent,
           RunControls \/ (\E t \in MonitoredTopics : RunMonitor(t))
    PROVE  [Mirror!Next]_(Mirror!vars)
<1> USE DEF Wished, TypeOK, ExternalTypeOK
<1>1. UNCHANGED now
  BY ProgramViews
<1>2. CASE UNCHANGED <<controls_view, phoebus_view>>
  BY <1>1, <1>2, AmountsDef, AmountsDefPrimed DEF Mirror!vars
<1>3. ASSUME NEW d \in Device, NEW v \in Observation,
             EffectiveAt(v, now) = EffectiveAt(intent[d], now)
      PROVE  EffectiveAt(v, now) = Amounts(intent)[d]
  BY <1>3, AmountsDef DEF AmountsAt
<1>4. ASSUME NEW d \in Device, NEW v \in Observation,
             EffectiveAt(v, now) = EffectiveAt(intent[d], now),
             controls_view' = [controls_view EXCEPT ![d] = v], UNCHANGED phoebus_view
      PROVE  Mirror!MirrorToControls(d)
  <2>1. Amounts(controls_view)' = [Amounts(controls_view) EXCEPT ![d] = Amounts(intent)[d]]
    <3>1. Amounts(controls_view)' = AmountsAt([controls_view EXCEPT ![d] = v], now)
      BY <1>1, <1>4, AmountsDefPrimed
    <3>2. @ = [AmountsAt(controls_view, now) EXCEPT ![d] = EffectiveAt(v, now)]
      BY DEF AmountsAt
    <3>3. @ = [Amounts(controls_view) EXCEPT ![d] = Amounts(intent)[d]]
      BY <1>3, <1>4, AmountsDef
    <3> QED BY <3>1, <3>2, <3>3
  <2>2. UNCHANGED <<Amounts(intent), Amounts(phoebus_view)>>
    BY <1>1, <1>4, AmountsDef, AmountsDefPrimed
  <2> QED BY <1>1, <2>1, <2>2 DEF Mirror!MirrorToControls
<1>5. ASSUME NEW d \in Device, NEW v \in Observation,
             EffectiveAt(v, now) = EffectiveAt(intent[d], now),
             phoebus_view' = [phoebus_view EXCEPT ![d] = v], UNCHANGED controls_view
      PROVE  Mirror!MirrorToPhoebus(d)
  <2>1. Amounts(phoebus_view)' = [Amounts(phoebus_view) EXCEPT ![d] = Amounts(intent)[d]]
    <3>1. Amounts(phoebus_view)' = AmountsAt([phoebus_view EXCEPT ![d] = v], now)
      BY <1>1, <1>5, AmountsDefPrimed
    <3>2. @ = [AmountsAt(phoebus_view, now) EXCEPT ![d] = EffectiveAt(v, now)]
      BY DEF AmountsAt
    <3>3. @ = [Amounts(phoebus_view) EXCEPT ![d] = Amounts(intent)[d]]
      BY <1>3, <1>5, AmountsDef
    <3> QED BY <3>1, <3>2, <3>3
  <2>2. UNCHANGED <<Amounts(intent), Amounts(controls_view)>>
    BY <1>1, <1>5, AmountsDef, AmountsDefPrimed
  <2> QED BY <1>1, <2>1, <2>2 DEF Mirror!MirrorToPhoebus
<1> QED BY ProgramViews, <1>2, <1>4, <1>5 DEF Mirror!Next

\* What an operator asks for, in whichever system, is a new wish.
LEMMA OperatorWishes ==
    ASSUME Wished, OperatorAsks
    PROVE  [Mirror!Next]_(Mirror!vars)
<1> USE DEF Wished, TypeOK, ExternalTypeOK
<1>0. UNCHANGED now
  BY DEF OperatorAsks, OperatorTurn
<1>1. ASSUME UNCHANGED <<intent, controls_view, phoebus_view>>
      PROVE  UNCHANGED Mirror!vars
  BY <1>0, <1>1, AmountsDef, AmountsDefPrimed DEF Mirror!vars
<1>2. ASSUME NEW d \in Device, NEW v \in Observation, intent' = [intent EXCEPT ![d] = v]
      PROVE  Amounts(intent)' = [Amounts(intent) EXCEPT ![d] = EffectiveAt(v, now)]
  <2>1. Amounts(intent)' = AmountsAt([intent EXCEPT ![d] = v], now)
    BY <1>0, <1>2, AmountsDefPrimed
  <2>2. @ = [AmountsAt(intent, now) EXCEPT ![d] = EffectiveAt(v, now)]
    BY DEF AmountsAt
  <2> QED BY <2>1, <2>2, AmountsDef
<1>3. ASSUME NEW d \in Device, NEW v \in Observation, intent' = [intent EXCEPT ![d] = v],
             controls_view' = [controls_view EXCEPT ![d] = v], UNCHANGED phoebus_view
      PROVE  Mirror!Next
  <2>1. Amounts(controls_view)' = AmountsAt([controls_view EXCEPT ![d] = v], now)
    BY <1>0, <1>3, AmountsDefPrimed
  <2>2. @ = [AmountsAt(controls_view, now) EXCEPT ![d] = EffectiveAt(v, now)]
    BY DEF AmountsAt
  <2>3. Amounts(controls_view)' = [Amounts(controls_view) EXCEPT ![d] = EffectiveAt(v, now)]
    BY <2>1, <2>2, AmountsDef
  <2>4. UNCHANGED Amounts(phoebus_view)
    BY <1>0, <1>3, AmountsDef, AmountsDefPrimed
  <2>5. Mirror!Act(d, EffectiveAt(v, now))
    BY <1>0, <1>2, <1>3, <2>3, <2>4 DEF Mirror!Act
  <2> QED BY <2>5, EffectiveAtCurrent DEF Mirror!Next
<1>4. ASSUME NEW d \in Device, NEW v \in Observation, intent' = [intent EXCEPT ![d] = v],
             phoebus_view' = [phoebus_view EXCEPT ![d] = v], UNCHANGED controls_view
      PROVE  Mirror!Next
  <2>1. Amounts(phoebus_view)' = AmountsAt([phoebus_view EXCEPT ![d] = v], now)
    BY <1>0, <1>4, AmountsDefPrimed
  <2>2. @ = [AmountsAt(phoebus_view, now) EXCEPT ![d] = EffectiveAt(v, now)]
    BY DEF AmountsAt
  <2>3. Amounts(phoebus_view)' = [Amounts(phoebus_view) EXCEPT ![d] = EffectiveAt(v, now)]
    BY <2>1, <2>2, AmountsDef
  <2>4. UNCHANGED Amounts(controls_view)
    BY <1>0, <1>4, AmountsDef, AmountsDefPrimed
  <2>5. Mirror!Act(d, EffectiveAt(v, now))
    BY <1>0, <1>2, <1>4, <2>3, <2>4 DEF Mirror!Act
  <2> QED BY <2>5, EffectiveAtCurrent DEF Mirror!Next
<1>5. ASSUME NEW status \in ControlsInputs, AsksControls(status)
      PROVE  [Mirror!Next]_(Mirror!vars)
  <2>1. UNCHANGED phoebus_view
    BY <1>5 DEF AsksControls, ControlsActs, phoebus_side
  <2>2. CASE IsEnablement(status.state)
    <3>1. status.device \in Device /\ from_status(status) \in Observation
      BY EnvironmentAssumption, FromStatusType DEF Status, Observation
    <3>2. /\ intent' = [intent EXCEPT ![status.device] = from_status(status)]
          /\ controls_view' = [controls_view EXCEPT ![status.device] = from_status(status)]
      BY <1>5, <2>2 DEF AsksControls, ControlsActs, PublishStatus
    <3> QED BY <1>3, <2>1, <3>1, <3>2
  <2>3. CASE ~IsEnablement(status.state)
    BY <1>1, <1>5, <2>1, <2>3 DEF AsksControls, ControlsActs, PublishStatus
  <2> QED BY <2>2, <2>3
<1>6. ASSUME NEW input \in PhoebusInputs, AsksPhoebus(input)
      PROVE  [Mirror!Next]_(Mirror!vars)
  <2> DEFINE msg == input[2]
  <2>1. UNCHANGED controls_view
    BY <1>6 DEF AsksPhoebus, PhoebusActs
  <2>2. CASE msg.op = "Config" /\ Normalizable(msg.enabled)
    <3>1. msg \in ConfigMsg
      BY <2>2, EnvironmentAssumption DEF PhoebusMsg, CommandMsg, StateMsg, BadKeyMsg
    <3>2. msg.device \in Device /\ Shown(msg.enabled) \in Observation
      BY <2>2, <3>1 DEF ConfigMsg, Shown, Plain, Observation, CachedState, State, Wake,
                        Enablement, Normalizable
    <3>3. /\ intent' = [intent EXCEPT ![msg.device] = Shown(msg.enabled)]
          /\ phoebus_view' = [phoebus_view EXCEPT ![msg.device] = Shown(msg.enabled)]
      BY <1>6, <2>2 DEF AsksPhoebus, PhoebusActs, PublishPhoebus
    <3> QED BY <1>4, <2>1, <3>2, <3>3
  <2>3. CASE ~(msg.op = "Config" /\ Normalizable(msg.enabled))
    BY <1>1, <1>6, <2>1, <2>3 DEF AsksPhoebus, PhoebusActs, PublishPhoebus, phoebus_side
  <2> QED BY <2>2, <2>3
<1> QED BY <1>5, <1>6 DEF OperatorAsks

\* When the clock moves on, the snoozes that wait for the new instant end, in
\* both systems and among the wishes.
LEMMA TickExpires ==
    ASSUME Wished, ClockTicks, UNCHANGED intent
    PROVE  Mirror!Tick
<1> USE DEF Wished, TypeOK, ExternalTypeOK
<1> DEFINE next == now + 1
           Over(e) == next \in Time /\ e = [n \in Time |-> [state |-> "Bypassed", wake |-> n]][next]
           After(amounts) == [d \in Device |-> IF Over(amounts[d]) THEN Plain("Unbypassed")
                                               ELSE amounts[d]]
<1>1. now' = next /\ UNCHANGED <<controls_view, phoebus_view>>
  BY DEF ClockTicks, Tick, views, phoebus_side
<1>2. ASSUME NEW view \in [Device -> Observation]
      PROVE  AmountsAt(view, next) = After(AmountsAt(view, now))
  <2>1. \A d \in Device : EffectiveAt(view[d], next) =
            IF Over(EffectiveAt(view[d], now)) THEN Plain("Unbypassed") ELSE EffectiveAt(view[d], now)
    BY TickEffect DEF Expired
  <2> HIDE DEF next, Over
  <2> QED BY <2>1 DEF AmountsAt
<1> HIDE DEF After
<1>3. Amounts(intent)' = After(Amounts(intent))
  <2>1. AmountsAt(intent, next) = After(AmountsAt(intent, now))
    BY <1>2
  <2> QED BY <1>1, <2>1, AmountsDef, AmountsDefPrimed
<1>4. Amounts(controls_view)' = After(Amounts(controls_view))
  <2>1. AmountsAt(controls_view, next) = After(AmountsAt(controls_view, now))
    BY <1>2
  <2> QED BY <1>1, <2>1, AmountsDef, AmountsDefPrimed
<1>5. Amounts(phoebus_view)' = After(Amounts(phoebus_view))
  <2>1. AmountsAt(phoebus_view, next) = After(AmountsAt(phoebus_view, now))
    BY <1>2
  <2> QED BY <1>1, <2>1, AmountsDef, AmountsDefPrimed
<1> QED BY <1>1, <1>3, <1>4, <1>5 DEF After, Mirror!Tick

\* A step that leaves the views and the clock alone is not seen.
LEMMA UnseenSteps ==
    ASSUME UNCHANGED <<intent, controls_view, phoebus_view, now>>
    PROVE  UNCHANGED Mirror!vars
  BY AmountsDef, AmountsDefPrimed DEF Mirror!vars

\* While operators act one at a time, the two systems are only ever told what was
\* asked for last: the program implements AlarmMirror.
THEOREM IntentIsMirrored ==
    ASSUME Paced
    PROVE  MirroringSpec => OnlyIntentIsMirrored
<1>1. MirroringInit => Mirror!Init
  <2> SUFFICES ASSUME MirroringInit PROVE Mirror!Init
    OBVIOUS
  <2>1. intent = controls_view /\ controls_view = phoebus_view /\ now \in Nat
    BY DEF MirroringInit, Init, ExternalInit
  <2>2. intent \in [Device -> Observation]
    BY InitAgrees
  <2>3. Amounts(intent) \in [Device -> Mirror!Current]
    BY <2>1, <2>2, AmountsDef, EffectiveAtCurrent DEF AmountsAt
  <2> QED BY <2>1, <2>3, AmountsDef DEF Mirror!Init
<1>2. Wished /\ Agrees /\ [MirroringNext]_mirror_vars => [Mirror!Next]_(Mirror!vars)
  <2> SUFFICES ASSUME Wished, Agrees, [MirroringNext]_mirror_vars
               PROVE  [Mirror!Next]_(Mirror!vars)
    OBVIOUS
  <2>1. CASE OperatorAsks
    BY <2>1, OperatorWishes
  <2>2. CASE (RunControls \/ \E t \in MonitoredTopics : RunMonitor(t)) /\ UNCHANGED intent
    BY <2>2, ProgramMirrors
  <2>3. CASE RunHydration /\ UNCHANGED intent
    BY <2>3, HydrationKeeps, UnseenSteps DEF views, phoebus_side
  <2>4. CASE ClockTicks /\ UNCHANGED intent
    BY <2>4, TickExpires DEF Mirror!Next
  <2>5. CASE UNCHANGED <<vars, intent>>
    BY <2>5, UnseenSteps DEF vars, external, views, phoebus_side
  <2>6. CASE Await /\ UNCHANGED intent
    BY <2>5, <2>6 DEF Await
  <2> QED BY <2>1, <2>2, <2>3, <2>4, <2>5, <2>6 DEF MirroringNext, ProgramRuns, mirror_vars
<1> QED BY <1>1, <1>2, AlwaysAgrees, PTL DEF MirroringSpec, OnlyIntentIsMirrored, Mirror!Spec

=============================================================================
