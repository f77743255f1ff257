------------------------------- MODULE Pacing --------------------------------
(***************************************************************************)
(* What is under way while operators wait for each other, and why a bypass *)
(* is then left by an explicit unbypass only.                              *)
(***************************************************************************)
EXTENDS Synchronizer

\* The two kinds of update the program mirrors; what is neither ends where it is
\* read.
StatusKind(status) ==
    IF status.state = "Acknowledged" THEN "acknowledgement"
    ELSE IF IsEnablement(status.state) THEN "enablement" ELSE "other"

RecordKind(msg) ==
    IF msg.op = "Command" /\ msg.command = "acknowledge" THEN "acknowledgement"
    ELSE IF msg.op = "Config" THEN "enablement" ELSE "other"

StatusesOf(queue, kind) == \A i \in DOMAIN queue : StatusKind(queue[i]) \in {kind, "other"}

RecordsOf(queue, kind) == \A i \in DOMAIN queue : RecordKind(queue[i]) \in {kind, "other"}

ControlsTaskOf(task, kind) ==
    task.pc \in {"lookup", "publish", "record"} => StatusKind(task.alarm) \in {kind, "other"}

MonitorOf(task, kind) ==
    task.pc \in {"policy", "rpc", "record"} => RecordKind(task.msg) \in {kind, "other"}

\* Whatever is unread, or in the hands of a task until it is recorded, is of one
\* kind.
OnlyKind(kind) ==
    /\ StatusesOf(controls_topic, kind)
    /\ ControlsTaskOf(controls_task, kind)
    /\ \A t \in MonitoredTopics : RecordsOf(phoebus_topics[t], kind) /\ MonitorOf(monitors[t], kind)

OneKind == \E kind \in {"acknowledgement", "enablement"} : OnlyKind(kind)

\* A monitor is about to tell Controls of, and to record, an acknowledgement
\* for a command, a bypass or unbypass for a config.
HoldsItsKind(task) ==
    /\ task.pc \in {"rpc", "record"} =>
          IF task.msg.op = "Command"
          THEN task.msg.command = "acknowledge" /\ task.updated = Plain("Acknowledged")
          ELSE IsEnablement(task.updated.state)
    /\ task.pc \in {"rpc", "record", "update"} /\ task.msg.op = "Config" =>
          Normalizable(task.msg.enabled)

\* Until the startup pass is done, there is nothing to mirror.
StillAtStartup ==
    hydration.pc # "done" =>
        /\ controls_topic = <<>>
        /\ controls_task.pc \in {"down", "idle"}
        /\ \A t \in MonitoredTopics : phoebus_topics[t] = <<>> /\ monitors[t].pc = "down"

IsBypassed(state) == state # None /\ state.state = "Bypassed"

\* The Controls task, or a monitor, has an acknowledgement in hand that passed the
\* policy, or is about to.
Acknowledging(task) ==
    /\ task.pc \in {"lookup", "publish", "record"}
    /\ task.alarm.state = "Acknowledged"
    /\ ~(task.pc = "lookup" /\ IsBypassed(task.observed))

Relaying(task) == task.pc \in {"rpc", "record"} /\ task.msg.op = "Command"

\* It finds the device still not bypassed when it is recorded.
AcknowledgesActive ==
    /\ Acknowledging(controls_task) => ~IsBypassed(alarm_states[controls_task.alarm.device])
    /\ \A t \in MonitoredTopics :
          Relaying(monitors[t]) => ~IsBypassed(alarm_states[monitors[t].msg.device])

\* While operators act one at a time, acknowledgements and enablements never
\* race: whatever is lost, repeated or fails, the updates under way are all of
\* one kind, and an acknowledgement meets no bypass it has not seen.
TurnsAreTaken ==
    /\ OneKind
    /\ \A t \in MonitoredTopics : HoldsItsKind(monitors[t])
    /\ StillAtStartup
    /\ AcknowledgesActive

=============================================================================
