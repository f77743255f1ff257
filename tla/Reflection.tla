----------------------------- MODULE Reflection ------------------------------
(***************************************************************************)
(* Why mirroring an action comes to an end: while the clock stands still,  *)
(* everything under way for a device stands for one state, and what has    *)
(* been mirrored too often finds that state already recorded.              *)
(***************************************************************************)
EXTENDS Synchronizer

\* The states that survive a way through Phoebus, with the clock at 0.
Exact ==
    {Plain("Acknowledged"), Plain("Unbypassed")}
        \cup [state : {"Bypassed"}, wake : {n \in Time : n > 0} \cup {NoWake}]

Mirrorable(status) == state_to_operation(status.state) # None

Relays(msg) ==
    \/ msg.op = "Command" /\ msg.command = "acknowledge"
    \/ msg.op = "Config" /\ Normalizable(msg.enabled)

\* What a monitor makes of a record.
Amount(msg) ==
    IF msg.op = "Command" THEN Plain("Acknowledged") ELSE as_cached_state(msg.enabled, 0)

\* A status whose echo is a different state: the operator's own, never an echo.
Stale(status, aim) == Mirrorable(status) /\ from_status(status) # aim[status.device]

\* How often an action has been mirrored before the recorded state ends it.
Free == IF StatusesEchoed THEN 1 ELSE 2

-----------------------------------------------------------------------------
Has(task, d) == task.pc \in {"lookup", "publish", "record"} /\ task.alarm.device = d

NoneStale(queue, d, aim) ==
    \A i \in DOMAIN queue : queue[i].device = d => ~Stale(queue[i], aim)

\* The devices where the aim has arrived: it is recorded, or about to be, and no
\* other state is under way to Phoebus.
Arrived(queue, task, states, aim) ==
    {d \in Device :
        /\ NoneStale(queue, d, aim)
        /\ Has(task, d) => ~Stale(task.alarm, aim)
        /\ states[d] = aim[d] \/ (Has(task, d) /\ task.pc = "record")}

\* What may be under way: a status or a record that will be mirrored stands for
\* the aim, and has used up its free mirrorings only where that has arrived.
StatusFits(status, aim, arrived) ==
    /\ ~Mirrorable(status) => status.hops = 0
    /\ Mirrorable(status) =>
          /\ Echo(status) = aim[status.device]
          /\ Stale(status, aim) => status.hops = 0 /\ ~StatusesEchoed
          /\ status.hops <= Free
                \/ (status.device \in arrived /\ status.hops <= Free + 2)

RecordFits(msg, aim, arrived) ==
    /\ ~Relays(msg) => msg.hops = 0
    /\ Relays(msg) =>
          /\ Amount(msg) = aim[msg.device]
          /\ msg.hops < Free \/ (msg.device \in arrived /\ msg.hops <= Free + 1)

\* Stale statuses come first.
InOrder(queue, aim) ==
    \A i, j \in DOMAIN queue :
        /\ i < j /\ queue[i].device = queue[j].device
        /\ Mirrorable(queue[i]) /\ Stale(queue[j], aim)
        => Stale(queue[i], aim)

ControlsFits(task, queue, aim) ==
    task.pc \in {"lookup", "publish", "record"} /\ Mirrorable(task.alarm) =>
        /\ Echo(task.alarm) = aim[task.alarm.device]
        /\ IF Stale(task.alarm, aim)
           THEN task.alarm.hops = 0 /\ ~StatusesEchoed
           ELSE NoneStale(queue, task.alarm.device, aim)
        /\ task.pc = "lookup" =>
              task.alarm.hops <= Free \/ task.observed = from_status(task.alarm)
        /\ task.pc = "publish" => task.alarm.hops <= Free

MonitorFits(task, aim, arrived) ==
    /\ task.pc \in {"policy", "rpc"} => RecordFits(task.msg, aim, arrived)
    /\ task.pc \in {"rpc", "record"} =>
          Relays(task.msg) /\ task.updated = aim[task.msg.device]

\* Everything under way leads to the aim.
Leads(aim) ==
    LET arrived == Arrived(controls_topic, controls_task, alarm_states, aim) IN
    /\ \A i \in DOMAIN controls_topic : StatusFits(controls_topic[i], aim, arrived)
    /\ InOrder(controls_topic, aim)
    /\ ControlsFits(controls_task, controls_topic, aim)
    /\ \A t \in MonitoredTopics :
          /\ \A i \in DOMAIN phoebus_topics[t] : RecordFits(phoebus_topics[t][i], aim, arrived)
          /\ MonitorFits(monitors[t], aim, arrived)

\* While the clock stands still, there is one state for each device that all
\* updates of it under way will end in, and that is recorded before an action has
\* been mirrored too often: whatever is lost, repeated or fails.
Reflected == now = 0 => \E aim \in [Device -> Exact] : Leads(aim)

=============================================================================
