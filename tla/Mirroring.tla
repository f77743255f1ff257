------------------------------ MODULE Mirroring ------------------------------
(***************************************************************************)
(* The program as an implementation of AlarmMirror.  intent is a history   *)
(* variable: what operators last asked for, in whichever system.  What a   *)
(* system believes, in the sense of AlarmMirror, is what its view amounts  *)
(* to at this instant.                                                     *)
(***************************************************************************)
EXTENDS Synchronizer

VARIABLE intent

mirror_vars == <<vars, intent>>

MirroringInit == Init /\ intent = controls_view

AsksControls(status) ==
    /\ ControlsActs(status)
    /\ intent' = IF IsEnablement(status.state)
                 THEN [intent EXCEPT ![status.device] = from_status(status)]
                 ELSE intent

AsksPhoebus(input) ==
    LET msg == input[2] IN
    /\ PhoebusActs(input)
    /\ intent' = IF msg.op = "Config" /\ Normalizable(msg.enabled)
                 THEN [intent EXCEPT ![msg.device] = Shown(msg.enabled)]
                 ELSE intent

OperatorAsks ==
    /\ OperatorTurn
    /\ \/ \E status \in ControlsInputs : AsksControls(status)
       \/ \E input \in PhoebusInputs : AsksPhoebus(input)

\* Everything but the operators: the tasks, the clock, and waiting.
ProgramRuns ==
    \/ RunControls
    \/ RunHydration
    \/ \E t \in MonitoredTopics : RunMonitor(t)
    \/ ClockTicks
    \/ Await

MirroringNext ==
    \/ OperatorAsks
    \/ ProgramRuns /\ UNCHANGED intent

MirroringSpec == MirroringInit /\ [][MirroringNext]_mirror_vars

FairMirroringSpec == MirroringSpec /\ Fairness

-----------------------------------------------------------------------------
Amounts(view) == [d \in Device |-> Effective(view[d])]

Mirror == INSTANCE AlarmMirror WITH
    Value <- Observation,
    Snoozed <- [n \in Time |-> [state |-> "Bypassed", wake |-> n]],
    Active <- Plain("Unbypassed"),
    clock <- now,
    intent <- Amounts(intent),
    controls <- Amounts(controls_view),
    phoebus <- Amounts(phoebus_view)

\* While operators act one at a time, neither system is ever told anything but
\* what was last asked for: no echo, retry, repeated record or expiring snooze
\* brings back an enablement that was given up, whatever is lost or fails.
OnlyIntentIsMirrored == Mirror!Spec

\* Why that holds: records not yet read and states in the hands of a task amount
\* to what was last asked for.
IntendedStatus(status) ==
    IsEnablement(status.state)
        => Effective(from_status(status)) = Effective(intent[status.device])

IntendedRecord(msg) ==
    msg.op = "Config" /\ Normalizable(msg.enabled)
        => Effective(Shown(msg.enabled)) = Effective(intent[msg.device])

IntendedUpdate(task) ==
    IsEnablement(task.updated.state)
        => Effective(task.updated) = Effective(intent[task.msg.device])

InFlightIntended ==
    /\ \A i \in DOMAIN controls_topic : IntendedStatus(controls_topic[i])
    /\ \A t \in MonitoredTopics : \A i \in DOMAIN phoebus_topics[t] :
          IntendedRecord(phoebus_topics[t][i])
    /\ controls_task.pc \in {"lookup", "publish"} => IntendedStatus(controls_task.alarm)
    /\ \A t \in MonitoredTopics :
          /\ monitors[t].pc = "policy" => IntendedRecord(monitors[t].msg)
          /\ monitors[t].pc = "rpc" => IntendedUpdate(monitors[t])

=============================================================================
