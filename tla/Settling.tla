------------------------------ MODULE Settling -------------------------------
(***************************************************************************)
(* Why everything agrees once it has settled: as long as the program       *)
(* remembers something of a device that is not what was last asked for,    *)
(* the update that corrects it is under way.                               *)
(***************************************************************************)
EXTENDS Mirroring, Pacing, Settings

-----------------------------------------------------------------------------
(* What the surroundings are relied on for.                                *)

\* Topics that configure the same device at startup agree on its enablement.
ConfiguredAlike ==
    \A log \in RetainedLogs, t, u \in PhoebusTopics, d \in Device :
        \A i \in DOMAIN log[t], j \in DOMAIN log[u] :
            IsLastConfig(i, log[t], d) /\ IsLastConfig(j, log[u], d)
                => Shown(log[t][i].enabled) = Shown(log[u][j].enabled)

\* The alarm server reports that a device is well only in a topic that configures it.
StatesAreConfigured ==
    \A log \in RetainedLogs, t \in PhoebusTopics : \A i \in DOMAIN log[t] :
        log[t][i].op = "State" /\ log[t][i].severity = "OK"
            => ConfigsFor(log[t], log[t][i].device) # {}

\* What operators ask of Controls is published in a form the program reads.
OperatorsAreHeard ==
    \A status \in ControlsInputs :
        IsEnablement(status.state) => status.parses /\ status.source = "Epics"

-----------------------------------------------------------------------------
ToldControls(d) == Effective(controls_view[d]) = Effective(intent[d])

ToldPhoebus(d) == Effective(phoebus_view[d]) = Effective(intent[d])

Remembered(d) == Effective(alarm_states[d]) = Effective(intent[d])

Enables(status, d) == status.device = d /\ IsEnablement(status.state)

\* Where an update of the enablement of a device may be.
StatusWaits(d) == \E i \in DOMAIN controls_topic : Enables(controls_topic[i], d)

ControlsHolds(d, stages) == controls_task.pc \in stages /\ Enables(controls_task.alarm, d)

RecordWaits(d) == \E t \in MonitoredTopics : ConfigsFor(phoebus_topics[t], d) # {}

MonitorHolds(d, stages) ==
    \E t \in MonitoredTopics : monitors[t].pc \in stages /\ Configures(monitors[t].msg, d)

\* The records of a snapshot whose states are still to be recorded.
Unapplied ==
    IF hydration.pc = "apply" THEN hydration.messages
    ELSE IF hydration.pc = "update" THEN Tail(hydration.messages) ELSE <<>>

Hydrates(d) == ConfigsFor(Unapplied, d) # {}

Scopes(d) == hydration.pc = "update" /\ Head(hydration.messages).device = d

Underway(d) ==
    \/ StatusWaits(d)
    \/ ControlsHolds(d, {"lookup", "publish", "record"})
    \/ RecordWaits(d)
    \/ MonitorHolds(d, {"policy", "rpc", "record"})
    \/ Hydrates(d)

\* The enablement of a device is remembered when it is in scope, or about to be.
IsKnown(d) ==
    \/ metadata_cache[d] # None
    \/ alarm_states[d] # None /\ IsEnablement(alarm_states[d].state)

-----------------------------------------------------------------------------
\* An update under way has been told to the system that it comes from.
SourcesTold(d) ==
    /\ StatusWaits(d) \/ ControlsHolds(d, {"lookup", "publish", "record"}) => ToldControls(d)
    /\ RecordWaits(d) \/ MonitorHolds(d, {"policy", "rpc", "record", "update"})
          => ToldPhoebus(d)

\* A task that is to record an enablement has told the other system, and what it
\* records is what was asked for.
ControlsMirrors(d) ==
    /\ ControlsHolds(d, {"lookup"}) =>
          controls_task.observed = alarm_states[d] \/ Remembered(d)
    /\ ControlsHolds(d, {"record"}) =>
          ToldPhoebus(d) /\ Effective(from_status(controls_task.alarm)) = Effective(intent[d])
    /\ controls_task.pc \in {"publish", "record"} /\ controls_task.alarm.device = d =>
          metadata_cache[d] # None /\ controls_task.metadata.topic \in PhoebusTopics

MonitorMirrors(task, d) ==
    task.pc \in {"record", "update"} /\ Configures(task.msg, d) =>
        /\ task.pc = "record" =>
              ToldControls(d) /\ Effective(task.updated) = Effective(intent[d])
        /\ task.pc = "update" => ToldControls(d) /\ Remembered(d)

\* What is remembered is what each system was told, unless that system has been
\* told something newer; and if it is not what was asked for, that is under way.
KnownIsTold(d) ==
    IsKnown(d) =>
        /\ Effective(controls_view[d]) = Effective(alarm_states[d]) \/ ToldControls(d)
        /\ Effective(phoebus_view[d]) = Effective(alarm_states[d]) \/ ToldPhoebus(d)
        /\ Remembered(d) \/ Underway(d)

\* A device whose enablement is remembered is in scope, or about to be.
KnownIsScoped(d) ==
    IsKnown(d) =>
        metadata_cache[d] # None \/ MonitorHolds(d, {"update"}) \/ Scopes(d) \/ Hydrates(d)

\* A device Phoebus has configured is in scope, or about to be.
ConfiguredIsScoped(d) ==
    phoebus_view[d] # None =>
        \/ metadata_cache[d] # None
        \/ RecordWaits(d) \/ MonitorHolds(d, {"policy", "rpc", "record", "update"})
        \/ Scopes(d) \/ Hydrates(d)
        \/ /\ hydration.pc # "done"
           /\ \E i \in DOMAIN hydration.todo :
                 /\ ConfigsFor(retained[hydration.todo[i]], d) # {}
                 /\ i = 1 => hydration.pc = "snapshot"

LastShows(records, d) ==
    \A i \in DOMAIN records :
        IsLastConfig(i, records, d) => Shown(records[i].enabled) = intent[d]

\* During the startup pass the logs say what was asked for, which both systems know.
LogsShowIntent(d) ==
    hydration.pc # "done" =>
        /\ controls_view[d] = intent[d] /\ phoebus_view[d] = intent[d]
        /\ \A t \in PhoebusTopics : LastShows(retained[t], d)
        /\ LastShows(Unapplied, d)
        /\ Scopes(d) => IsKnown(d)
        /\ (\E i \in DOMAIN Unapplied : /\ Unapplied[i].op = "State"
                                        /\ Unapplied[i].severity = "OK" /\ Unapplied[i].device = d)
              => metadata_cache[d] # None \/ Scopes(d) \/ Hydrates(d)

SettlesFor(d) ==
    /\ SourcesTold(d)
    /\ ControlsMirrors(d)
    /\ \A t \in MonitoredTopics : MonitorMirrors(monitors[t], d)
    /\ KnownIsTold(d)
    /\ KnownIsScoped(d)
    /\ ConfiguredIsScoped(d)
    /\ LogsShowIntent(d)

HeardStatuses ==
    \A i \in DOMAIN controls_topic :
        IsEnablement(controls_topic[i].state)
            => controls_topic[i].parses /\ controls_topic[i].source = "Epics"

\* Until something fails, whatever is not as it was asked for is being corrected.
CorrectionUnderway ==
    faults = 0 => HeardStatuses /\ \A d \in Device : SettlesFor(d)

=============================================================================
