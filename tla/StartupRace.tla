----------------------------- MODULE StartupRace -----------------------------
(***************************************************************************)
(* Why a race of one action with the startup pass heals: as long as the    *)
(* program remembers something else of a device than what Phoebus was last *)
(* sent, a config that corrects it is still to be read.                    *)
(***************************************************************************)
EXTENDS Settling

\* Until the startup pass is done no monitor runs, and what Controls has reported
\* is no acknowledgement.
NothingAcknowledged ==
    hydration.pc # "done" =>
        /\ \A t \in MonitoredTopics : monitors[t].pc = "down"
        /\ StatusesOf(controls_topic, "enablement")
        /\ ControlsTaskOf(controls_task, "enablement")

\* The one action finds nothing under way, whenever it is taken.
OneTurn ==
    /\ actions = 0 => OthersWait
    /\ OneKind
    /\ \A t \in MonitoredTopics : HoldsItsKind(monitors[t])
    /\ NothingAcknowledged
    /\ AcknowledgesActive

\* A config not yet read, or in the hands of a monitor until that has recorded it,
\* is what Phoebus was last sent; and a task records what was asked for.
ConfigsTold(d) ==
    /\ RecordWaits(d) => ToldPhoebus(d)
    /\ MonitorHolds(d, {"policy", "rpc", "record"}) => ToldPhoebus(d)
    /\ ControlsHolds(d, {"record"}) => ToldPhoebus(d)
    /\ ControlsHolds(d, {"record"}) =>
          Effective(from_status(controls_task.alarm)) = Effective(intent[d])
    /\ \A t \in MonitoredTopics :
          monitors[t].pc = "record" /\ Configures(monitors[t].msg, d) =>
              Effective(monitors[t].updated) = Effective(intent[d])

\* The Controls task mirrors the state of devices in scope only.
MirrorsScoped(d) ==
    controls_task.pc \in {"publish", "record"} /\ controls_task.alarm.device = d =>
        metadata_cache[d] # None /\ controls_task.metadata.topic \in PhoebusTopics

EntersScope(d) == metadata_cache[d] # None \/ Scopes(d) \/ MonitorHolds(d, {"update"})

\* A config of the device that is still to be recorded.
Corrects(d) ==
    RecordWaits(d) \/ MonitorHolds(d, {"policy", "rpc", "record"}) \/ Hydrates(d)

CacheCorrected(d) ==
    EntersScope(d) => Effective(alarm_states[d]) = Effective(phoebus_view[d]) \/ Corrects(d)

LastIs(records, d, view) ==
    \A i \in DOMAIN records : IsLastConfig(i, records, d) => Shown(records[i].enabled) = view

\* Unless a config has been published since, the logs that the startup pass has still
\* to go through end with what Phoebus displays.
LogsShowView(d) ==
    hydration.pc # "done" /\ ~RecordWaits(d) =>
        /\ \A t \in PhoebusTopics : LastIs(retained[t], d, phoebus_view[d])
        /\ LastIs(Unapplied, d, phoebus_view[d])

HealsFor(d) ==
    /\ ConfigsTold(d)
    /\ MirrorsScoped(d)
    /\ CacheCorrected(d)
    /\ LogsShowView(d)

\* A single enablement may be recorded while the startup pass is applying what the
\* topics held before; nothing is remembered wrongly then but what a config in a
\* topic, or in the hands of the pass or of a monitor, will set right.
HealingUnderway ==
    NoStatusAcknowledges /\ actions <= 1 /\ faults = 0 =>
        OneTurn /\ \A d \in Device : HealsFor(d)

=============================================================================
