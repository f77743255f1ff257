----------------------------- MODULE Environment -----------------------------
(***************************************************************************)
(* What surrounds the synchronizer, modelled from how its code uses it:    *)
(* the Kafka topics it reads and writes, the Controls alarm service behind *)
(* the gRPC client, the clock, and the operators of the two systems.       *)
(*                                                                         *)
(* A topic is the queue of records no task has read yet.  controls_view    *)
(* and phoebus_view say what each system believes of the enablement of a   *)
(* device: the last bypass or unbypass published in it.  phoebus_specific  *)
(* is the rest of the last config of the device in each topic: the         *)
(* settings the alarm server of that topic works with.                     *)
(***************************************************************************)
EXTENDS SharedCaches, FiniteSets

CONSTANTS
    RetainedLogs,     \* what the configured topics may hold when the program starts
    ControlsInputs,   \* Status records Controls may publish by itself
    PhoebusInputs,    \* <<topic, record>> pairs Phoebus may publish by itself
    MaxNow,           \* bound on the clock
    MaxActions,       \* bound on what operators and alarms do
    MaxFaults,        \* bound on lost or repeated records, failed calls, closed streams
    Paced             \* TRUE: operators wait until the last action has settled

VARIABLES
    retained,         \* configured topic -> records in it at startup
    controls_topic,   \* records of the Controls topic not yet read
    phoebus_topics,   \* monitored topic -> records not yet read
    controls_view,    \* device -> enablement Controls last published, or None
    phoebus_view,     \* device -> enablement Phoebus was last sent, or None
    phoebus_specific, \* topic -> device -> settings in its last config there, or None
    now, actions, faults

topics == <<controls_topic, phoebus_topics>>
phoebus_side == <<phoebus_view, phoebus_specific>>
views == <<controls_view, phoebus_side>>
external == <<retained, topics, views, now, actions, faults>>

ASSUME EnvironmentAssumption ==
    /\ RetainedLogs \subseteq [PhoebusTopics -> Seq(PhoebusMsg)]
    /\ ControlsInputs \subseteq Status
    /\ PhoebusInputs \subseteq MonitoredTopics \X PhoebusMsg
    /\ MaxNow \in Nat /\ MaxActions \in Nat /\ MaxFaults \in Nat
    /\ Paced \in BOOLEAN

\* What operators do has not been mirrored yet.
ASSUME ActionAssumption ==
    /\ \A status \in ControlsInputs : status.hops = 0
    /\ \A input \in PhoebusInputs : input[2].hops = 0

IsEnablement(state) == state \in {"Bypassed", "Unbypassed"}

\* enabled without the clock: what Phoebus displays until the wake time.
Shown(enabled) ==
    IF enabled.kind = "Active" THEN Plain("Unbypassed")
    ELSE [state |-> "Bypassed", wake |-> enabled.until]

ConfigsFor(records, device) ==
    {i \in DOMAIN records :
        /\ records[i].op = "Config"
        /\ records[i].device = device
        /\ Normalizable(records[i].enabled)}

IsLastConfig(i, records, device) ==
    /\ i \in ConfigsFor(records, device)
    /\ \A j \in ConfigsFor(records, device) : j <= i

\* The view of a device at startup: the last config of a topic that has one.
InitialView(device, view) ==
    IF \E t \in PhoebusTopics : ConfigsFor(retained[t], device) # {}
    THEN \E t \in PhoebusTopics : \E i \in DOMAIN retained[t] :
            /\ IsLastConfig(i, retained[t], device)
            /\ view = Shown(retained[t][i].enabled)
    ELSE view = None

\* Its settings in a topic at startup.
InitialSpecific(device, t, specific) ==
    IF t \in PhoebusTopics /\ ConfigsFor(retained[t], device) # {}
    THEN \E i \in DOMAIN retained[t] :
            /\ IsLastConfig(i, retained[t], device)
            /\ specific = retained[t][i].specific
    ELSE specific = None

ExternalTypeOK ==
    /\ retained \in [PhoebusTopics -> Seq(PhoebusMsg)]
    /\ controls_topic \in Seq(Status)
    /\ phoebus_topics \in [MonitoredTopics -> Seq(PhoebusMsg)]
    /\ controls_view \in [Device -> Observation]
    /\ phoebus_view \in [Device -> Observation]
    /\ phoebus_specific \in [MonitoredTopics -> [Device -> Specific \cup {None}]]
    /\ now \in Nat /\ actions \in Nat /\ faults \in Nat

\* Both systems start out agreeing.
ExternalInit ==
    /\ retained \in RetainedLogs
    /\ controls_topic = <<>>
    /\ phoebus_topics = [t \in MonitoredTopics |-> <<>>]
    /\ phoebus_specific \in [MonitoredTopics -> [Device -> Specific \cup {None}]]
    /\ \A t \in MonitoredTopics, d \in Device : InitialSpecific(d, t, phoebus_specific[t][d])
    /\ phoebus_view \in [Device -> Observation]
    /\ \A d \in Device : InitialView(d, phoebus_view[d])
    /\ controls_view = phoebus_view
    /\ now = 0 /\ actions = 0 /\ faults = 0

Fault == faults < MaxFaults /\ faults' = faults + 1

NoFault == UNCHANGED faults

-----------------------------------------------------------------------------
(* Records written to the two systems.                                     *)

PublishStatus(status) ==
    /\ controls_topic' = Append(controls_topic, status)
    /\ controls_view' = IF IsEnablement(status.state)
                        THEN [controls_view EXCEPT ![status.device] = from_status(status)]
                        ELSE controls_view

PublishPhoebus(topic, msg) ==
    /\ phoebus_topics' = [phoebus_topics EXCEPT ![topic] = Append(@, msg)]
    /\ IF msg.op = "Config" /\ Normalizable(msg.enabled)
       THEN /\ phoebus_view' = [phoebus_view EXCEPT ![msg.device] = Shown(msg.enabled)]
            /\ phoebus_specific' = [phoebus_specific EXCEPT ![topic][msg.device] = msg.specific]
       ELSE UNCHANGED phoebus_side

\* The Controls service carries out a command and reports the new state.
ServeCommand(device, updated, hops) ==
    PublishStatus([parses |-> TRUE, source |-> "Epics", device |-> device,
                   state |-> updated.state, wake |-> updated.wake, hops |-> NextHop(hops)])

\* A new subscription starts at the first record not yet read or, after a
\* loss, at a later one.
From(queue, n) == SubSeq(queue, n, Len(queue))

ResumeAt(n) == IF n = 1 THEN NoFault ELSE Fault

\* A record taken from a queue is gone or, once more than it should, delivered again.
TakenFrom(queue, rest) ==
    \/ rest = Tail(queue) /\ NoFault
    \/ rest = queue /\ Fault

-----------------------------------------------------------------------------
(* What the two systems and the clock do by themselves.                    *)

ControlsActs(status) ==
    /\ status \in ControlsInputs
    /\ PublishStatus(status)
    /\ UNCHANGED <<phoebus_topics, phoebus_side>>

PhoebusActs(input) ==
    /\ input \in PhoebusInputs
    /\ PublishPhoebus(input[1], input[2])
    /\ UNCHANGED <<controls_topic, controls_view>>

Tick ==
    /\ now < MaxNow
    /\ now' = now + 1
    /\ UNCHANGED <<retained, topics, views, actions, faults>>

=============================================================================
