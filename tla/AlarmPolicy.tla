----------------------------- MODULE AlarmPolicy -----------------------------
(***************************************************************************)
(* The data the two synchronizers share and the pure policy they decide    *)
(* with: the cached state of an alarm, which incoming states it suppresses, *)
(* the conversions between a Controls Status and a Phoebus config, and the *)
(* naming of topics.  Nothing here has a state of its own.                 *)
(***************************************************************************)
EXTENDS Integers, Sequences, Functions

CONSTANTS
    Device,         \* names of EPICS devices
    Path,           \* display paths of a Phoebus key
    Specific,       \* contents of a config beside enabled, host and user
    NoSpecific,     \* the empty content, HashMap::new()
    Time,           \* instants at which a snoozed alarm may wake
    NoWake,         \* wake: None
    BadWake,        \* a Timestamp that chrono cannot represent
    None,           \* no entry in a cache, no message in hand
    TopicNames,     \* stems of topic names
    TopicSeq,       \* SynchronizerConfig.phoebus_topics, in order
    MaxHops         \* bound on the ghost counter of a message's mirrorings

ASSUME TimeAssumption == Time \subseteq Nat
ASSUME WakeAssumption == NoWake \notin Time
ASSUME SpecificAssumption == NoSpecific \in Specific
ASSUME TopicAssumption == TopicSeq \in Seq(TopicNames \X Nat)
ASSUME HopsAssumption == MaxHops \in Nat \ {0}

-----------------------------------------------------------------------------
(* Topics.  A topic name is a stem followed by a number of "Command"s.     *)

Topic == TopicNames \X Nat

PhoebusTopics == Range(TopicSeq)

get_command_topic(topic) == <<topic[1], topic[2] + 1>>

\* strip_suffix takes off one "Command", whoever appended it.
normalize_topic(topic) ==
    IF topic[2] > 0 THEN <<topic[1], topic[2] - 1>> ELSE topic

\* The topics that have a monitor, and the ones that have a publisher: each
\* configured topic and its command topic.
MonitoredTopics == PhoebusTopics \cup {get_command_topic(t) : t \in PhoebusTopics}

-----------------------------------------------------------------------------
(* The state of an alarm.                                                  *)

State == {"Unknown", "Ok", "Alarmed", "Acknowledged", "Bypassed", "Unbypassed"}

Wake == Time \cup {NoWake, BadWake}

CachedState == [state : State, wake : Wake]

Observation == CachedState \cup {None}

Plain(state) == [state |-> state, wake |-> NoWake]

\* Mutant: only a new alarm is kept from a bypassed device.
TransitionForbiddenToAlarmed(observed, incoming) ==
    /\ observed.state = "Bypassed"
    /\ incoming.state = "Alarmed"

is_transition_forbidden(observed, incoming) ==
    /\ observed.state = "Bypassed"
    /\ incoming.state \notin {"Bypassed", "Unbypassed"}

\* Mutant: a repetition of the observed state is no duplicate.
SuppressesForbiddenOnly(observed, incoming) ==
    observed # None /\ is_transition_forbidden(observed, incoming)

\* Mutant: only the states are compared, not the wake times.
SuppressesSameState(observed, incoming) ==
    /\ observed # None
    /\ \/ observed.state = incoming.state
       \/ is_transition_forbidden(observed, incoming)

\* Mutant: a device without an observed state has nothing to change.
SuppressesUnobserved(observed, incoming) ==
    observed # None => observed = incoming \/ is_transition_forbidden(observed, incoming)

suppresses_incoming(observed, incoming) ==
    /\ observed # None
    /\ \/ observed = incoming
       \/ is_transition_forbidden(observed, incoming)

-----------------------------------------------------------------------------
(* Messages.  hops is a ghost: how often the synchronizer has mirrored the *)
(* operator's action that a message stems from, counted up to MaxHops.     *)

Hops == 0 .. MaxHops

NextHop(hops) == IF hops < MaxHops THEN hops + 1 ELSE MaxHops

Status == [parses : BOOLEAN, source : {"Epics", "Acnet"}, device : Device,
           state : State, wake : Wake, hops : Hops]

\* What the enabled field of a config says: a boolean (or null), a time, a
\* string that is neither, or a value no Config can be read from at all.
Enablement ==
    [kind : {"Active", "Bypassed", "Unparsable", "NotJson"}, until : {NoWake}]
        \cup [kind : {"SnoozedUntil"}, until : Time]

CommandMsg == [op : {"Command"}, device : Device,
               command : {"acknowledge", "other", "malformed"}, hops : Hops]

ConfigMsg == [op : {"Config"}, device : Device, path : Path,
              enabled : Enablement, specific : Specific, hops : Hops]

StateMsg == [op : {"State"}, device : Device,
             severity : {"ACK", "ALARM", "OK", "OTHER", "NONE"}, hops : Hops]

\* A record without a key, or with a key that Key::parse rejects.
BadKeyMsg == [op : {"BadKey"}, hops : Hops]

PhoebusMsg == CommandMsg \cup ConfigMsg \cup StateMsg \cup BadKeyMsg

PvMetadata == [specific : Specific, path : Path, topic : Topic]

ASSUME NoneAssumption ==
    /\ None \notin CachedState
    /\ None \notin PvMetadata
    /\ None \notin {"Command", "Config"}

-----------------------------------------------------------------------------
(* Controls to Phoebus.                                                    *)

from_status(status) == [state |-> status.state, wake |-> status.wake]

state_to_operation(state) ==
    IF state = "Acknowledged" THEN "Command"
    ELSE IF state \in {"Bypassed", "Unbypassed"} THEN "Config"
    ELSE None

\* Mutant: the wake time of a snooze is lost.
EnablementWithoutWake(status) ==
    [kind |-> IF status.state = "Bypassed" THEN "Bypassed" ELSE "Active", until |-> NoWake]

\* A wake that is absent or cannot be represented makes a snooze a bypass.
normalized_enablement_from_controls(status) ==
    IF status.state # "Bypassed" THEN [kind |-> "Active", until |-> NoWake]
    ELSE IF status.wake \in Time THEN [kind |-> "SnoozedUntil", until |-> status.wake]
    ELSE [kind |-> "Bypassed", until |-> NoWake]

controls_to_phoebus(status, operation, metadata) ==
    IF operation = "Command"
    THEN [op |-> "Command", device |-> status.device, command |-> "acknowledge",
          hops |-> NextHop(status.hops)]
    ELSE [op |-> "Config", device |-> status.device, path |-> metadata.path,
          enabled |-> normalized_enablement_from_controls(status),
          specific |-> metadata.specific, hops |-> NextHop(status.hops)]

get_topic_for_operation(operation, metadata) ==
    IF operation = "Command" THEN get_command_topic(metadata.topic) ELSE metadata.topic

-----------------------------------------------------------------------------
(* Phoebus to Controls.                                                    *)

\* Only these three kinds of enabled have a meaning.
Normalizable(enabled) == enabled.kind \in {"Active", "Bypassed", "SnoozedUntil"}

\* A snooze that is over by the time it is read activates the alarm; until is
\* NoWake in a plain bypass.
as_cached_state(enabled, now) ==
    IF \/ enabled.kind = "Active"
       \/ enabled.kind = "SnoozedUntil" /\ enabled.until <= now
    THEN Plain("Unbypassed")
    ELSE [state |-> "Bypassed", wake |-> enabled.until]

severity_to_state(severity) ==
    IF severity = "ACK" THEN "Acknowledged"
    ELSE IF severity = "ALARM" THEN "Alarmed"
    ELSE IF severity = "OK" THEN "Unbypassed"
    ELSE "Unknown"

\* Mutant: the topic is taken as the record's, command topic or not.
FromUnmappedAsRead(config, topic) ==
    [specific |-> NoSpecific, path |-> config.path, topic |-> topic]

from_unmapped(config, topic) ==
    [specific |-> NoSpecific, path |-> config.path, topic |-> normalize_topic(topic)]

=============================================================================
