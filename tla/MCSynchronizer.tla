--------------------------- MODULE MCSynchronizer ----------------------------
(***************************************************************************)
(* Small instances of Synchronizer: one device on one configured topic.    *)
(***************************************************************************)
EXTENDS Pacing, Reflection

CONSTANTS d1, stem, other, path1, path2, plain, limits

MCDevice == {d1}
MCTopicSeq == << <<stem, 0>> >>
\* The second topic is named like a command topic.
MCTwoTopics == << <<stem, 0>>, <<other, 1>> >>
MCTopic == <<stem, 0>>
MCCommandTopic == <<stem, 1>>

Active == [kind |-> "Active", until |-> NoWake]
Bypassed == [kind |-> "Bypassed", until |-> NoWake]
Snoozed(t) == [kind |-> "SnoozedUntil", until |-> t]
Kind(k) == [kind |-> k, until |-> NoWake]

Config(enabled, specific) ==
    [op |-> "Config", device |-> d1, path |-> path1, enabled |-> enabled,
     specific |-> specific, hops |-> 0]

Command(command) == [op |-> "Command", device |-> d1, command |-> command, hops |-> 0]

Severity(severity) == [op |-> "State", device |-> d1, severity |-> severity, hops |-> 0]

BadKey == [op |-> "BadKey", hops |-> 0]

Alarm(state, wake) ==
    [parses |-> TRUE, source |-> "Epics", device |-> d1, state |-> state,
     wake |-> wake, hops |-> 0]

MCScoped == {[t \in PhoebusTopics |->
                IF t = MCTopic THEN <<Config(Active, limits)>> ELSE <<>>]}

\* What operators do deliberately: acknowledge, bypass, unbypass, snooze.
OperatorStatuses ==
    {Alarm("Acknowledged", NoWake), Alarm("Unbypassed", NoWake)}
        \cup {Alarm("Bypassed", w) : w \in Wake}
        \cup {Alarm("Unbypassed", t) : t \in Time}

OperatorRecords ==
    {<<MCTopic, Config(e, limits)>> : e \in {Active, Bypassed} \cup {Snoozed(t) : t \in Time}}
        \cup {<<MCTopic, Config(Active, plain)>>, <<MCCommandTopic, Command("acknowledge")>>}

\* A few actions for runs in which operators do not wait for each other.
ConcurrentStatuses == {Alarm("Bypassed", NoWake), Alarm("Unbypassed", NoWake)}

ConcurrentRecords ==
    {<<MCCommandTopic, Config(Snoozed(1), limits)>>, <<MCCommandTopic, Command("acknowledge")>>}

\* Noise, and records that discover the device on the topic with the odd name.
MixedStatuses ==
    {Alarm("Acknowledged", NoWake), Alarm("Bypassed", 1), Alarm("Unbypassed", NoWake),
     Alarm("Alarmed", NoWake),
     [Alarm("Bypassed", NoWake) EXCEPT !.source = "Acnet"],
     [Alarm("Bypassed", NoWake) EXCEPT !.parses = FALSE]}

MixedRecords ==
    {MCTopic} \X {Config(Snoozed(1), limits), Config(Active, plain)}
        \cup {<<other, 1>>} \X {[Config(Active, plain) EXCEPT !.path = path2]}
        \cup {MCCommandTopic} \X
                {Command("acknowledge"), Command("other"), Severity("ACK"), BadKey,
                 Config(Kind("Unparsable"), limits), Config(Kind("NotJson"), limits)}

\* The log of a topic that was not compacted: the device was bypassed, went into alarm
\* and was snoozed.
MCScopedTwice ==
    {[t \in PhoebusTopics |->
        <<Config(Bypassed, plain), Severity("ALARM"), Config(Snoozed(1), limits)>>]}

MCScopedOrNot == MCScoped \cup {[t \in PhoebusTopics |-> <<>>]}

MCStartups == MCScopedTwice \cup {[t \in PhoebusTopics |-> <<>>]}

=============================================================================
