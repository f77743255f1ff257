------------------------------ MODULE MCClaims -------------------------------
(***************************************************************************)
(* Instances in which the documented claims fail: one device, no faults.   *)
(***************************************************************************)
EXTENDS MCSynchronizer, DocumentedClaims

\* One side acknowledges, the other bypasses.
BypassStatus == {Alarm("Bypassed", NoWake)}
AcknowledgeRecord == {<<MCCommandTopic, Command("acknowledge")>>}

\* One side bypasses and unbypasses.
ToggleStatuses == {Alarm("Bypassed", NoWake), Alarm("Unbypassed", NoWake)}

\* An operator bypasses an alarm and edits its settings.
EditRecords == {<<MCTopic, Config(Bypassed, plain)>>}

\* The alarm server of one topic edits, an operator of Controls unbypasses.
OtherTopics == << <<stem, 0>>, <<other, 0>> >>
UnbypassStatus == {Alarm("Unbypassed", NoWake)}
OtherRecords == {<<MCTopic, Config(Bypassed, limits)>>}

\* Each topic has a config of the device, with settings of its own.
ConfiguredInBoth ==
    {[t \in PhoebusTopics |-> <<Config(Active, IF t = MCTopic THEN limits ELSE plain)>>]}

\* The state of a device is known, its config is published later.
KnownByState == {[t \in PhoebusTopics |-> <<Severity("OK")>>]}
FirstConfig == {<<MCTopic, Config(Active, plain)>>}

NoStatuses == {}
NoRecords == {}

=============================================================================
