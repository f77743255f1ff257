----------------------------- MODULE MCHydration -----------------------------
(***************************************************************************)
(* Every log of up to two records on each of two topics.                   *)
(***************************************************************************)
EXTENDS MCSynchronizer, HydrationResult

StartupRecords ==
    {Config(Active, limits), [Config(Bypassed, plain) EXCEPT !.path = path2],
     Config(Snoozed(0), plain), Config(Snoozed(1), limits), Config(Kind("Unparsable"), plain),
     Severity("ACK"), Severity("OK"), Severity("OTHER"), Severity("NONE"), Command("acknowledge")}

ShortLogs == {<<>>} \cup {<<r>> : r \in StartupRecords} \cup (StartupRecords \X StartupRecords)

AllShortLogs == [PhoebusTopics -> ShortLogs]

Nothing == {}

=============================================================================
