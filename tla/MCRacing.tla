------------------------------ MODULE MCRacing -------------------------------
(***************************************************************************)
(* The instance in which operators do not wait for the startup pass, nor   *)
(* for each other.                                                         *)
(***************************************************************************)
EXTENDS MCSynchronizer, StartupRace

\* What the theorem about that race supposes is true of this instance.
ASSUME RacingAssumption == WellNamedTopics /\ ConfiguredAlike /\ NoStatusAcknowledges

=============================================================================
