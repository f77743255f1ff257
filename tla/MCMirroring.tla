----------------------------- MODULE MCMirroring -----------------------------
(***************************************************************************)
(* The instances in which operators act one at a time.                     *)
(***************************************************************************)
EXTENDS MCSynchronizer, Settling

\* What the theorems about agreement suppose is true of these instances.
ASSUME SurroundingsAssumption ==
    OneTopicEach /\ WellNamedTopics /\ ConfiguredAlike /\ StatesAreConfigured /\ OperatorsAreHeard

=============================================================================
