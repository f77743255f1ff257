---------------------------- MODULE SharedCaches -----------------------------
(***************************************************************************)
(* The two maps behind RwLocks that every task of the program shares: the  *)
(* latest observed state of each device, and the Phoebus metadata that     *)
(* brings a device into scope.  Each operator below is one lock            *)
(* acquisition; what a task does between two of them can interleave with   *)
(* any other task.                                                         *)
(***************************************************************************)
EXTENDS AlarmPolicy

VARIABLES
    alarm_states,    \* device -> latest observed CachedState, or None
    metadata_cache   \* device -> PvMetadata, or None: the device is out of scope

caches == <<alarm_states, metadata_cache>>

CachesTypeOK ==
    /\ alarm_states \in [Device -> Observation]
    /\ metadata_cache \in [Device -> PvMetadata \cup {None}]

CachesInit ==
    /\ alarm_states = [d \in Device |-> None]
    /\ metadata_cache = [d \in Device |-> None]

record_alarm_state(device, state) ==
    alarm_states' = [alarm_states EXCEPT ![device] = state]

\* Mutant: evidence replaces whatever is there.
RecordAnyEvidence(device, state) == record_alarm_state(device, state)

\* Evidence from a state record never replaces a bypass; check and insertion
\* happen under one write lock.
record_startup_state_evidence(device, state) ==
    LET observed == alarm_states[device] IN
    IF observed # None /\ observed.state = "Bypassed"
    THEN UNCHANGED alarm_states
    ELSE record_alarm_state(device, state)

update_cached_metadata(device, metadata) ==
    metadata_cache' = [metadata_cache EXCEPT ![device] = metadata]

=============================================================================
