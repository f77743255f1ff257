-------------------------- MODULE DocumentedClaims ---------------------------
(***************************************************************************)
(* What comments and the README of the program say of it and the program   *)
(* does not do.  The run that checks a claim ends with the behaviour that  *)
(* contradicts it.  Most claims are properties stated elsewhere, which     *)
(* hold under conditions the docs do not name: BypassLeftExplicitly        *)
(* (models/cache/mod.rs:179-180), Settles (README on loop prevention),     *)
(* Agreement and ScopeComplete hold while operators act one at a time      *)
(* after startup; ShutdownReported is in Program.                          *)
(***************************************************************************)
EXTENDS Synchronizer

\* models/phoebus/mod.rs:112 and :245: mirroring an enablement into a topic does
\* not erase the other settings of the device's last config there.
ConfigPreserved ==
    [][\A t \in MonitoredTopics, d \in Device :
          RunControls /\ phoebus_specific[t][d] # None
              => phoebus_specific'[t][d] = phoebus_specific[t][d]]_vars

=============================================================================
