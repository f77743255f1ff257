----------------------------- MODULE AlarmMirror -----------------------------
(***************************************************************************)
(* What an operator may expect of the synchronizer, without tasks, topics  *)
(* or caches: two systems that each believe something of every alarm, and  *)
(* what was last asked for in either of them.  Mirroring sets a system to  *)
(* just that and to nothing else; a snooze ends in both systems at once,   *)
(* when its time has come and not before.                                  *)
(***************************************************************************)
EXTENDS Naturals

CONSTANTS
    Device,    \* names of devices
    Time,      \* the times a snooze may last until
    Value,     \* what a system may believe of an alarm
    Snoozed,   \* time -> what it believes of an alarm that is snoozed until then
    Active     \* what becomes of an alarm when its snooze ends

VARIABLES
    clock,
    intent,    \* device -> what was last asked for
    controls,  \* device -> what Controls believes
    phoebus    \* device -> what Phoebus believes

vars == <<clock, intent, controls, phoebus>>

\* All but the snoozes that are over.
Current == Value \ {Snoozed[n] : n \in {m \in Time : m <= clock}}

Init ==
    /\ clock \in Nat
    /\ intent \in [Device -> Current]
    /\ controls = intent
    /\ phoebus = intent

\* An operator changes an alarm in one of the systems.
Act(d, v) ==
    /\ UNCHANGED clock
    /\ intent' = [intent EXCEPT ![d] = v]
    /\ \/ controls' = [controls EXCEPT ![d] = v] /\ UNCHANGED phoebus
       \/ phoebus' = [phoebus EXCEPT ![d] = v] /\ UNCHANGED controls

MirrorToControls(d) ==
    /\ controls' = [controls EXCEPT ![d] = intent[d]]
    /\ UNCHANGED <<clock, intent, phoebus>>

MirrorToPhoebus(d) ==
    /\ phoebus' = [phoebus EXCEPT ![d] = intent[d]]
    /\ UNCHANGED <<clock, intent, controls>>

\* The clock moves on: alarms that were snoozed until now become active.
Tick ==
    LET Over(view, d) == clock' \in Time /\ view[d] = Snoozed[clock']
        After(view) == [d \in Device |-> IF Over(view, d) THEN Active ELSE view[d]]
    IN
    /\ clock' = clock + 1
    /\ intent' = After(intent)
    /\ controls' = After(controls)
    /\ phoebus' = After(phoebus)

Next ==
    \/ \E d \in Device, v \in Current : Act(d, v)
    \/ \E d \in Device : MirrorToControls(d) \/ MirrorToPhoebus(d)
    \/ Tick

Spec == Init /\ [][Next]_vars

=============================================================================
