---------------------------- MODULE ProgramProofs ----------------------------
(***************************************************************************)
(* Starting, cancelling and ending the program adds nothing to what its    *)
(* tasks do, so what is proved of Synchronizer holds of a program that may *)
(* be stopped at any instant; and how it may end.                          *)
(***************************************************************************)
EXTENDS Program, SynchronizerProofs

\* A step of the program is a step of Synchronizer or changes the life cycle only.
LEMMA ProgramStepsOfSynchronizer == [ProgramNext]_program_vars => [Next]_vars
<1> SUFFICES ASSUME [ProgramNext]_program_vars PROVE [Next]_vars
  OBVIOUS
<1>1. CASE ControlsWorks
  BY <1>1 DEF ControlsWorks, Next
<1>2. CASE HydrationWorks
  BY <1>2 DEF HydrationWorks, Next
<1>3. ASSUME NEW t \in MonitoredTopics, MonitorWorks(t) PROVE [Next]_vars
  BY <1>3 DEF MonitorWorks, Next
<1>4. ASSUME NEW t \in MonitoredTopics, MonitorStops(t) PROVE UNCHANGED vars
  BY <1>4 DEF MonitorStops
<1>5. CASE OperatorActs \/ ClockTicks \/ Await
  BY <1>5 DEF Next
<1>6. CASE \/ ControlsStops \/ PhoebusStops \/ PhoebusJoins
           \/ HealthFails \/ HealthEnds \/ HealthStops \/ HealthReports
           \/ CancelListener \/ MainExits
  BY <1>6 DEF ControlsStops, PhoebusStops, PhoebusJoins, HealthFails, HealthEnds, HealthStops,
              HealthReports, CancelListener, MainExits
<1>7. CASE UNCHANGED program_vars
  BY <1>7 DEF program_vars
<1> QED BY <1>1, <1>2, <1>3, <1>4, <1>5, <1>6, <1>7 DEF ProgramNext, ProgramStep

\* Every behaviour of the program is one of Synchronizer, with its invariants.
THEOREM ProgramImplementsSynchronizer == ProgramSpec => Spec
<1>1. ProgramInit => Init
  BY DEF ProgramInit
<1> QED BY <1>1, ProgramStepsOfSynchronizer, PTL DEF ProgramSpec, Spec

\* So a program that is cancelled between any two awaits never leaves a device in
\* scope without its observed state.
THEOREM ProgramKeepsScope == ProgramSpec => []ScopeInvariant
  BY ProgramImplementsSynchronizer, ScopeKept, PTL

-----------------------------------------------------------------------------
(* What each task leaves alone.                                            *)

LEMMA ControlsLeavesHydration == RunControls => UNCHANGED <<monitors, hydration>>
  BY DEF RunControls

LEMMA MonitorLeavesOthers ==
    ASSUME NEW t \in MonitoredTopics, RunMonitor(t)
    PROVE  UNCHANGED <<controls_task, hydration>>
  BY DEF RunMonitor

LEMMA OutsideLeavesTasks == OperatorActs \/ ClockTicks \/ Await => UNCHANGED tasks
  BY DEF OperatorActs, OperatorTurn, ClockTicks, Await, vars, tasks

-----------------------------------------------------------------------------
\* Until it is cancelled the program keeps all its tasks: the invariant is
\* inductive because every step that gives one up looks at the token, and
\* because a program has at least one topic to wait for.
THEOREM StopsWhenCancelled == ProgramSpec => []StopsOnlyWhenCancelled
<1>1. ProgramInit => StopsOnlyWhenCancelled
  BY DEF ProgramInit, Init, HydrationInit, StopsOnlyWhenCancelled
<1>2. StopsOnlyWhenCancelled /\ [ProgramNext]_program_vars => StopsOnlyWhenCancelled'
  <2> SUFFICES ASSUME StopsOnlyWhenCancelled, [ProgramNext]_program_vars, ~cancelled'
               PROVE  /\ main' = "joining" /\ running' = {"controls", "phoebus"}
                      /\ watching' = IF hydration'.pc = "done" THEN MonitoredTopics ELSE {}
    BY DEF StopsOnlyWhenCancelled
  <2>1. CASE ~cancelled
    <3>1. /\ main = "joining" /\ running = {"controls", "phoebus"}
          /\ watching = IF hydration.pc = "done" THEN MonitoredTopics ELSE {}
      BY <2>1 DEF StopsOnlyWhenCancelled
    <3>2. MonitoredTopics # {}
      BY SomeTopicAssumption DEF MonitoredTopics
    <3>3. CASE ControlsWorks
      BY <2>1, <3>1, <3>3, ControlsLeavesHydration DEF ControlsWorks
    <3>4. CASE HydrationWorks
      <4>1. hydration.pc # "done"
        BY <3>4 DEF HydrationWorks, RunHydration, HydrationStep, HydrationSnapshot,
                    HydrationApply, HydrationUpdate, HydrationNextTopic, HydrationDone
      <4> QED BY <3>1, <3>4, <4>1 DEF HydrationWorks
    <3>5. ASSUME NEW t \in MonitoredTopics, MonitorWorks(t) \/ MonitorStops(t)
          PROVE  UNCHANGED <<main, running, watching, hydration>>
      BY <2>1, <3>5, MonitorLeavesOthers DEF MonitorWorks, MonitorStops
    <3>6. CASE ControlsStops \/ PhoebusStops \/ HealthStops \/ CancelListener
      BY <2>1, <3>6 DEF ControlsStops, PhoebusStops, HealthStops, CancelListener
    <3>7. CASE PhoebusJoins \/ MainExits
      BY <3>1, <3>2, <3>7 DEF PhoebusJoins, MainExits
    <3>8. CASE HealthFails \/ HealthEnds \/ HealthReports
      BY <3>1, <3>8 DEF HealthFails, HealthEnds, HealthReports, vars
    <3>9. CASE (OperatorActs \/ ClockTicks \/ Await) /\ UNCHANGED lifecycle
      BY <3>1, <3>9, OutsideLeavesTasks DEF lifecycle, tasks
    <3>10. CASE UNCHANGED program_vars
      BY <3>1, <3>10 DEF program_vars, vars, lifecycle
    <3> QED BY <3>1, <3>3, <3>4, <3>5, <3>6, <3>7, <3>8, <3>9, <3>10 DEF ProgramNext, ProgramStep
  <2>2. CASE cancelled
    BY <2>2 DEF ProgramNext, ProgramStep, ControlsWorks, ControlsStops, HydrationWorks,
                MonitorWorks, MonitorStops, PhoebusStops, PhoebusJoins, HealthFails, HealthEnds,
                HealthStops, HealthReports, CancelListener, MainExits, lifecycle, program_vars
  <2> QED BY <2>1, <2>2
<1> QED BY <1>1, <1>2, PTL DEF ProgramSpec

\* The Controls task is never given up with a status in its hands: an update that
\* was published in Phoebus has been recorded when the program ends.
THEOREM ExitIsClean == ProgramSpec => []CleanExit
<1>1. ProgramInit => CleanExit
  BY DEF ProgramInit, CleanExit
<1>2. CleanExit /\ [ProgramNext]_program_vars => CleanExit'
  <2> SUFFICES ASSUME CleanExit, [ProgramNext]_program_vars PROVE CleanExit'
    OBVIOUS
  <2>a. ASSUME UNCHANGED controls_task, "controls" \in running => "controls" \in running'
        PROVE  CleanExit'
    BY <2>a DEF CleanExit
  <2>1. CASE ControlsWorks
    BY <2>1 DEF ControlsWorks, CleanExit
  <2>2. CASE ControlsStops
    BY <2>2 DEF ControlsStops, CleanExit, vars
  <2>3. CASE HydrationWorks
    BY <2>a, <2>3 DEF HydrationWorks, RunHydration
  <2>4. ASSUME NEW t \in MonitoredTopics, MonitorWorks(t) \/ MonitorStops(t)
        PROVE  CleanExit'
    BY <2>a, <2>4, MonitorLeavesOthers DEF MonitorWorks, MonitorStops, vars
  <2>5. CASE PhoebusStops \/ PhoebusJoins
    BY <2>a, <2>5 DEF PhoebusStops, PhoebusJoins, vars
  <2>6. CASE HealthFails \/ HealthEnds \/ HealthStops \/ HealthReports \/ CancelListener
    BY <2>a, <2>6 DEF HealthFails, HealthEnds, HealthStops, HealthReports, CancelListener, vars
  <2>7. CASE MainExits
    BY <2>a, <2>7 DEF MainExits, vars
  <2>8. CASE (OperatorActs \/ ClockTicks \/ Await) /\ UNCHANGED lifecycle
    BY <2>a, <2>8, OutsideLeavesTasks DEF lifecycle, tasks
  <2>9. CASE UNCHANGED program_vars
    BY <2>a, <2>9 DEF program_vars, vars, lifecycle
  <2> QED BY <2>1, <2>2, <2>3, <2>4, <2>5, <2>6, <2>7, <2>8, <2>9 DEF ProgramNext, ProgramStep
<1> QED BY <1>1, <1>2, PTL DEF ProgramSpec

=============================================================================
