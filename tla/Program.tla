------------------------------- MODULE Program -------------------------------
(***************************************************************************)
(* The life of the process: the tasks main starts and waits for, the       *)
(* monitors the Phoebus synchronizer spawns and may drop, the health       *)
(* server nobody waits for, and the cancellation token they share.         *)
(***************************************************************************)
EXTENDS Synchronizer

ASSUME SomeTopicAssumption == PhoebusTopics # {}

VARIABLES
    cancelled,   \* the CancellationToken
    running,     \* tasks whose JoinHandle main waits for
    watching,    \* topics with a monitor in the JoinSet
    health,      \* the task of the health server
    main         \* main itself: waiting in try_join!, or returned

lifecycle == <<cancelled, running, watching, health, main>>

program_vars == <<vars, lifecycle>>

LifecycleTypeOK ==
    /\ cancelled \in BOOLEAN
    /\ running \subseteq {"controls", "phoebus"}
    /\ watching \subseteq MonitoredTopics
    /\ health \in {"serving", "stopping", "not_serving", "failed", "ended"}
    /\ main \in {"joining", "exited"}

ProgramInit ==
    /\ Init
    /\ cancelled = FALSE
    /\ running = {"controls", "phoebus"}
    /\ watching = {}
    /\ health = "serving"
    /\ main = "joining"

-----------------------------------------------------------------------------
(* The Controls synchronizer.                                              *)

\* Mutant: the task ends with its stream, cancelled or not.
ControlsWorksOneStream ==
    /\ "controls" \in running
    /\ RunControls
    /\ running' = IF controls_task'.pc = "down" THEN running \ {"controls"} ELSE running
    /\ UNCHANGED <<cancelled, watching, health, main>>

\* After a stream that ended the token is looked at before the next connection.
ControlsWorks ==
    /\ "controls" \in running
    /\ RunControls
    /\ running' = IF cancelled /\ controls_task'.pc = "down"
                  THEN running \ {"controls"} ELSE running
    /\ UNCHANGED <<cancelled, watching, health, main>>

\* Mutant: the token ends the stream, and the task connects again.
ControlsReconnects ==
    /\ "controls" \in running
    /\ cancelled
    /\ controls_task.pc = "idle"
    /\ controls_task' = ControlsAt("down")
    /\ UNCHANGED <<caches, external, monitors, hydration, lifecycle>>

\* Mutant: the token interrupts the work on a status.
ControlsStopsAtOnce ==
    /\ "controls" \in running
    /\ cancelled
    /\ running' = running \ {"controls"}
    /\ UNCHANGED <<vars, cancelled, watching, health, main>>

\* The select of monitor picks the token, even while records are waiting; it is
\* not polled while a record is processed.
ControlsStops ==
    /\ "controls" \in running
    /\ cancelled
    /\ controls_task.pc = "idle"
    /\ running' = running \ {"controls"}
    /\ UNCHANGED <<vars, cancelled, watching, health, main>>

-----------------------------------------------------------------------------
(* The Phoebus synchronizer.                                               *)

\* The monitors are spawned in the step in which the startup pass returns.
HydrationWorks ==
    /\ "phoebus" \in running
    /\ RunHydration
    /\ watching' = IF hydration'.pc = "done" THEN MonitoredTopics ELSE watching
    /\ UNCHANGED <<cancelled, running, health, main>>

MonitorWorks(t) ==
    /\ t \in watching
    /\ RunMonitor(t)
    /\ watching' = IF cancelled /\ monitors'[t].pc = "down" THEN watching \ {t} ELSE watching
    /\ UNCHANGED <<cancelled, running, health, main>>

\* The select of watch_stream picks the token.
MonitorStops(t) ==
    /\ t \in watching
    /\ cancelled
    /\ monitors[t].pc = "idle"
    /\ watching' = watching \ {t}
    /\ UNCHANGED <<vars, cancelled, running, health, main>>

\* Either select of synchronize picks the token: the startup pass or the
\* monitors are dropped wherever they are.
PhoebusStops ==
    /\ "phoebus" \in running
    /\ cancelled
    /\ running' = running \ {"phoebus"}
    /\ watching' = {}
    /\ UNCHANGED <<vars, cancelled, health, main>>

\* join_all returns.
PhoebusJoins ==
    /\ "phoebus" \in running
    /\ hydration.pc = "done"
    /\ watching = {}
    /\ running' = running \ {"phoebus"}
    /\ UNCHANGED <<vars, cancelled, watching, health, main>>

-----------------------------------------------------------------------------
(* The health server, the signal, and main.                                *)

\* Mutant: an error of the health server is only logged.
HealthFailsSilently ==
    /\ health = "serving"
    /\ health' = "failed"
    /\ UNCHANGED <<vars, cancelled, running, watching, main>>

HealthFails ==
    /\ health = "serving"
    /\ health' = "failed"
    /\ cancelled' = TRUE
    /\ UNCHANGED <<vars, running, watching, main>>

\* The server future returns Ok, and nothing is done about it.
HealthEnds ==
    /\ health = "serving"
    /\ health' = "ended"
    /\ UNCHANGED <<vars, cancelled, running, watching, main>>

\* The select picks the token, and the status is set one await later.
HealthStops ==
    /\ health = "serving" /\ cancelled
    /\ health' = "stopping"
    /\ UNCHANGED <<vars, cancelled, running, watching, main>>

HealthReports ==
    /\ health = "stopping"
    /\ health' = "not_serving"
    /\ UNCHANGED <<vars, cancelled, running, watching, main>>

\* ctrl_c.
CancelListener ==
    /\ cancelled' = TRUE
    /\ ~cancelled
    /\ UNCHANGED <<vars, running, watching, health, main>>

\* try_join! has both results; the tasks nobody joins end with the process.
MainExits ==
    /\ running = {}
    /\ main' = "exited"
    /\ UNCHANGED <<vars, cancelled, running, watching, health>>

ProgramStep ==
    \/ ControlsWorks
    \/ ControlsStops
    \/ HydrationWorks
    \/ \E t \in MonitoredTopics : MonitorWorks(t) \/ MonitorStops(t)
    \/ PhoebusStops
    \/ PhoebusJoins
    \/ HealthFails
    \/ HealthEnds
    \/ HealthStops
    \/ HealthReports
    \/ CancelListener
    \/ MainExits
    \/ (OperatorActs \/ ClockTicks \/ Await) /\ UNCHANGED lifecycle

ProgramNext ==
    \/ main = "joining" /\ ProgramStep
    \/ main = "exited" /\ UNCHANGED program_vars

ProgramSpec == ProgramInit /\ [][ProgramNext]_program_vars

\* Tokio polls what can go on.  No signal need ever come and the server need not
\* fail; that a select picks the token in the end matters only where nothing else
\* of the task remains to be done.
ProgramFairness ==
    /\ WF_program_vars(main = "joining" /\ ControlsWorks)
    /\ WF_program_vars(main = "joining" /\ ControlsStops)
    /\ WF_program_vars(main = "joining" /\ HydrationWorks)
    /\ \A t \in MonitoredTopics : WF_program_vars(main = "joining" /\ MonitorWorks(t))
    /\ WF_program_vars(main = "joining" /\ PhoebusStops)
    /\ WF_program_vars(main = "joining" /\ MainExits)

FairProgramSpec == ProgramSpec /\ ProgramFairness

-----------------------------------------------------------------------------
\* Until it is told to stop the program keeps both synchronizers and, once they
\* are spawned, all monitors, however often their streams end.
StopsOnlyWhenCancelled ==
    ~cancelled =>
        /\ main = "joining" /\ running = {"controls", "phoebus"}
        /\ watching = IF hydration.pc = "done" THEN MonitoredTopics ELSE {}

\* The program never ends between the publication of an update in Phoebus and the
\* recording of it, nor with a status taken from the stream and not dealt with.
CleanExit ==
    "controls" \notin running => controls_task.pc \in {"idle", "down"}

\* A cancelled program ends, whatever its tasks are doing and whatever is waiting
\* in the topics.
CancelledEnds == cancelled ~> main = "exited"

\* So does one whose health server has failed.
HealthFailureEnds == health = "failed" ~> main = "exited"

\* A status the Controls task has taken up is dealt with even when the program is
\* told to stop meanwhile; a record in the hands of a monitor, unless it is.
TakenUpIsFinished ==
    /\ controls_task.pc \notin {"down", "idle"} ~> controls_task.pc = "idle"
    /\ \A t \in MonitoredTopics :
          monitors[t].pc \notin {"down", "idle"} ~> (monitors[t].pc = "idle" \/ cancelled)

\* README.md:77 and main.rs:88-91: a program that is stopped has reported
\* NotServing before it ends, if its health server was there to report it.
ShutdownReported == main = "exited" => health \in {"not_serving", "failed", "ended"}

=============================================================================
