---------------------------- MODULE Synchronizer -----------------------------
(***************************************************************************)
(* The whole program: the Controls-to-Phoebus task, the startup pass and   *)
(* the monitors that follow it, over the shared caches, between the two    *)
(* systems they keep in step.                                              *)
(***************************************************************************)
EXTENDS ControlsSync, PhoebusMonitor, PhoebusInit

vars == <<caches, external, controls_task, monitors, hydration>>

tasks == <<controls_task, monitors, hydration>>

Init ==
    /\ CachesInit
    /\ ExternalInit
    /\ ControlsInit
    /\ MonitorsInit
    /\ HydrationInit

\* Nothing is under way: every task waits for its next record.
Quiet ==
    /\ hydration.pc = "done"
    /\ controls_task.pc = "idle" /\ controls_topic = <<>>
    /\ \A t \in MonitoredTopics : monitors[t].pc = "idle" /\ phoebus_topics[t] = <<>>

\* Nobody but the startup pass has anything to do.
OthersWait ==
    /\ controls_topic = <<>> /\ controls_task.pc \in {"down", "idle"}
    /\ \A t \in MonitoredTopics : phoebus_topics[t] = <<>> /\ monitors[t].pc \in {"down", "idle"}

-----------------------------------------------------------------------------
RunControls == ControlsStep /\ UNCHANGED <<monitors, hydration>>

RunHydration == HydrationStep /\ UNCHANGED <<controls_task, monitors>>

\* Monitors are spawned when the startup pass has returned.
RunMonitor(t) ==
    /\ hydration.pc = "done"
    /\ MonitorStep(t)
    /\ UNCHANGED <<controls_task, hydration>>

\* An operator acts at any time, or waits until the last action has settled.
OperatorTurn ==
    /\ actions < MaxActions
    /\ Paced => Quiet
    /\ actions' = actions + 1
    /\ UNCHANGED <<caches, retained, now, faults, tasks>>

OperatorActs ==
    /\ OperatorTurn
    /\ \/ \E status \in ControlsInputs : ControlsActs(status)
       \/ \E input \in PhoebusInputs : PhoebusActs(input)

ClockTicks == Tick /\ UNCHANGED <<caches, tasks>>

\* With its budgets spent and nothing under way, the program waits for records.
Await ==
    /\ Quiet
    /\ now = MaxNow /\ actions = MaxActions
    /\ UNCHANGED vars

Next ==
    \/ RunControls
    \/ RunHydration
    \/ \E t \in MonitoredTopics : RunMonitor(t)
    \/ OperatorActs
    \/ ClockTicks
    \/ Await

Spec == Init /\ [][Next]_vars

\* Tokio polls every task that can go on; nothing else is assumed to happen.
Fairness ==
    /\ WF_vars(RunControls)
    /\ WF_vars(RunHydration)
    /\ \A t \in MonitoredTopics : WF_vars(RunMonitor(t))

FairSpec == Spec /\ Fairness

-----------------------------------------------------------------------------
\* Every variable keeps the shape its task relies on; in particular a task that
\* is to publish, call, record or update holds what it needs for that.
TypeOK ==
    /\ CachesTypeOK
    /\ ExternalTypeOK
    /\ ControlsTypeOK
    /\ MonitorsTypeOK
    /\ HydrationTypeOK

\* A device in scope always has an observed state: whoever brings it into scope
\* (startup pass or monitor) has recorded its state before, so a decision never
\* finds metadata without the state that duplicate suppression compares with.
ScopeImpliesObserved ==
    \A d \in Device : metadata_cache[d] # None => alarm_states[d] # None

\* Why that holds: a task about to write metadata has recorded the state, and no
\* observed state is ever forgotten.
ScopeInvariant ==
    /\ ScopeImpliesObserved
    /\ \A t \in MonitoredTopics :
          monitors[t].pc = "update" => alarm_states[monitors[t].msg.device] # None
    /\ hydration.pc = "update" => alarm_states[Head(hydration.messages).device] # None

\* No configured topic has a name that normalize_topic shortens to a topic
\* without publishers.
WellNamedTopics == \A t \in MonitoredTopics : normalize_topic(t) \in PhoebusTopics

\* The metadata of a device in scope name a topic the program has publishers
\* for, so a mirrored action is never skipped for want of one.
Routable ==
    \A d \in Device : metadata_cache[d] # None =>
        /\ metadata_cache[d].topic \in MonitoredTopics
        /\ get_command_topic(metadata_cache[d].topic) \in MonitoredTopics

\* Why that holds when topics are well named: metadata, cached or in the hands of
\* a monitor, name a configured topic itself, whose command topic has a publisher.
RoutableInvariant ==
    /\ \A d \in Device : metadata_cache[d] # None =>
          metadata_cache[d].topic \in PhoebusTopics
    /\ \A t \in MonitoredTopics : monitors[t].metadata # None =>
          monitors[t].metadata.topic \in PhoebusTopics

\* What a view amounts to at an instant: a snooze ends by itself, and a wake that
\* cannot be represented never comes.
EffectiveAt(view, n) ==
    IF view = None THEN None
    ELSE IF view.state # "Bypassed" THEN Plain("Unbypassed")
    ELSE IF view.wake \notin Time THEN Plain("Bypassed")
    ELSE IF view.wake > n THEN view ELSE Plain("Unbypassed")

Effective(view) == EffectiveAt(view, now)

\* Once every action has settled, Controls and Phoebus agree on which devices
\* in scope are bypassed and until when.
Agreement ==
    Quiet => \A d \in Device : metadata_cache[d] # None =>
                Effective(controls_view[d]) = Effective(phoebus_view[d])

\* Once every action has settled, what the program remembers of a device in scope
\* is what both systems were last told, so that the next action is compared with
\* the truth: neither dropped as a duplicate nor taken for an echo.
CacheCurrent ==
    Quiet => \A d \in Device : metadata_cache[d] # None =>
                Effective(alarm_states[d]) = Effective(phoebus_view[d])

\* Controls sends no acknowledgements, only enablements.
NoStatusAcknowledges == \A status \in ControlsInputs : status.state # "Acknowledged"

\* An enablement during startup may be recorded by the Controls task and then be
\* overwritten by an older config of the snapshot, or the other way round; its
\* echo reaches the monitors all the same and sets that right. The hypothesis is
\* needed: an acknowledgement in Controls that is recorded over the bypass of a
\* config the startup pass applied meanwhile has no echo that sets it right.
StartupRaceHeals == NoStatusAcknowledges /\ actions <= 1 /\ faults = 0 => CacheCurrent

\* Once every action has settled, every device Phoebus has configured is in scope,
\* whether its config was there at startup or came later.
ScopeComplete ==
    Quiet => \A d \in Device : phoebus_view[d] # None => metadata_cache[d] # None

\* What a status has become when it is back: published in Phoebus, read there and
\* told to Controls again.
Echo(status) ==
    IF status.state = "Acknowledged" THEN Plain("Acknowledged")
    ELSE as_cached_state(normalized_enablement_from_controls(status), 0)

\* Controls gives a wake time to a snooze only, one to come that can be represented:
\* the echo of a status is that status.
StatusesEchoed ==
    \A status \in ControlsInputs :
        state_to_operation(status.state) # None => Echo(status) = from_status(status)

\* While the clock stands still, an action is mirrored at most three times: to the
\* other system, back when its echo overtakes the recording of the observed state,
\* and once more when it came on another topic.  A status that is not its own echo
\* is mirrored once more.  Failed calls and repeated records do not add to that.
ReflectionBounded ==
    LET bound == IF StatusesEchoed THEN 3 ELSE 4 IN
    now = 0 =>
        /\ \A i \in DOMAIN controls_topic : controls_topic[i].hops <= bound
        /\ \A t \in MonitoredTopics : \A i \in DOMAIN phoebus_topics[t] :
              phoebus_topics[t][i].hops < bound

\* Updates under way: the places of the records not yet read, and the tasks that
\* have read one and may still mirror it.
Updates ==
    {<<"status", i>> : i \in DOMAIN controls_topic}
        \cup {<<"mirroring", s>> : s \in {controls_task.pc} \cap {"lookup", "publish"}}
        \cup (UNION {{<<"record", <<t, i>>>> : i \in DOMAIN phoebus_topics[t]} :
                        t \in MonitoredTopics})
        \cup {<<"relaying", t>> :
                t \in {u \in MonitoredTopics : monitors[u].pc \in {"policy", "rpc"}}}

\* Even with operators on both sides acting at once, mirroring does not multiply:
\* there is one update under way for an action, and one more for a failed call
\* that had reached Controls.
NoAmplification == Cardinality(Updates) <= actions + faults

\* While operators act one at a time, there is a single update under way however
\* often the action is mirrored, and one more for each failure or repetition.
SingleUpdate == Paced => Cardinality(Updates) <= 1 + faults

\* A bypassed device stays bypassed or is unbypassed.
LeavesBypassExplicitly(d) ==
    alarm_states[d] # None /\ alarm_states[d].state = "Bypassed"
        => alarm_states'[d].state \in {"Bypassed", "Unbypassed"}

\* The observed state of a bypassed device changes only to another bypass or by
\* an explicit unbypass, whatever acknowledgements are under way.
BypassLeftExplicitly == [][\A d \in Device : LeavesBypassExplicitly(d)]_vars

\* The same of the startup pass, beside which operators may act at any time and the
\* Controls task records what they do: a severity in the snapshot never replaces a
\* bypass, be it one that was recorded only while the record was being applied.  An
\* acknowledgement in Controls may: see StartupRaceHeals.
BypassKeptAtStartup ==
    [][NoStatusAcknowledges /\ hydration.pc # "done" =>
          \A d \in Device : LeavesBypassExplicitly(d)]_vars

\* Once every action has settled, the metadata of a device are the settings of
\* the last config in its topic, so that the next mirrored enablement repeats them.
MetadataCurrent ==
    Quiet => \A d \in Device : metadata_cache[d] # None =>
                metadata_cache[d].specific = phoebus_specific[metadata_cache[d].topic][d]

\* Where a device is mirrored to.
Route(metadata) == <<metadata.path, metadata.topic>>

\* While operators act one at a time, a device stays in scope after startup and is
\* mirrored to the topic and the path under which it came into scope, also when its
\* metadata have been read before a call and are written back after it, or when it
\* has configs elsewhere.
RouteKept ==
    [][Paced /\ hydration.pc = "done" =>
          \A d \in Device : metadata_cache[d] # None =>
              /\ metadata_cache'[d] # None
              /\ Route(metadata_cache'[d]) = Route(metadata_cache[d])]_vars

\* The Controls task and a monitor give up the state they have taken up to
\* mirror only in the step that records it.
ControlsRecords ==
    controls_task.pc \in {"publish", "record"} /\ controls_task'.pc \notin {"publish", "record"}
        => alarm_states'[controls_task.alarm.device] = from_status(controls_task.alarm)

MonitorRecords(t) ==
    monitors[t].pc \in {"rpc", "record"} /\ monitors'[t].pc \notin {"rpc", "record"}
        => alarm_states'[monitors[t].msg.device] = monitors[t].updated

\* A task that has taken up a state to mirror goes on to other work only with
\* that state recorded, even when the publish or the call failed or there was
\* nowhere to publish to.
RecordsDespiteFailure ==
    [][ControlsRecords /\ \A t \in MonitoredTopics : MonitorRecords(t)]_vars

\* Every burst of actions settles: no update is mirrored back and forth for ever.
Settles == []<>Quiet

=============================================================================
