# A TLA+ model of the alarms synchronizer

The synchronizer keeps two alarm systems in step. Controls reports every change of
an alarm as a `Status` on a Kafka topic and takes commands over gRPC; Phoebus
keeps configs, states and commands on Kafka topics and is told of changes by
publishing there. The program mirrors acknowledgements, bypasses, unbypasses and
snoozes from either side to the other, and everything it mirrors comes back to
it as an update: what it remembers of a device decides whether that update is an
echo or new work. This directory models that program from start to shutdown, states
what operators may expect of it as an abstract specification, checks the model with
TLC and proves with TLAPS every safety property of the runs: among them the implementation of the
abstract specification, that both systems and the caches agree once all has settled, and that
mirroring an action comes to an end. Paths below are relative to
`src/src/` unless they begin with `README`.

## Inventory

| Component | Source | State | Operations | What makes it correct |
|---|---|---|---|---|
| observed-state cache | `models/cache` | device → last observed state, behind an `RwLock` | read policy, record, record startup evidence | a bypass is left only explicitly; echoes are recognised; evidence never replaces a bypass |
| metadata scope | `models/metadata` | device → settings, path, topic, behind an `RwLock` | lookup, update | a device is in scope only with an observed state; the topic has a publisher; the settings are the last ones |
| conversions | `models/phoebus`, `controls/transform`, `utils` | none | parse and normalise, config ↔ state, topic names | a mirrored update means the same on the other side and on its way back |
| Controls-to-Phoebus task | `controls` | the status in hand | connect, receive, decide, publish, record | every accepted action is published at most once and recorded |
| Phoebus monitors | `phoebus/monitor` | per topic: the record in hand | connect, receive, decide, call, record, update metadata | the same in the other direction |
| gRPC client | `phoebus/sync` | none | four commands, one retry | a failed call is made once more, not more often |
| startup hydration | `phoebus/init` | the topic and record it is at | snapshot, apply config, apply state | caches hold what the documentation promises |
| Phoebus synchronizer | `phoebus` | monitors spawned or not | hydrate, spawn, wait | monitors start after hydration |
| main | `main.rs`, `models/config` | which tasks are running | spawn, join | returns when both synchronizers have ended, and not before |
| health server, cancellation | `main.rs` | health status, the `CancellationToken` | serve, fail, end, report, cancel | a fatal error or Ctrl+C ends every task; no update is left half done |
| outcomes | `models/outcomes` | none | values that are only logged | — |

The Controls task, the startup pass and the monitors (two per configured topic,
for it and its command topic) are Tokio tasks. They share the two caches and
nothing else, take each lock for one read or one write, and await a lock, a
publish or an RPC between any two accesses. That is where the hard behaviour is:
a decision taken on what was read before an await, recorded after another; the
echo of an update that overtakes the recording of it; calls that fail after they
took effect; streams that close and lose records; a startup pass that runs beside
a task which already mirrors; a clock that turns a snooze into an activation; and a
token that can be cancelled between any two of these steps. `PROJECT.json` lists these hazards at their lines, with the
properties that would show them going wrong.

## Modules

| Module | Models | State |
|---|---|---|
| `AlarmPolicy` | the data and the pure functions | — |
| `SharedCaches` | the two maps and the three writes to them | `alarm_states`, `metadata_cache` |
| `Environment` | Kafka, the Controls service, operators, clock (external) | unread records per topic, what each system believes, `now`, budgets |
| `ControlsSync` | `controls::SyncImpl` | `controls_task` |
| `PhoebusMonitor` | `phoebus::monitor::Monitor` and the gRPC client | `monitors` |
| `PhoebusInit` | `phoebus::init` | `hydration` |
| `Synchronizer` | the composition, and the properties | all of the above |
| `Program` | the life of the process: `main`, health server, cancellation, shutdown, around `Synchronizer` | `cancelled`, `running`, `watching`, `health`, `main` |
| `AlarmMirror` | abstract specification: what operators may expect, without tasks, topics or caches | `clock`, `intent`, `controls`, `phoebus` |
| `Mirroring` | `Synchronizer` with the history variable `intent`, and the refinement of `AlarmMirror` | `intent` |
| `HydrationResult` | a reference definition of what hydration should leave behind, and what it is at each point of the pass | — |
| `DocumentedClaims` | sentences of the docs that the code contradicts | — |
| `Pacing` | what is under way, and of which kind, while operators wait for each other: an inductive invariant | — |
| `Settings` | where the settings of a device are until they are cached, and where it may be mirrored to: two inductive invariants | — |
| `Reflection` | the state that everything under way for a device leads to: an inductive invariant | — |
| `Settling` | where the update is that corrects what the program remembers wrongly: an inductive invariant | — |
| `StartupRace` | which config corrects the cache after a race of one action with the startup pass: an inductive invariant | — |
| `MCSynchronizer`, `MCRacing`, `MCMirroring`, `MCHydration`, `MCProgram`, `MCClaims` | the instances TLC runs | — |
| `SynchronizerProofs` | theorems: types, scope, recording, routing | — |
| `UnderwayProofs`, `SettingsProofs`, `HydrationProofs` | theorems: mirroring does not multiply and ends, bypasses; settings and routes; the startup pass, and an action that races with it | — |
| `MirroringProofs`, `SettlingProofs`, `AgreementProofs` | theorems: the refinement; agreement (`SettlingProofs` has the steps of the tasks, `AgreementProofs` the startup pass, the operators and the theorems) | — |
| `ProgramProofs` | theorems: the lifecycle | — |

A step of the model is what a task does between two awaits. The stages of
`controls_task` are `idle → lookup → publish → record → idle`: the observed state
is read on leaving `idle`, the metadata on leaving `lookup`, the record is
published on leaving `publish` and the cache written on leaving `record`
(`controls/mod.rs:134-189`). The stages of a monitor are
`idle → rpc → record → idle` for a command and
`idle → policy → rpc → record → update → idle` for a config
(`phoebus/monitor/mod.rs:105-211`). `down` is the second before a new connection.
Taking a record from its stream and the first read of a cache are one step: only
the task itself takes records from its stream.

A device, a path and the settings of a config are model values. A topic is a stem
and the number of times `Command` was appended to it, which is what
`get_command_topic` and `normalize_topic` can tell apart. The `enabled` field of a
config is one of the cases it is normalised into (active, bypassed, snoozed until a
time), or does not parse, or makes the whole value unreadable. Wake times are
small numbers, with a value for "none" and one for a timestamp chrono rejects.
User and host are left out: no decision reads them.

Two kinds of state have no counterpart in the program. `controls_view`,
`phoebus_view` and `phoebus_specific` say what each system was last told, the settings
per topic, so that agreement can be stated. `hops`, in every record, counts how often the program has
mirrored the action a record stems from; it is capped at `MaxHops`.

`Program` adds to each task what the token does to it. The Controls task and a monitor
look at it in the `select!` of their stream (`ControlsStops`, `MonitorStops`) and once
more when a stream has ended (`ControlsWorks`, `MonitorWorks`), never while they process
a record. The Phoebus synchronizer is different: its own `select!` drops the startup
pass or all monitors wherever they are (`PhoebusStops`, `phoebus/mod.rs:40` and `:63`).
The health server is a task nobody joins: it fails (and cancels), ends quietly, or sees
the token and reports `NotServing` one await later. `MainExits` is `try_join!`; what is
still running then ends with the process.

Four assumptions about the surroundings are taken from how the code uses them:
a call the Controls service carries out is reported by it as a `Status` (else there
would be no echo to resist); every subscription starts at the first record not yet
read, or at a later one after a loss, and a record may be delivered again straight after
itself; connecting ends (`get_stream` returns, with a stream that may close at once); both systems agree
when the program starts.

Operators called after a mistake (`ForgetToRecord`, `SuppressesUnobserved`, …) are
altered copies of the definition that follows them. None is part of the model: each
shows that a property notices that mistake.

## What the runs check

Every run has one device. Two devices never meet in the program: all state is per
device except the order within a topic and the stage of a task. The theorems are about any number.

| Run | Instance | Checks | Result |
|---|---|---|---|
| `paced` | one topic, 4 actions, each taken when the last has settled; wake times 0–2 and a clock that runs to 2; no faults | `Agreement`, `CacheCurrent`, `MetadataCurrent`, `ScopeComplete`, `InFlightIntended`, `OnlyIntentIsMirrored`, `BypassLeftExplicitly`, `ReflectionBounded`, `Settles`, and the invariants behind the first four: `CorrectionUnderway`, `SettingsUnderway` | hold, 71 000 states |
| `faulty` | two topics, one called like a command topic, that give the device different paths; 2 paced actions including noise, ACNET and malformed records; a clock that may end a snooze; 2 faults: failed calls and publishes, closed streams, lost and repeated records | `TypeOK`, `ScopeImpliesObserved`, `ReflectionBounded` and the invariant behind it, `Reflected`; `SingleUpdate`, `RouteKept`, `RecordsDespiteFailure`, `BypassLeftExplicitly`, `TurnsAreTaken`, `Settles` | hold, 162 000 states |
| `concurrent` | one topic, device bypassed, in alarm and then snoozed in its log at startup, or not in it; 2 actions at any time, also during hydration, out of a bypass and an unbypass in Controls, a snooze on the command topic and an acknowledgement in Phoebus; a clock that may end the snooze; 1 fault | `ScopeInvariant`, `Routable`, `NoAmplification`, `StartupRaceHeals`, and the invariant behind it, `HealingUnderway`; `BypassKeptAtStartup` | hold, 1 950 000 states |
| `hydration` | all logs of at most 2 records, out of 10, on each of 2 topics | `HydratedAsPromised`, `AppliedAsPromised` | hold, 838 000 states |
| `program` | one topic, one action, one fault, cancellation or a health server that fails or ends at any instant | `StopsOnlyWhenCancelled`, `CleanExit`, `CancelledEnds`, `HealthFailureEnds`, `TakenUpIsFinished` | hold, 35 000 states |
| `claim_bypass` | one bypass in Controls, one acknowledgement in Phoebus, at once | `BypassLeftExplicitly` | violated |
| `claim_echoes` | bypass and unbypass in Controls, at once | `Settles` | violated |
| `claim_config` | one config that bypasses and edits | `ConfigPreserved` | violated |
| `claim_startup` | one action during startup | `Agreement` | violated |
| `claim_two_topics` | a device with configs on two topics; an edit in one, an unbypass in Controls | `ConfigPreserved` | violated |
| `claim_discovery` | a device known by a state record only; its first config | `ScopeComplete` | violated |
| `claim_not_serving` | as `program` | `ShutdownReported` | violated |

What they show:

- While operators act **one at a time**, the design works: every action reaches
  the other side, its echoes die out (`Settles`), both systems then agree on who is
  bypassed until when (`Agreement`), the caches hold the same (`CacheCurrent`), the
  cached settings are those of the last config (`MetadataCurrent`), and every device
  Phoebus has configured is in scope (`ScopeComplete`). On the way neither system is
  ever told anything but what was last asked for, and a snooze ends when its time has come
  and not before (`OnlyIntentIsMirrored`).
  This holds through expiring snoozes, wake times that cannot be represented and
  statuses with a stray wake time. Four actions are enough to go from any enablement to any other and back with an acknowledgement
  in between.
- **Faults** break agreement (a failed publish is not repeated, by design) but not
  the memory of the program: what a task has taken up is always recorded
  (`RecordsDespiteFailure`), echoes still die out, and while the clock stands still
  no action is mirrored more than three times (`ReflectionBounded`; `MaxHops` is 4,
  so that a fourth would be seen). In `paced` an operator may also publish a status that
  comes back from Phoebus as another state, such as a bypass until a time that is over: that is
  mirrored once more, four times (`MaxHops` is 5 there). A record delivered again or a call
  repeated after it took effect adds one update, not more (`SingleUpdate`), and a device keeps
  the topic and the path under which it came into scope, also when another topic or its
  command topic has a config for it (`RouteKept`). Two faults let one call fail twice, or fail
  once on either side of a lost stream.
- With actions on **both sides at once**, scope and routing remain sound and mirroring
  does not multiply (`NoAmplification`): updates under way are at most as many as
  actions, and one more for a call that failed after it took effect or a record
  delivered again. A single enablement that races with the **startup pass** can be overwritten
  in the cache by an older config of the snapshot; `StartupRaceHeals` shows that the cache
  is right again once all has settled, because the monitors, which start afterwards, read
  the echo. `HealingUnderway` says the same of every state on the way. That holds without faults only: a lost echo would leave the cache wrong. Nor does
  it hold of an acknowledgement in Controls (`NoStatusAcknowledges`): taken up before the startup
  pass applies a bypass, it is recorded over that, and its echo is no enablement. This is the
  defect of `claim_bypass` in the Controls task, which records what it has taken up whatever
  has been recorded since (`controls/mod.rs:168`). What the startup pass itself must not do is
  undo a bypass: state records of the snapshot are checked against the cache while the Controls
  task writes to it, and `BypassKeptAtStartup` fails as soon as the check and the insertion in
  `record_startup_state_evidence` are not under one lock (`CheckThenInsert`). No property of `concurrent` reads `hops`, so its
  `MaxHops` is 1 there.
- **Hydration** does what it promises for every short log, against a definition
  that looks at all records at once. Two records per topic and two topics give
  every order of config and state evidence within a topic and across topics.
  `AppliedAsPromised` says the same at each point of the pass, for the records applied so far.
- **Shutdown**: cancelled wherever its tasks are and whatever waits in the topics, the
  program ends (`CancelledEnds`), also when it is the health server that fails
  (`HealthFailureEnds`), and the Controls task first deals with the status it has taken
  up (`TakenUpIsFinished`, `CleanExit`). A monitor may be dropped in the middle of a
  call, which `TakenUpIsFinished` allows for. Without cancellation nothing ends, however
  often streams close (`StopsOnlyWhenCancelled`). One action and one fault put a task in
  each of its stages when the token is cancelled.

The seven violated claims are listed as findings with the sentence each contradicts.

- `claim_bypass`: a monitor has passed the policy check for an acknowledgement and
  is calling Controls; the Controls task records a bypass; the monitor then records
  `Acknowledged` over it (`phoebus/monitor/mod.rs:134-138`).
- `claim_echoes`: an echo is recognised by being equal to the state recorded last.
  With two opposite updates under way each overwrites what the other would have
  been recognised by, and both go round for ever.
- `claim_config`: the settings of a config are cached only after the RPC it causes
  (`phoebus/monitor/mod.rs:206`). The status Controls reports for that RPC can be
  mirrored before, with the old settings, and reverts the edit in Phoebus. One
  operator and no other action suffice.
- `claim_startup`: the Controls task starts beside the startup pass. A status for a
  device the pass has not reached is out of scope and is dropped; nobody looks at it
  again, and the two systems stay in disagreement.
- `claim_two_topics`: metadata are kept by device. A config on a second topic replaces
  the settings but not topic and path, so the next mirrored enablement writes the
  settings of one topic over those in the other.
- `claim_discovery`: a config is compared with the metadata made up for a device out of
  scope, which have no settings. A first config without settings whose enablement was
  known from startup is taken for a duplicate, and the device is not discovered.
- `claim_not_serving`: `main` joins the synchronizers only, and may return, and end the
  health task, before that has reported `NotServing`. Even when it does report, the
  server future has been dropped by the same `select!`, so no probe can read it; the
  model does not go into that.

Two sentences of the docs are out of date in a way that needs no run: that activation
is local only (`phoebus/monitor/mod.rs:14-16`; the code calls `activate_alarm`, `:179`),
and that Controls states without a Phoebus operation are recorded (`controls/mod.rs:10`;
the code ignores them, `:146`). The model follows the code.

Deadlock is checked in every run. `Await` stands for the program waiting for records
when the budgets of the instance are spent.

### Fairness

`FairSpec` assumes weak fairness of the Controls task, of the startup pass and of
each monitor: Tokio polls a task that can go on, locks are held for a single map
access, and publishes and calls end, in success or failure. Nothing is assumed of
operators or the clock, and no fault is assumed to stay away: faults are bounded
by `MaxFaults`, so that a stream which is closed for ever does not hide the rest.
`FairMirroringSpec` is `FairSpec` with the history variable.

`ProgramFairness` asks the same of the tasks while `main` waits for them, and of the
branches of their `select!`s that look at the token. A `select!` with two ready branches
picks one at random, so a token that stays cancelled is picked in the end; weak fairness
of `PhoebusStops` (always enabled once cancelled) says that, and weak fairness of
`ControlsStops` is enough because the instance has finitely many statuses: in a stream
that never ran dry it would be the random choice that counts. Nothing is assumed of
signals, nor of the health server: it may never fail, and may never get to report.

## What is proved

For every value of the constants that satisfies the assumptions in the modules
(`TimeAssumption`, `WakeAssumption`, `SpecificAssumption`, `TopicAssumption`, `HopsAssumption`,
`NoneAssumption`, `EnvironmentAssumption`, `ActionAssumption`, `OneMonitorAssumption`,
`SomeTopicAssumption`: types, that
`None` is no state, no metadata and no operation, that `NoWake` is no time, that what operators do
has not been mirrored yet, that no topic gets two monitors, and that a topic is configured), so for any number of devices, topics, actions and faults:

- `TypeCorrect`: `Spec => []TypeOK`. The invariant is inductive as it stands, because
  it gives the exact shape of a task at every stage: a task about to publish holds a
  status with a Phoebus operation and metadata, one about to update metadata holds a
  config. The lemmas before it say what the conversions return.
- `ScopeObserved`: `Spec => []ScopeImpliesObserved`. Not inductive alone: a task writes
  metadata one await after it recorded the state. `ScopeInvariant` adds that a monitor
  or the startup pass in stage `update` works on a device with an observed state. That is
  kept because no step forgets an observed state (`StateWrites`, `ObservedStays`), and
  established in one of two ways: the state was just recorded, or the config was
  suppressed, which needs an observed state to compare with. `ScopeKept` is the
  strengthening itself, which `concurrent` checks.
- `Recorded`: `Spec => RecordsDespiteFailure`, from the types and one lemma per task.
- `AlwaysRoutable`: `Spec => []Routable`, if no configured topic has a name that
  `normalize_topic` shortens to one without publishers (`WellNamedTopics`). The
  strengthening, `RoutableInvariant`, says that metadata, cached or held by a monitor,
  name a configured topic. `faulty` runs without the hypothesis and exercises the
  missing publisher.
- `InFlightIsIntended`: `Paced => (MirroringSpec => []InFlightIntended)`, with faults and
  the clock. While operators wait for each other an action is taken only when nothing is under
  way, so each record in a queue and each state in the hands of a task stems from the
  last one asked for. The invariant compares what they *amount to at this instant*,
  because a snooze that ends in flight is read as an activation; the conversions are shown
  to preserve that (a wake that cannot be represented included), and the clock to end a
  snooze in all of them at once.
- `IntentIsMirrored`: `Paced => (MirroringSpec => OnlyIntentIsMirrored)`, the refinement. An
  operator's action maps to `Act`, a publish or a served command to `MirrorToPhoebus` or
  `MirrorToControls` by the invariant above, a tick to `Tick`, which ends the snoozes until then in
  both systems and no others, and every other step to a stutter. So no echo, retry, lost or repeated record ever makes the program tell a system
  something else, for any number of devices, topics, actions and faults; TLC checks one device
  without faults.
- `UpdatesBounded`: `Spec => []NoAmplification`, with operators on both sides at any time and with
  every fault. `Updates` is a set: the places in the queues, and the tasks that have taken up a
  record and may still mirror it. Each step of a task moves one member, or gives one up; only an
  operator's action, a record delivered again and a call that fails after it took effect add one,
  and each of these is counted in `actions` or `faults`. The invariant is inductive as it stands;
  the work is in the cardinalities.
- `TurnsTaken`: `Paced => (Spec => []TurnsAreTaken)`. Whatever is under way is of one kind, an
  acknowledgement or an enablement, since an operator waits until nothing is: the mirror of an
  update is of its kind, and so is its echo. So nobody bypasses the device of an acknowledgement
  that a task has in hand (`AcknowledgesActive`), and the acknowledgement is recorded over no
  bypass: `BypassesLeftExplicitly`, `Paced => (Spec => BypassLeftExplicitly)`, with faults. Without
  `Paced` it is `claim_bypass`.
- `UpdatesSingle`: `Spec => []SingleUpdate`, from the same lemmas: an operator who waits finds
  `Updates` empty.
- `AimsKept`, and from it `ReflectionsEnd`: `Paced => (Spec => []Reflected)` and
  `Paced => (Spec => []ReflectionBounded)`, with faults. See below.
- `RoutesAgreed`, and from it `RouteIsKept`: `Paced => (Spec => []RoutesAgree)` and
  `Spec => RouteKept`, whose own hypothesis is `Paced`. See below.
- `CorrectionIsUnderway`, and from it `SystemsAgree`, `CacheIsCurrent` and `ScopeIsComplete`:
  `MirroringSpec => []CorrectionUnderway` and `MirroringSpec => [](faults = 0 => Agreement)`, the
  same for `CacheCurrent` and `ScopeComplete`. See below.
- `SettingsAreUnderway`, and from it `MetadataIsCurrent`:
  `Spec => [](faults = 0 => MetadataCurrent)`, for operators that act at any time. See below.
- `AppliedInOrder` and `StartupAsPromised`: `Spec => []AppliedAsPromised` and
  `Spec => []HydratedAsPromised`, for any number of topics, devices and records. See below.
- `BypassKept`: `Spec => BypassKeptAtStartup`, for operators that act at any time, with every fault. The
  invariant is `NothingAcknowledged`: until the pass is done no monitor runs, so Controls reports
  no acknowledgement that a call has caused, and the Controls task records enablements only
  (`NothingAcknowledgedInductive`); the pass records evidence over what is no bypass in the same step
  (`Writes`).
- `HealingIsUnderway`, and from it `RaceHeals`: `MirroringSpec => []HealingUnderway` and
  `MirroringSpec => []StartupRaceHeals`, for an operator who does not wait for the startup pass.
  See below.
- `ProgramImplementsSynchronizer`: `ProgramSpec => Spec`, since every step of the lifecycle is a
  step of `Synchronizer` or leaves its variables alone; with it `ProgramKeepsScope` carries
  `ScopeInvariant` over to a program that may be cancelled at any instant.
- `StopsWhenCancelled` and `ExitIsClean`: the two invariants of the lifecycle.

### Agreement

`Agreement`, `CacheCurrent` and `ScopeComplete` speak of quiet states only and are not
inductive. The invariant behind them, `CorrectionUnderway`, speaks of every state: for each
device,

- whoever has an update in a queue or in hand has been told by it: a status not yet read, or one
  in the hands of the Controls task, says what Controls believes, and that is the intent; a config
  likewise for Phoebus (`SourcesTold`);
- a task that is about to record has told the other system, and records the intent
  (`ControlsMirrors`, `MonitorMirrors`);
- what is remembered is what each system was told, unless it has been told the intent since; and
  if it is not the intent itself, an update of the device is under way (`KnownIsTold`). That
  update is not suppressed, because it differs from what is remembered;
- a device whose enablement is remembered, or that Phoebus has configured, is in scope or about
  to be (`KnownIsScoped`, `ConfiguredIsScoped`);
- until the startup pass is done, the logs it has still to read say what is intended
  (`LogsShowIntent`).

Everything is compared by what it *amounts to at this instant*, so that a snooze may end anywhere
in this. `intent` is a history variable (`Mirroring`): it is what operators asked for last, and no
step reads it. One consequence was not planned: the recording at the end of the Controls task is
not needed for these properties. Were it forgotten, the echo on the Phoebus topic would be taken
for new work, and would record the state; `RecordsDespiteFailure` notices it.

The theorems hold for any number of devices, topics and actions, under these hypotheses:

| Hypothesis | Why it is needed and when it holds |
|---|---|
| `Paced` | operators wait until the last action has settled; otherwise `claim_echoes` and `claim_startup` |
| `faults = 0` | up to the instant in question nothing was lost and no call has failed: a failed publish is not repeated, by design |
| `WellNamedTopics` | no configured topic is named like a command topic, or its metadata have no publisher |
| `ConfiguredAlike` | topics whose logs configure the same device agree on its enablement; else Phoebus does not agree with itself at startup |
| `StatesAreConfigured` | a state record that says a device is well comes from a topic that configures it: the alarm server of a topic reports the devices configured there; otherwise `claim_discovery` |
| `OperatorsAreHeard` | enablements in Controls come as EPICS statuses that parse; the code ignores ACNET devices and malformed records by design |

### Settings

`MetadataCurrent` needs another invariant, `SettingsUnderway`, that holds for operators on both
sides at once. The settings of the last config of a device in its topic are in the last config of
the queue; if there is none, in the one the monitor has in hand; else, during the startup pass, in
the last one of the snapshot, or of the log still to be read; and otherwise in the cache
(`SettingsFor`). That is inductive because no other task writes them: whatever becomes the metadata
of a device, or is read from them to publish, belongs to the topic that configures it, and the
monitor of that topic is alone in writing it, so that what it read before its RPC is still there
when it writes (`StaysAtHome`). The hypothesis is `OneTopicEach`: a device is configured in one
topic, which is not a command topic. Without it the theorem fails as `claim_two_topics` shows. The
theorem is about quiet states: `claim_config`, where the Controls task mirrors the old settings
before the new ones are cached, is no counterexample, because the old ones are then the last config.

TLC checks on the instances of `paced` that the hypotheses hold of them
(`MCMirroring!SurroundingsAssumption`), that is, that they can be satisfied.

### Routes

A monitor reads the metadata of a device, calls Controls, and writes back path and topic as it read
them, replacing whatever another task has written meanwhile. `RouteKept` says that nothing is lost by
that while operators wait for each other. The invariant, `RoutesAgree`, collects all that may decide the
route of a device (`RoutesFor`): the cached metadata, those that a monitor holds with a config, and, for a
device not in scope yet, the ones an unread config would be given. There is at most one. Monitors
never enlarge the set, since what they read is in it (`MonitorKeepsRoutes`). The Controls task publishes
configs too, but for a device that is in scope, where an unread config decides nothing
(`PublishesInScope`, `ControlsKeepsRoutes`). An operator finds the set empty or at the cached route, and
the startup pass ends with the cache alone (`CacheDecides`). During the pass a device may move: the
last topic that configures it wins. No hypothesis on topics is needed: a device with configs on two topics
keeps the first. Its settings do not stay apart, which is `claim_two_topics`.

### Startup

`HydratedAsPromised` defines the result of the startup pass from all records of all topics at once:
the latest config, the latest evidence, and which of them counts. The pass knows one record and one
cache entry at a time. The invariant between the two, `AppliedAsPromised`, puts the records in one
order, by topic and by place (`Precedes`), says that the pass holds exactly the records from the
place it is at (`HasBefore`), and applies the reference definition to the records before it. One
more record then changes the promise as `HydrationApply` and `HydrationUpdate` change the caches
(`StateAdded`): a config is the latest from then on, and evidence counts unless the promise before
it was a bypass. The state of a config is recorded one await before its metadata, so `Applied` is
one record ahead of `Scoped` in between. The invariant also says that nobody else has anything to
do (`OthersWait`): the definition is of what the topics held at startup, so it holds until an
operator acts, a call or snapshot fails, or the clock moves (`Undisturbed`; what a snooze counts for
depends on when its record is read). What happens after that is the subject of agreement.

### The race with the startup pass

`CorrectionUnderway` needs an action to be taken when nothing else is under way, which an operator
who acts during the startup pass does not wait for: until the pass is done, the Controls task
mirrors that action while older records of the snapshot are applied. `claim_startup` shows that the
two systems may then stay in disagreement. What remains true is about the cache and Phoebus, and
`HealingUnderway` states it for every state with at most one action and no fault so far:

- nothing else is under way when the action is taken, no monitor runs before the pass is done, and
  what Controls reports until then is an enablement (`OneTurn`); the pass itself may be anywhere;
- a config that has not been read, or that a monitor holds until it has recorded it, is what Phoebus
  was last sent; and who records, records what was asked for (`ConfigsTold`);
- unless a config has been published since the snapshot, the logs that the pass has still to go
  through end with what Phoebus displays (`LogsShowView`);
- so for a device in scope, or about to be, either the cache is what Phoebus displays, or a config
  that corrects it is in a topic, or in the hands of the pass or of a monitor (`CacheCorrected`). The
  monitors subscribe after the pass and begin at the first record not yet read: that
  is what brings the echo to them.

The inductive invariant is `Raced` in `HydrationProofs`: this one with `TypeOK`, `ScopeInvariant`,
`RoutableInvariant` and `InFlightIntended` (`Agrees`). The hypotheses are `WellNamedTopics` and `ConfiguredAlike`
of the table above, which `MCRacing` asserts of its instance; `Paced` is not among them. In the
property itself, `NoStatusAcknowledges` leaves acknowledgements in Controls out (see
`concurrent` above), and `actions <= 1` a second action, which would be `claim_echoes`.

### The end of mirroring

Echoes are told from actions by comparison with the recorded state only. `ReflectionBounded` says how
often that fails: mirrored three times, an action is not mirrored again. The count is kept in `hops`. The
invariant is `Reflected`. For each device there is a state, the aim, that everything under way will be once
it has been through Phoebus (`Echo`, `Amount`); the aims are the witness of an existential
quantifier, not a variable. A status or record that will be mirrored has been mirrored
`Free` times or fewer, or the aim has arrived: it is recorded, or the Controls task is about to record
it, and nothing that would record another state is on its way to Phoebus (`Arrived`). A status that
has been mirrored `Free` times may be published once more by the Controls task, which is then about to
record the aim; a monitor that reads this record before it does so has one more status reported; and
that one finds the aim recorded, because the task that reads it is the one that recorded it. That makes
the bound `Free + 2` for statuses, one less for records, on whatever topic the echo comes back.

`Free` is 1 when each status is its own echo (`StatusesEchoed`). A status that comes back as another state
(`Stale`: a bypass until a time that is over, an unbypass with a wake time) is recorded as it
came, so that its echo is new to the cache and is mirrored once more. Only the operator's own status can be
stale, and it comes first in the queue, however often it is delivered (`InOrder`): once another
status is read, no stale one is left that would replace what is recorded.

Nothing else is assumed but `Paced`: failed calls, lost and repeated records, closed streams, devices and
topics in any number are covered. `now = 0` stands for a clock that does not move. A snooze that
ends in flight turns what is left under way into a new state, and starts the count again: when the clock runs, TLC
finds an action mirrored seven times without a fault, and more often with each one, so that the bound is
a statement about a clock that stands still. That mirroring ends when the clock runs is `Settles`.

### Only model-checked

- Liveness (`Settles`, `CancelledEnds`, `HealthFailureEnds`, `TakenUpIsFinished`): the prover does
  not do liveness under fairness.
- The claims: each is a counterexample, and needs no proof.

## What is not modelled

- Structured outcomes (`models/outcomes`): they are returned, logged and dropped; nothing in
  the program depends on them.
- A task that panics, and the `JoinError` `try_join!` would return for it.
- A restart: nothing is persisted, so it is a new start, and the startup pass is modelled
  from any log.
- Reading environment variables and logging, with the errors that end the program before
  it starts any task.
- The length of the pause of one second before a new connection.
- Two monitors of one topic, which a configuration would start that names a topic twice, or both a
  topic and its command topic (`phoebus/mod.rs:50-60`): `OneMonitorAssumption` leaves both out.
- A record delivered again after later ones (A, B, A). Whether a subscription can go back is up to
  the subscriber library, whose code is not in the repository; the program remembers no offsets and would
  take such a record for a new action. What is modelled is a record that comes again
  straight after itself (`TakenFrom`).
- Generated protocol code and the text of JSON messages and keys.

## Plan

Done: the data and policy, the three tasks and their composition, hydration against a
reference definition, the lifecycle, the abstract mirror and its implementation, and the
theorems above.

Left: an instance with two devices, for what little they share: the order within a topic and
the stage of a task.
