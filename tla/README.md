# Verification of rosotacom

rosotacom runs ROS 2 communication between two peers over a lossy network: it
starts containers whose nodes wrap, shape, forward and watch topics, and it
measures what the link does to them. This directory holds TLA+ models of the
parts of it that carry the program's own logic, the TLC configurations that
check them on small instances, and proofs for every size of instance.

Contents: [the system](#the-system), [the modules](#the-modules),
[what is checked](#what-is-checked), [what is proved](#what-is-proved),
[where code and text disagree](#where-code-and-text-disagree),
[what is not modelled](#what-is-not-modelled), [the plan](#the-plan),
[running it](#running-it).

Paths are relative to the repository. `cli.py`, `cli_benchmark.py`, `benchmark.py`,
`transit.py`, `network_profiles.py` are in `src/rosotacom/`; `com_py/` stands for
`src/rosotacom/resources/ws/ros2src/com_py/com_py/`, and `creation/` for
`src/rosotacom/resources/ws/session/creation/`.

---

## The system

### Nodes in the container

**Wrapper and unwrapper** (`com_py/universal_ota_wrapper.py`,
`universal_ota_unwrapper.py`). State: the next sequence number of every topic,
on the other end the last number seen. The wrapper serializes, takes a number
and publishes; the unwrapper compares numbers and logs gaps, reordering and
restarts of the peer. Numbers live in the process: a restart begins at zero.
*Hard:* telling reordering from a restart. *Correct if:* restarts are counted
once, and reordering never as one.

**Live accounting** (`com_py/status_overview_core.py`, `status_overview.py`).
One `StageObservation` per stage of a topic: expected number, epoch, totals,
and transit rows not yet drained. The subscription callback records, a timer
drains the rows of all observers into `events.jsonl` and rewrites the
snapshot. Around it: classification of each stage, the roll-up, transitions,
a startup check that looks twice before it condemns a session.
*Hard:* gaps that are filled late, ticks between a loss and its late arrival,
writes that fail after the rows were drained. *Correct if:* what arrived is
delivered, what is lost is counted once, nothing is invented.

**Offline join** (`transit.py`). A fold over the event files of both peers by
(source, topic, epoch, number), a filter by publish window, a summary per
topic. No state; *hard* because its inputs were numbered independently.

**Playout pacer** (`com_py/playout_pacer.py`, `playout_pacer_core.py`). State:
a window of delays, the last release, a queue. Each message is held until
stamp + floor + budget. *Hard:* the floor and the budget move while messages
wait; clocks are offset. *Correct if:* it is a delay line with a bounded hold.

**Relays and bridges** (`com_py/pub_sub_pair.py`, `pair_management.py`,
`base_bridge_relay.py`, four subclasses, `topic_resolution.py`). Pairs of a
subscription and a publisher created once the type is declared or found in the
ROS graph, refreshed every 5 s. *Hard:* each hop waits for the type the hop
before it makes visible, at the start and after each restart. *Correct if:* every
hop opens in the end, also over a transport that shows a topic to readers only.

**Latch relay, trickle** (`com_py/latch_relay.py`, `trickle.py`). The last
value, deduplicated by its bytes, repeated by a timer. *Hard:* lost copies,
nodes that come back with nothing. *Correct if:* the receiver sees values in the
order of the sender, never goes back to one, and ends with the last.

**Startup check** (`com_py/status_overview_core.py` 198-265, 1236-1353). From the
stages of every outbound topic, the graph and a log of panes that exited: one
verdict, given once. *Hard:* a stage that is late looks like one that is dead.
*Correct if:* no running node is named, and there is a verdict.

**Status reports** (`com_py/status_overview_core.py` 573-1083). Each peer's view of
its half of every topic: a state and a quality per stage, the OTA topic inferred
from the stage beside it, one state per topic that is relaxed by the topic's mode;
written whole to `status.json` on a timer. *Hard:* neither peer sees the other's
half or the topic between, and the file is as old as its reader is late. *Correct
if:* what it calls delivered was.

**Heartbeat echo** (`com_py/heartbeat_echo.py`, estimator in
`status_overview_core.py`). An echo exchange and a minimum-RTT clock offset
estimate over 60 s, with a bounded set of samples already used.

**Compression** (`com_py/universal_compressor.py`, `universal_decompressor.py`),
**image and message tools**, **telemetry** (`link_bytes.py`, `link_trace.py`,
`ota_pcap.py`, `stage_latency.py`): per-message transformations and readers of
counters.

### Commands on the host

**Session lifecycle** (`cli.py` 5800-6004, 6793-6881, 8349-9081). `start`,
`stop` and `smoke` are independent processes over docker's containers and
networks, without locks: they list, decide and act later. `start` replaces a
conflicting container, `smoke` gives up beside a smoke of its target and cleans
up in a `finally`.
*Hard:* every interleaving of the commands; a readiness wait whose container
another command removes; exceptions between docker's work and the note of it.

**Scenarios and interactive smoke** (`cli.py` 5316-5606, 6061-6300, 8349-8940).
A start opens a tmux session and goes; the panes are processes that build,
start containers and wait for each other. A stop is another command, later, that
finds the run by the session's name and options or not at all. State: sessions,
panes, application containers and manifests beside those of the session
lifecycle. *Hard:* names are shared by runs, containers are not; a stop works its
way from the containers to the panes while these still build; two starts.
*Correct if:* a stop leaves nothing behind, and no run stops another's containers.

**OTA orchestration** (`cli.py` 2990-4930, timeline variant in
`benchmark.py`/`cli_benchmark.py`). One orchestrator, two peers over SSH:
conflict check, staging, manifest, arming the network profile, starting,
verifying, and a `finally` that reverts, collects and stops.
*Hard:* any command can fail, some silently; signals; crashes.
*Correct if:* no peer stays shaped, nothing is measured under another profile,
the manifest is true.

**Contract test** (`cli.py` 8235-8333, `status_eval.py`). `rosotacom test` polls the
reports of the peers and compares them with what the session definition expects of
each topic, under a profile or none. *Hard:* it shares its judgement with the
program that wrote the reports. *Correct if:* the two agree, and what passes was
delivered.

**Network shaping** (`network_shaper.py`, `network_profiles.py`). `ProfileShaper`
arms a peer's egress (clean slate, watchdog, rate stage, netem) and reverts it;
a detached watchdog reverts it after an hour should nobody else.

**Benchmarks** (`cli_benchmark.py`, `benchmark.py`). Drivers that search for the
worst network a stream survives, for the edge of loss on a grid, for the highest
load a network carries, or measure how a stream recovers. Each probe is a few live
points: containers started, a publisher, the profile armed, a measurement window,
drain, cleanup. *Hard:* probes that stop early, guards, several rounds over axes
that depend on each other; on a live point, messages in flight at every boundary and
commands that fail. *Correct if:* what is reported holds at the values reported, and
what is counted was published under the profile. Other drivers measure a list of
cases and compare the rows: two configurations, one axis of the network, the load or
the QoS at a time, or the course of one recording. *Hard:* a case brings its own
session, laid over the roots of the user; the host drifts while it is measured; the
profile takes hold somewhere within the recording. *Correct if:* rows differ in what
they are said to differ in, and the verdict tells a configuration from the host.

**Regression gate** (`cli_benchmark.py` 5859-6686, `benchmark.py` 545-833,
`benched_set.py`). State: a committed store of bands, one per row, profile and
metric; a verdict document per row. `compare` and `row` judge, `ratchet` and
`calibrate` move bands, `gate-summary` judges a lane by its documents. *Hard:* a
long series of small moves, over part of the metrics, on different runner
classes; a verdict, an exit code and a summary decided in different places.
*Correct if:* what was gained is kept, the command printed for an improvement
banks it, and the lane is red exactly when one of its jobs is.

**Session file generation** (`creation/generate_session_files.py`). From one
definition of the topics it derives, in five places, the names that a stream takes
through preprocessing, relays, the link and postprocessing. *Hard:* a prefix or
suffix forgotten in one place. *Correct if:* the stream arrives, under the name and
in the form the receiver was promised, and every topic has one writer.

**Offline analysis, deployment helpers**: batch programs over recorded files.

### How they interact

```
 wrapper --> link --> unwrapper        the nodes share topics, never memory
    |                    |
 observer(com_out)    observer(com_in)     one tick each --> events.jsonl
    \____________________/                         |
                                          transit.py joins both files

 start | stop | smoke --> docker <-- ota-smoke, over SSH, one peer at a time
                                         |--> tc on each peer <-- watchdog
```

`PROJECT.json` lists every component with the sources it covers and its status,
and under `hazards` each place where a test would hardly reach what can go
wrong, with the properties that watch it.

---

## The modules

| Module | Models | Builds on |
| --- | --- | --- |
| `SequenceEpoch` | `is_sequence_epoch_reset` | |
| `StageObservation` | `StageObservation.record`, `drain_transit_records` | `SequenceEpoch` |
| `TransitJoin` | `join_transit_records`, window filter, summary | `StageObservation` |
| `OtaAccounting` | one topic end to end: wrapper, link, unwrapper, two observers, two ticks, restart of the sending peer | `TransitJoin` |
| `OtaRun` | one orchestrator after another over a set of peers, shapers, watchdogs, manifests | |
| `DelayLine` | what a pacer promises | |
| `PlayoutPacer` | schedule, queue and timer of the pacer | instance of `DelayLine` |
| `Workspace` | concurrent `start`, `stop`, `smoke --local` | |
| `TmuxRuns` | `scenario start`, `scenario stop`, interactive smoke and its stop, with their panes, beside those commands | `Workspace` |
| `SessionNames` | the names, nodes and stages a session definition leads to | |
| `SessionWiring` | a stream followed through those nodes | `SessionNames` |
| `LatestValue` | what forwarding a state topic promises | |
| `RelayChain` | latch, relays, bridges, link and trickle of one state topic, with restarts | instance of `LatestValue` |
| `StartupCheck` | nodes opening stage after stage, the status tick's two looks and the verdict | |
| `StatusReport` | one topic as the status nodes of both peers report it | |
| `ContractTest` | `rosotacom test` on these reports | `StatusReport` |
| `Probing` | one probe of a benchmark search, ended early | |
| `ProfileSearch`, `LossBoundaries`, `Capacity` | `drive_requirements`, `drive_loss_boundaries`, `drive_capacity` | `Probing` |
| `BandGate` | the regression gate over one row of the benched set | |
| `PointCommands` | `drive_ab`, `drive_matrix`, `drive_sensitivity`, `drive_sweep`, `drive_ramp`, `drive_probe`, with `ab_verdict` and `find_probe_onset` | |
| `BenchmarkCommand` | one command that runs one of the three searches or measures one list of cases, or those of the gate | those five |
| `LivePoint` | `run_point` of a local target, from network to cleanup | |
| `Recovery` | `drive_recovery` and what it reports | `LivePoint` |
| `MC*` | option sets and configurations TLC needs; `MCLiveRun` (`OtaRun`, `Recovery`), `MCSession` (`RelayChain`, instance of `SessionWiring`) and `MCStatusNode` (`StartupCheck`, `ContractTest`) hold two specifications each, as described below | the modules named there |
| `*_proofs` | theorems of the module named; `Workspace_proofs` holds those of `TmuxRuns` too, and `StatusNode_proofs` those of `StartupCheck` and `ContractTest` | that module, `TLAPS` |

Operators named "Mutant" in a comment are wrong versions of the definition that
follows them, kept to show that a property notices; no specification uses them.

### OtaAccounting

A frame is `[run, seq]`: the wrapper's process and its number. The code sees
only `seq`; `run` is history, and no definition that models code branches on it.

| Action | Code |
| --- | --- |
| `Wrap` | `wrapper_callback`, and the local observer of `com_out`, which may not be subscribed yet |
| `PeerRestart` | a new session of the sending peer: numbers, observer and event file begin again |
| `Lose`, `Deliver` | the network; the unwrapper's `_check_sequence` and the `com_in` observer's `record` |
| `WriteStatus`, `WriteStatusFails` | `StatusAggregator.write`: rows are drained first and written afterwards |

`Deliver` runs two callbacks in one step: they subscribe to the same topic and
share nothing, so no property can tell their order. Rows and files are sets
because the join and the totals look at keys and counts; a row keeps the fields
they look at.

Nothing in the code can tell a deep reordering from a restart, so the claims
about epochs hold only where the transport keeps an order: `FieldOrder` says
that reordering is shallower than the tolerance (64 in the code), that a peer
which restarts had got further than first arrival plus tolerance, and that
number zero never arrives, because the reader matches after it was written.
These are the proportions `is_sequence_epoch_reset` documents of the field: a
restart whose first arrivals are 37 to 41 of a run of thousands. The guards
`InOrderEnough` and `PeerRestart` carry the bounds.

The unwrapper's log compares with the last frame it heard, the observer with the
highest. With reordering the two differ by up to its depth, so that both see the
same restart takes that much more room: `LogOrder`, which `BreadcrumbAgrees` needs
and the others do not. In the instance it means `MinRun` 4; with 3 the field order
still holds and TLC finds a restart that the observer counts and the log takes
for reordering. The field's runs of thousands satisfy both by far.

### OtaRun

`phase` is where the orchestrator stands, `todo` the peers its current loop has
still to visit. Its two lists of shapers are kept apart as in the code:
`registered` belongs to `_ota_arm_profile`, `shapers` to its caller, and one
becomes the other only when the callee returns (`Armed`). In timeline mode the
caller has every shaper before it arms the first.

| Action | Code |
| --- | --- |
| `ConflictCheck`, `Checked`, `Prepare`, `Resolve` | before the `try`: conflict check, staging and manifest, profile |
| `CleanSlate`, `LaunchWatchdog`, `TbfStage`, `NetemStage`, `Armed` | `ProfileShaper.arm` and `apply` on one peer after another |
| `StartPeer`, `Started`, `ApplyStep`, `Verified` | the rest of the `try` |
| `Revert`, `Reverted`, `Collect`, `StopPeer`, `Stopped` | the `finally` |
| `LeaveTry`, `LeaveFinally`, `EndsBeforeTry`, `Crash` | an exception or SIGTERM; SIGKILL or a dead host |
| `StopCommand`, `StopCommandPeer`, `StopCommandEnds`, `StopCommandDies` | `ota-smoke --stop`, a process beside the orchestrator: it chooses a run, stops its peers one by one, and writes the manifest |
| `WatchdogFires` | the detached sleep ends |

A command with `check=False` fails silently inside the action (`Fault` in its
second disjunct), one with `check=True` raises, which is `LeaveTry`.
`unreached`, `unguarded` and `missed` remember the silent failures the properties
have to excuse. `missed` are peers the conflict check took for clear: it asks
`ip route get` and `tc` with `check=False`, skips a route it cannot parse, and reads
an empty answer as no shaping. `docker ps` is not among them; it raises. The clean
slate takes a peer out of `missed` when it succeeds.

`--stop` goes by the manifests (`stopping` is its run and the peers it has still to
stop) and asks nobody whether an orchestrator is alive, so it may come at any step
of a run. `_ota_start_peers` does not look at the manifest either: `overtaken` is
the history of the peers a run started when a `--stop` of it had passed them, or had
ended. One `--stop` runs at a time, and a stop by name of a target without a
manifest, which stops without an instance, is left out. At its end, and at the end
of a run, the remote workdir is removed; what then fails for the want of it is one
of the failing commands.

The watchdog is modelled in both sudo modes (`ContainerMode`); in
container mode its fixed name makes a launch remove its predecessor. That is what
the first half of `ShapingFollowsTheRun` needs: with `ContainerMode = FALSE` TLC
finds a watchdog of a crashed run that sleeps on, and takes the shaping away under
the next run while that one measures.

### PlayoutPacer and DelayLine

`Remember`, `Floor`, `Percentile`, `Budget`, `Deadline`, `Release` are
`PlayoutSchedule`; `OnMessage` and `ReleaseDue` are the node's callback and
timer. A stamp is whatever the header says, so that arrivals minus delays may go
back, as in a replay that begins again. Times are ticks. A delay is arrival minus stamp, so it contains the
unknown offset of two clocks and may be negative. The timer is quantised in
the code; in the model it may fire at any tick at or after the release, later
ones included, and it drains every head that is due, as the loop does.

`DelayLine` is the abstract promise: a line that chooses a hold of at most
`MaxHold` for each message and neither drops nor reorders. `PlayoutPacer`
implements it with `line` and `output` mapped to `queue` and `published`
without the deadline, which is history.

### Workspace

Each command is a record of its own; `phase` is its program counter, `todo` the
names it still has to stop, `returned` the names `start_session` gave back to a
smoke. A container's name is its instance and peer, as in the code; who ran
`docker run` for it (`by`) and what a command found when it looked (`saw`) are
history.

| Action | Code |
| --- | --- |
| `Issue` | the command line; `--instance-id` joins an earlier start's instance |
| `ListConflicts`, `StopConflict`, `StopOwn` | `start_session`: `_matching_com_containers`, then one stop at a time, then its own name under `--force` |
| `RunContainer`, `Ready`, `NeverReady` | image build and `docker run`; `_wait_for_container_ready` and its deadline |
| `Guard`, `EnsureNetwork`, `Verified`, `Cleanup`, `Cleaned`, `RemoveNetwork` | `smoke` |
| `ListToStop`, `Cleanup`, `Cleaned` | `stop_session` |
| `Raise`, `Kill` | an exception or Ctrl-C anywhere; SIGKILL, or SIGTERM, which these commands do not catch |

Stopping a container removes it, and a stop by name removes whoever bears the
name by then.

### TmuxRuns

`TmuxRuns` extends `Workspace` and adds four commands to it: a *scenario* and a
*rig* (an interactive smoke run) and their stops. They use the same command
records, containers and networks, so everything `Workspace` promises of `start`,
`stop` and `smoke` is checked beside them.

| Action | Code |
| --- | --- |
| `LookForScenario`, `LookForRig` | the session of that name: replaced under `--force`, or left running |
| `RigGuard`, `RigNetwork`, `RecordRun` | the guard of `smoke`, the run's network, the manifest |
| `OpenSession`, `TagSession`, `NewWindow`, `NoSession`, `Opened`, `ScenarioReady` | `_create_scenario_tmux`, `_create_interactive_smoke_tmux`, and the wait that follows |
| `FindScenario`, `FindRig` | which run a stop is about: the one active console, or the names alone |
| `StopApp`, `ListComs`, `StopCom`, `KillSession`, `RemoveNetworks`, `MarkStopped` | the two stops, in the order of their calls |
| `PaneList`, `PaneStopConflict`, `PaneRun` | `rosotacom start` in a pane |
| `PaneWait`, `PaneBridge`, `PaneRunApp` | the shell loops in front of a rig's panes, and `run_scenario_application` |
| `RunRefused` | `docker run` of a smoke whose network somebody removed |

A pane is a record: its session, the run that opened it, its peer and where it
is. A console's name is a pair, the target and the peer of a scenario or "rig"
and its target. The four options of a session are written in one step
(`TagSession`), and to whichever session bears the name by then. When a session
is killed, a container attached to one of its panes may go with the pane or stay:
docker decides, and the model allows both.

### SessionNames and SessionWiring

`SessionNames` is the generator without its text: for a session definition
(`Plan`) it gives the name a topic has before each processing stage, what the
receiver's chain ends on, the nodes each peer starts with the topics they read
and write, and the stages the status overview expects. A name is a sequence of
segments, so that adding and stripping a prefix or suffix is what the code does
with strings, without characters. A node is `[kind, from, in, to, out]`.

`SessionWiring` follows one stream: `carried` is the set of topics it appears
on, each with the layers put on it. Each action is one kind of node publishing
for the first time what it reads; the actions of `Next` are the windows of
`session_plugin_base.yaml`. That a node transforms a payload in a certain way
(`Accepts`, `Transformed`) is external to `src/`.

The generator accepts definitions whose parts do not fit together. `Connects`
in `MCSession` leaves them out, and each of its conjuncts is something a
user would have to know:

* a topic whose own name begins with `to_<target>`: `relay_in` strips it
  (`topic_resolution.py` 147-153);
* a target prefix and native source prefix together, or either of them together
  with sender-side preprocessing: relays and preprocessing derive different names;
* `compress` with an image transport; `global_to_local` with a kept source prefix
  or a transport; a transport without republishing on the receiver together with
  wrapping or trickle (`creation/generate_session_files.py` 1733 and following);
* `normalize` into the name the topic already has; the same base in both
  directions without a kept prefix, or with `normalize`: a node would read what
  it or its counterpart writes, and messages circle.

### RelayChain and LatestValue

Six hops: latch, `relay_out`, `bridge_out`, `bridge_in`, `relay_in`, trickle.
Values are numbered in the order the application publishes them; 0 is none.

| Action | Code |
| --- | --- |
| `TryInitialize` | `PubSubPair.try_initialize` on a tick of `pair_management`: the type is declared, or found in the graph |
| `ForwardChange`, `DropRepetition`, `Keepalive` | `LatchPubSubPair._callback` and its timer |
| `Forward`, `LoseOnLink` | `PubSubPair._callback` of the relays and bridges; the link |
| `ShowArrival`, `Tick` | `TricklePubSubPair` |
| `Restart` | a node dies; its window starts it again with nothing |

`RoutesOnReader` is a transport that lets a host see a topic only once it reads
it itself; `bridge_in` then needs the declared type, which the assumption says.

### StartupCheck

| Action | Code |
| --- | --- |
| `RefreshPairs` | any node's refresh timer, which opens what it has the type for |
| `Count` | the observer's callback; `GraphOnly` stages have none and are inferred (`infer_graph_only`) |
| `Write` | `StatusAggregator.write`, whose first work is `_maybe_run_startup_check` |
| `Exit`, `ApplicationStarts`, `ApplicationLeaves` | the environment; `catmux_log_setup.sh` notes an exit that is neither 0 nor 130 |

`Grace > Refresh` is assumed: a grace period of 20 s against a refresh of 5 s.
Four preprocessing nodes in a row may need as long together, and then the
verdict would come before the last of them had to be ready; the second look,
another grace period later, is what makes up for it in practice.

A verdict `ok` says less than its log line, "every stage this peer produces has
a publisher" (`status_overview_core.py` 1303-1306): a stage missing only at the
second look is not named (1274), a stage that opens late hides a dead one
behind it, and one that delivered once and died counts as stale, not absent.
Only the pane log tells of these.

### StatusReport and ContractTest

One topic in five stages: application, `com_out`, the OTA topic, `com_in`, the
other application. `arrivals` says when a message reached a stage, one a tick at
the most; `late` is where the last message came late. Each peer reports its own
three stages, both infer the OTA topic.

| Definition | Code |
| --- | --- |
| `Rate`, `Age`, `Loss`, `Latency`, `PacingHold` | `StageObservation.metrics` and the hold of a pacer, taken back out of a delay |
| `StateOf`, `Quality` | `classify_stage`, `_classify_quality`; without a declared rate none is expected |
| `Witnessed`, `Results` | `infer_graph_only_ota_stages` |
| `StreamState`, `Relaxed`, `Overall` | `rollup` |
| `WriteReport` | `StatusAggregator.write`, at any time or never |
| `Bounds`, `CheckExpect`, `CheckCompleteness`, `CheckBag`, `Excused`, `EvaluateReport` | `status_eval.py` |
| `RefuseTest`, `TestPasses`, `TestFails` | `test_command`, whose polls any step may come between |

A report carries the time it was written at, so a verdict may be about a stream
that has ended since. Loss is counted, not taken in percent.

### The benchmark searches

A candidate network has a severity per axis, 0 the ideal value and `Worst` the
far end of the search. A link is any pair of downward closed sets, the candidates
that always pass and those that can; what lies between is noise. A severity
stands for a step of the driver's grid, or for a point of its bisection, whose
midpoint is any value of the bracket in `ProfileSearch`.

| Action | Code |
| --- | --- |
| `Run`, `NothingArrives` | one sample of a probe, judged by `_probe_sample_verdict`; one whose summary has no loss |
| `Baseline`, `LimitPasses`, `LimitFails`, `ResetPasses`, `ResetFails`, `Bisected`, `Final` | `drive_requirements`: the baseline, `search_axis` under its rounds and refinement with `apply_axis_guard`, the final probe |
| `RateHigh` ... `RateBad`, `JitterLow` ... `JitterNotBad`, `Report` | `search_bandwidth`, `search_jitter`, the combined probe, the result and its print |
| `LowestProbed`, `MiddleProbed` | `drive_capacity` over `capacity_binary_search` |

Seen while translating, and not made properties:

* a jitter whose good value lies one step below a ceiling that is bad gets a
  mixed zone with no lower end (`cli_benchmark.py` 4675-4681), which the
  benchmark documentation describes otherwise;
* guards compound over rounds and the refinement, and the jitter ceiling has no
  second look as the bandwidth floor has;
* a loss-boundary result is `passed` whatever the combined probe said;
* a search without a bad value ends in an exception in its print (4775), after
  the result file is written: phase `raised`.

### PointCommands

The commands that measure a list of cases known beforehand. `roots` are the
sessions found under `session_configs_dir`, the first one wins and the package's
comes last; a row of `points` is its case, the session that ran, and what was read.
In `BenchmarkCommand` these are behaviours of the phase `no_search` with a `genre`.

| Definition | Code |
| --- | --- |
| `PointsInit` | the handlers up to their driver: `_prepare_benchmark_session_config` pins the QoS in a copy and puts its root in front; `ab` prepares one copy per configuration instead. There the QoS is pinned only as far as `--qos-*` asks; the rest is the configuration's own, part of its `config` in the model |
| `SensitivityCases`, `MatrixCases` | `_build_sensitivity_profiles`, `_build_matrix_profiles`; `SensitivityOn` and `MatrixOn` are the loops over an axis that was asked for |
| `Schedule`, `AbCases` | `ab_schedule`, `_prepare_ab_config` |
| `Enter`, `MeasurePoint`, `PointRaises` | the wrappers of `run_point`: the case's root goes in front, the point runs, the `finally` restores the list it had |
| `WriteResult` | the end of a driver |
| `Judge` | `ab_verdict` over one metric of one topic, less being better |
| `Onset` | `find_probe_onset` over one stream |

A reading of `ab` and a recording of `probe` are chosen from `Readings` and
`Recordings`; what the link does in between is `LivePoint`'s subject. Medians are
kept twice as large, so that an even number of runs has a whole one. `Beyond` is
`max(abs, rel * baseline)` for a share of the form one in `RelTolerance`.

Seen while translating, and not made properties:

* the rotation is said to remove the bias of the first slot
  (`benchmark.py` 1654-1657, `docs/benchmark-ab.md` 70-74). With two configurations
  and the default three repeats the baseline comes first twice and the candidate
  once: a penalty of the first slot stays in the baseline's median.
  `VerdictIsFair` is about drift and single unlucky runs;
* a configuration drops a topic only if no summary names it (1801). A topic with
  rows and without samples has every metric None, its cells have no verdict, and
  the candidate passes;
* two labels of one token under `_safe_case_token` ("a b" and "ab") share a
  directory, and the later configuration overwrites the earlier (6917). `Labels`
  are told apart;
* a step of `find_probe_onset` must reach the ratio: its docstring's "**or**
  `min_step_ms`" (1158) never decides (1189), and with exactly 12 deliveries the
  range of candidates is empty (1174). A warm-up shorter than half a window is
  not seen as one: its medians are those of the impaired regime;
* `ramp` reports the metric 0.0, the best there is, for a point without a latency
  sample (1885); `ramp`, `sweep`, `sensitivity` and `matrix` end in a `TypeError`
  and lose all rows when nobody accounted for a topic, as in `benchmark_dead_link`.

### BandGate

The commands of `rosotacom benchmark` about bands: in
`BenchmarkCommand` they are the behaviours of the phase `no_search` without a
genre; neither these nor the others change each other's variables. A band
is a centre and a half-width, which is how `ratchet_band` moves it; its edges
`lo` and `hi` are the two operators `WorseEdge` and `BetterEdge`. Bands of
different rows have different keys, so one row is followed. A batch is what a
command makes of its result files: the runner class they share, the median of
each metric they all carry, the spread between them. Levels are whole numbers;
two percent of a centre is one, or none of a centre at zero (`FloorFraction`).

| Action | Code |
| --- | --- |
| `Compare` | `benchmark compare` |
| `RunRow`, `RunUnjudged` | `benchmark row`, also with `--monitor`; with `--no-compare`, or a run without counts |
| `Ratchet`, `Recalibrate` | `benchmark ratchet`, plain and with `--recalibrate` |
| `Calibrate` | `benchmark calibrate`: one recalibration per gated metric, each saved by itself |
| `Summarize` | `benchmark gate-summary`; the next lane begins without documents |

`offer` is the batch a ratchet command was printed for, as long as the store is
the one it was printed for; `past` holds the centres that banked improvements
left, and is history. A lane is summarized before a command changes the store it
ran on, since it runs on one checkout.

Seen while translating, and not made properties:

* the command printed for an improvement names no metric, so it ratchets every
  banded one; with two bands and one of them within its band on the worse side
  of the centre it is refused as a widening and nothing is saved, though
  `docs/performance-bands.md` 44-46 calls it the exact invocation to run.
  `TheCommandBanks` is for rows with one band, as every committed row has. The
  command printed for a widened boundary can be refused likewise;
* the `--recalibrate` command printed with a refusal or a regression names no
  metric and no floor: it mints bands for metrics that are "recorded in the
  verdict, never gated" (`benched_set.py` 95), which gate from then on, and drops
  the "committed minimum half-widths" (100);
* `calibrate` saves metric by metric, so one that fails leaves a row calibrated in
  part; the next run of the row is then refused, which is safe;
* a document written under `--no-compare` says `REFUSED` with exit code 1 and does
  not gate, so its job is red and its lane is not: `SummaryMatchesTheLane` is
  about documents that gate.

### LivePoint and Recovery

`step` is where `run_point` stands. Time is the host's clock, which stamps the
messages too; a message carries when it is published (`at`), when it arrives
(`due`, or `Dropped` by the profile, or `Cut` with the queue of a qdisc that was
removed) and the step of the profile on each egress as it was sent (`legs`).

| Action | Code |
| --- | --- |
| `CreateNetwork`, `StartLabPeer`, `StartPublishers`, `Discovered` | containers, publisher and the wait for the first delivery, which gives up silently |
| `Arm`, `ApplyTimelineStep` | `ProfileShaper.arm`; a timeline is applied step by step inside the window |
| `OpenWindow`, `CloseWindow`, `StopPublishers`, `Drained` | the measurement; `pkill` may fail unseen |
| `StartRaises`, `ArmRaises`, `Raise` | an exception or Ctrl-C on the way |
| `Teardown`, `StopLabPeer`, `StopRaises`, `RemoveNetwork` | the `finally` |

`Counted` and `Lost` are what `transit.py` makes of the stream: of the
receiver's rows alone, or with those of the sender, whose stamps the join fills
into rows of lost messages (`joined`). `Recovery` adds the outage on the clock of
the profile and `recovery_metrics` over the same records.

Seen while translating: the publisher runs under `timeout 300` (5507), so a
window beyond 300 s less the start-up has no load at its end; the window of a
timeline opens before its first step is applied, which `PointIsSound` allows.

---

## What is checked

Passing runs; every property has a mutant of the code that TLC finds it
violated under. Times are of two cores.

| Run | Instance | Shows |
| --- | --- | --- |
| `ota_accounting` | tolerance 2, two processes of the wrapper, at most 6 and 3 frames, 2 in flight, overtaking by 1, both sides observe, one failed write; 0.9 million states, 60 s | `GapsAreAccounted`, `EpochFollowsRun`, `LostNeverArrived`, `SummaryCountsArrivals`, `WindowKeepsItsOwnLosses`, `BreadcrumbAgrees` |
| `live_run` | `OtaRun` with two peers, two runs, three faults, four sets of options, container mode; the same with `--stop` at any time, two faults and a set of options for each run; a point of `LivePoint` with a static profile or a timeline good, outage, good, 3 messages, delays to 2, a drain of 2; 1.5 million, 127 s | `CrashSafe`, `ShapingFollowsTheRun`, `StoppedMeansStopped`, `ShapingGoesAway`; `PointIsSound` |
| `playout_pacer` | an adaptive and a fixed configuration, window 2, delays -1..3, 4 messages, 5 ticks; 0.25 million, 46 s | `LateWaitsOnlyForNewer`, `ReAnchored`, `ImplementsDelayLine`, `EveryMessageLeaves` |
| `workspace` | three commands, two peers, two smoke targets, a scenario with one application, two rigs, one exception or kill; 0.64 million, 85 s | `NothingSeenSurvives`, `SmokeStopsOnlyItsOwn`, `SmokeCleansUp`, `StopCleansUp`, `RigsStayApart`, `NobodyIsStuck` |
| `session` | `SessionWiring` with every processing of a topic with default prefixes, and every prefix, domain and return direction with four; `RelayChain` with six hops, three values, two restarts, the four forwarding nodes declared, routing on demand; 60 811, 84 s | `StagesCarryTheStream`, `OneWriterPerTopic`, `EventuallyDelivered`; `ChainInOrder`, `ShowsTheLatest` |
| `status_node` | `StartupCheck` with two topics of three stages, one fed by the application, one exit, one leave; `ContractTest` with three ticks, ten contracts, both peers' reports; 1.1 million, 75 s | `LateIsNotDead`, `EventuallyJudged`; `PanelAgreesWithTest`, `OkWasDelivered` |
| `benchmark_command` | three searches over two axes of three severities, every monotone link, two runs a probe; the gate over three rows, two metrics, five levels, two runner classes; every set of axes with two values each, two configurations three times with four readings or none, 1800 recordings; 0.85 million, 100 s | `EarlyStopKeepsVerdict`, `BoundsMeanWhatTheySay`, `EdgesAreFound`, `SearchEnds`, `OldLevelsStayRed`, `TheCommandBanks`, `SummaryMatchesTheLane`, `OnlyTheAxisVaries`, `VerdictIsFair`, `OnsetIsClean` |

Three runs hold two specifications that share nothing (`MCLiveRun`, `MCSession`,
`MCStatusNode`): a behaviour starts in one of them and stays there, the variables
of the other at rest, and each keeps its own fairness.

That values are of their type is not left to a small instance: `TypeCorrect` of
each proof module proves `TypeOK` for all of them. The modules without proofs have
none: their variables range over what their own operators build.
Five more runs find a statement of the repository violated; see
[where code and text disagree](#where-code-and-text-disagree).

### Why these bounds

* **Accounting.** The numbers of the field are scaled down with their order
  kept. Tolerance 2 leaves room for both sides of the comparison: reordering
  by 1 below it, a restart beyond it (`MinRun` 4: the first arrival, plus the
  tolerance, plus one). Six frames and two in flight give a gap, its late
  filling, a restart afterwards and, with three more, a gap in the second epoch,
  in one behaviour. A failed write puts rows beyond reach at any of these moments.
* **OtaRun.** Two peers so that a loop can stop half way; two runs so that the
  first can leave a qdisc, a container or a watchdog to the second; three faults
  are a failed launch, a failed revert and a crash together, or a crash, a check
  that missed what it left and a failing clean slate. Options cover both
  arming loops, a profile with one direction, `--keep-running` and
  `--skip-conflict-check`. With a `--stop` beside it the first run is one that is
  kept and the second does not check; two faults leave a crashed run to the stop,
  or a peer it cannot reach.
* **Pacer.** Window 2 is the smallest in which a slow sample leaves; four
  messages fill it and empty it. Delays of -1 to 3 put the receiver's clock on
  either side of the sender's and exceed the budgets 1 to 3; within one tick they
  let a stamp go back by four. Messages arrive
  only until `MaxHold` before the end of time, so that all of them can leave.
* **Workspace.** Two commands collide, the third interferes with both or joins
  an instance while it is being replaced. The third is where a stop by name hits
  a container somebody else started anew. One fault is enough for each
  half-done state. `LineUps` bounds which kinds meet: start, stop and smoke in
  every combination; with consoles, two starts of one and its stop, a start or a
  smoke beside a console and its stop, and the stop of one console beside the
  other. `Faulty` bounds whose process may raise or be killed; scenarios fail
  through their panes and their session.
* **Wiring.** The five rate and size stages only rename; three subsets of them
  stand for all. Prefixes do not look at processing beyond the names it makes,
  so they are combined with four processings that change the delivered name.
* **Relay chain.** Three values let an old, a current and a new one be under way
  together; two restarts hit one node again or two neighbours.
* **Startup check.** The last of three stages is known to the graph only, as the
  status node does not read it; a topic of another peer's application and one of
  our own are judged differently. Six ticks hold both looks and what precedes them.
* **Reports.** With a window and a stale age of one tick, three ticks hold a stream
  that flows, lacks a message, or has stopped long enough to be stale; each report
  may be older than the verdict. Of the ten contracts three are the modes, the
  others add what can be declared one or two at a time. The delays are good, bad and
  bad only because of a pacer's hold.
* **Searches.** Three severities have a middle, so brackets close on either side
  and guards can be clamped or not; two axes depend on each other; one round and
  a refinement visit each axis twice. Every link of this size is tried.
* **Gate.** With five levels and half-widths of one or more, two improvements can
  be banked one after the other, and a level can come back from each side of a
  band; a metric of which more is better and one of which less is, the first
  missing from some runs; a floor on one of them only. The rows are a calibrated
  one, a boundary and a replay without bands.
* **Lists of cases.** Two values per axis are enough for a row to be compared with
  one before; the user has a session of the same name or none. Three repeats are the
  default, and the least with which a median forgives one run. The readings 0, 1, 2
  and 6 lie within the tolerance, at its edge and far beyond it. The recordings
  cross warm-ups of 0, 3, 4, 6 and 7 messages, every kind of transition, a level or a
  rising regime, a gap at its start, and ends just before and after a window.
* **Live point.** Three messages are enough for one before the window, one in the
  outage or inside, and one after it. Drain and delay 2 keep a message in flight over each
  boundary; life 7 ends the publisher during or after the window.

`CHECK_DEADLOCK FALSE`, except in `session`, where a chain can always repeat
something and a stream ends when it is settled, and only then: elsewhere messages,
runs, commands or time are bounded, or the command is over, and the system rests.

### Fairness

* `OtaRun`: weak fairness of the orchestrator as a whole (a process that is
  alive goes on; crashing is a step it may take instead) and of every watchdog,
  a detached `sleep` on a peer's host. None of starting runs or of faults.
* `PlayoutPacer`: of the release timer, a ROS timer, and of time.
* `TmuxRuns` has none. That no command waits for ever is `NobodyIsStuck`, an
  invariant: a command that runs has a step of its own to take, whatever others
  did. Every step of a command moves it to a later phase or takes a name off its
  list, so a process that is scheduled ends.
* `RelayChain`: of every refresh, keepalive and callback, which are timers and
  executors; of the application, which repeats its state, as the applications
  a latch is for do; strong fairness of `bridge_out`'s forwarding, which is the
  link not losing every copy of endlessly many. The trickle's timer is not
  needed and has none.
* `SessionWiring`: of `Next`: every node is a process, some enabled one publishes.
* `StartupCheck`: of refreshes, status ticks and time; none of the application.
  `ContractTest` has none: a peer may never write its report.
* `BenchmarkCommand`: of the searches: a sequential program whose runs have a
  duration. None of the gate, whose commands somebody gives or does not.
* `OtaAccounting` and `LivePoint` have none: their properties are safety, and over
  a lossy link nothing must arrive.

### What the harder properties mean

`CrashSafe` is the comment at `ProfileShaper.arm` over whole histories: at no
instant, with any runs before, is a peer shaped with nobody asleep to revert it,
unless the launch of that watchdog failed silently. `ShapingFollowsTheRun`
relates the whole past to the moment of measuring: what a run verifies is alone
on its hosts and under its own complete profile, and what arming handed over is
gone when the run is. The one qdisc of another run that may be under it is one the
conflict check did not get to see, on a peer its own profile has no direction for or
whose clean slate failed too. It needs the conflict check, the fixed watchdog name, the
clean slate and the order of the `finally` together. `StoppedMeansStopped` holds of
the `finally` and of a `--stop` beside it alike, and says where it must fail: where
the run itself started the peer behind the stop. `NothingSeenSurvives`
relates what a command saw to the containers there are much later, with others
stopping and starting in between. `StopCleansUp` says what a stop is for, with
runs behind it that crashed at any step, of a console it finds by its options, by
its name or not at all; `RigsStayApart` is its counterpart, that what it clears is
its own. `WindowKeepsItsOwnLosses` is about losses that
have no time of their own. `LateWaitsOnlyForNewer` is what is left of "late messages pass
immediately" once the order is kept too. `ReAnchored` says that the pacer recovers from an
upward step of the path's delay within a window.

`OneWriterPerTopic` is what rules out a loop of messages between the peers;
`StagesCarryTheStream` ties two derivations of the same names, by the nodes and by
the status overview, to each other. `ChainInOrder` is why the keepalive cannot put
an old value behind a new one. `LateIsNotDead` needs both looks: one of them alone
condemns a node that is merely between two refreshes. `BoundsMeanWhatTheySay` holds
although the failing value of an axis was found while other axes had other values:
the search only ever makes them harder. `PointIsSound` is three documented promises
about one point: what is counted was sent under the profile, what is counted as
lost was dropped by it, and nothing is left for the next point.

`PanelAgreesWithTest` compares two programs that were written to mirror each other
("so the live display agrees with `rosotacom test`", `status_overview_core.py`
953-955). `OkWasDelivered` is what makes a passed test worth having: the receiver
infers, relaxes and judges by windows, its report may be old, and still a stream
that passes has reached the application lately and often enough.

`OldLevelsStayRed` is the reason the gate is red for an improvement ("a later
regression back to the old level would sit invisibly inside a slack band",
`docs/performance-bands.md` 46-47), over any series of commands afterwards, on
either side of zero and in either direction of better. `SummaryMatchesTheLane`
relates what a job said by its exit code to what its document says to a reader
that never saw the job. `OnlyTheAxisVaries` is what every table of rows says by
having a column of values, over whatever the cases before left behind.
`VerdictIsFair` is why `ab` interleaves its runs and compares medians: the mutant
that measures one configuration after the other calls a drift of the host a
regression. The host may get slower and faster again between repeats, as long as
the runs of one repeat read the same: the proof has no use for a drift in one
direction. `OnsetIsClean` bounds what a probe leaves out from both sides.

---

## What is proved

TLAPS checks every step. Nothing is assumed but the named assumptions on the
constants (`ToleranceAssumption`, `BoundsAssumption`, `OtaRunAssumption`,
`ConfigAssumption`, `WorkspaceAssumption`, `TmuxRunsAssumption`,
`RelayChainAssumption`, `StartupAssumption`, `StatusAssumption`,
`SessionAssumption`, `ProbingAssumption`, those of the three searches,
`PointCommandsAssumption`, `BandGateAssumption` and `LivePointAssumption`) and,
where said, `FieldOrder`, `LogOrder`, `ContainerMode` or a base profile with loss,
`BaseNet.loss > 0`. TLC evaluates the assumptions in the passing runs; the instances
satisfy the four hypotheses where a theorem needs them.

| Theorem | Statement | By |
| --- | --- | --- |
| `OtaAccounting_proofs!TypeCorrect` | `Spec => []TypeOK` | a lemma on what `Record` returns |
| `EpochCorrect` | `Spec => []EpochFollowsRun`, under `FieldOrder` | `EpochInv` |
| `NoGapIsForgotten` | `Spec => []GapsAreAccounted`, of any link | `GapInv` |
| `LossIsReal` | `Spec => []LostNeverArrived`, under `FieldOrder` | `ArrivalInv`, over `EpochInv` |
| `JoinedIsTheRichest` | the status the join keeps ranks highest | finiteness of statuses |
| `TotalsAreRows` | `Spec => []TotalsMatchRows` | `TotalsInv`, cardinalities |
| `TheLogAgrees` | `Spec => []BreadcrumbAgrees`, under `FieldOrder` and `LogOrder` | `BaselineInv`, over `EpochInv` |
| `WindowsAreFair` | `Spec => []WindowKeepsItsOwnLosses`, under `FieldOrder` | `RowsInv` |
| `TheSummaryIsTrue` | `Spec => []SummaryCountsArrivals`, under `FieldOrder` | `RowsInv`, `LossIsReal`, a bijection of joined rows and frames |
| `OtaRun_proofs!TypeCorrect` | `Spec => []TypeOK` | with `Busy` |
| `ShapedPeersAreGuarded` | `Spec => []CrashSafe` | `CrashInv` |
| `StoppedIsTrue` | `Spec => []StoppedMeansStopped` | `StopInv`, over `HandOverInv` |
| `TheFinallyReverts` | `Spec => []HandedOverShapingIsReverted` | `HandOverInv` |
| `ShapingIsTheRuns` | `ContainerMode => (Spec => []ShapingFollowsTheRun)` | `MeasuredInv`, `TheFinallyReverts` |
| `PlayoutPacer_proofs!TypeCorrect`, `HoldIsBounded` | `Spec => []TypeOK`, `[]HoldBounded` | `LineInv` |
| `LateWaitsForNewer` | `Spec => []LateWaitsOnlyForNewer` | `PromptInv` |
| `PacerIsADelayLine` | `Spec => ImplementsDelayLine` | `LineInv`, step simulation |
| `TheFloorReAnchors` | `Spec => []ReAnchored` | `AnchorInv` |
| `Workspace_proofs!TypeCorrect` | `Spec => []TypeOK` | with `Issued` |
| `ASmokeStopsItsOwn` | `Spec => SmokeStopsOnlyItsOwn` | `Ownership` |
| `WhatWasSeenIsGone` | `Spec => []NothingSeenSurvives` | `Survival` |
| `ASmokeCleansUp` | `Spec => []SmokeCleansUp` | `Survival`, `Ownership` |
| `RigsAreApart` | `TmuxSpec => RigsStayApart` | `ConsoleInv` |
| `AStopCleansUp` | `TmuxSpec => []StopCleansUp` | `ConsoleInv`, `AloneInv` |
| `WhatWasSeenIsGoneAmongConsoles` | `TmuxSpec => []NothingSeenSurvives` | `Survives` |
| `ASmokeCleansUpAmongConsoles` | `TmuxSpec => []SmokeCleansUp` | `Survives`, `ConsoleInv` |
| `ASmokeStopsItsOwnAmongConsoles` | `TmuxSpec => SmokeStopsOnlyItsOwn` | `Survives`, `ConsoleInv` |
| `RelayChain_proofs!TypeCorrect` | `Spec => []TypeOK` | inductive as it stands |
| `NothingOvertakes` | `Spec => []ChainInOrder` | inductive over `TypeOK` |
| `NeverGoesBack` | `Spec => Latest!Safety` | `ChainInOrder`, step simulation |
| `StatusNode_proofs!TypeCorrect` | `Spec => []TypeOK` (`StartupCheck`) | |
| `OnlyTheDeadAreNamed` | `Spec => []LateIsNotDead` | `LookInv` |
| `PanelAndTestAgree` | `TestSpec => []PanelAgreesWithTest` | `RolledUp` |
| `PassedOnTheReceiversWord` | `TestSpec => OkWasDelivered` | `DeliveredInv` |
| `BenchmarkCommand_proofs!TypeCorrect` | `Spec => []TypeOK` | `Inv` |
| `CarriesWhatCanPass` | `Spec => []NeverHopeless` | `ProbeInv`, `Footing` |
| `EarlyStopIsASavingOnly` | `Spec => []EarlyStopKeepsVerdict` | counting |
| `CapacityIsExact` | `Spec => []CapacityIsTheEdge` | `CapacityInv` |
| `BoundsAreMeant` | `Spec => []BoundsMeanWhatTheySay` | `BoundsInv` |
| `EdgesAreTheEdges` | `Spec => []EdgesAreFound` | `BoundaryInv`, `CapacityInv` |
| `ACaseVariesItsAxis` | `Spec => []OnlyTheAxisVaries`, with `BaseNet.loss > 0` | `PointsInv`, what the builders put in a case |
| `TheVerdictIsFair` | `Spec => []VerdictIsFair` | `PointsInv`, order statistics |
| `ImprovementsAreKept` | `Spec => []OldLevelsStayRed` | `GateInv` |
| `ThePrintedCommandBanks` | `Spec => []TheCommandBanks` | `GateInv` |
| `TheSummaryAgrees` | `Spec => []SummaryMatchesTheLane` | `GateInv`, a lemma per kind of row |
| `LivePoint_proofs!ThePointIsSound` | `PointSpec => []PointIsSound` | `PointInv` |

Why each strengthening is needed:

* **`EpochInv`.** That the epoch follows the run is not inductive: one must know
  where the baseline stands: one past the highest number heard of the run being
  heard, which lies at least at `MinRun` when a newer run is up. Frames of the
  run being heard come within the reordering depth, those of the next run land
  further back than the tolerance, so `ResetIsARestart`.
* **`GapInv`.** No row is of a later epoch than the observer's, and in that epoch
  every number from any frame that arrived in its turn up to the baseline has a
  row: the next such frame closes the distance from the baseline to itself.
* **`ArrivalInv`.** A frame that arrived has a row that is not `lost` under the
  epoch of its run, among pending or written rows; with `JoinedIsTheRichest`
  the join cannot prefer the `lost` row of the gap it had left.
* **`TotalsInv`.** Totals count rows only as long as rows are new. The rows of the
  current epoch lie below its baseline, so a frame in its turn and the gap before
  it make new ones; a late frame's row is new because the frame is, which is
  `FreshFrames`: what is on the link has not arrived, and numbers are not reused
  within a run.
* **`BaselineInv`.** The log's baseline is the last frame heard and the observer's
  is one past the highest, so that both count a restart at the same frame follows
  only from a bound between them: the last frame heard lies at most the reordering
  depth below the highest of the same run. `LogOrder` is that bound put into the
  comparison the log makes.
* **`RowsInv`.** A row of the receiver carries the process its epoch stands for
  and, unless it says lost, a frame that arrived; a row of the sender never says
  what became of a message. So a joined row that is delivered is a frame, a frame
  is one joined row, and a window that keeps a delivered row keeps the losses
  between its neighbours, which are of the same process.
* **`CrashInv`.** `CrashSafe` talks of shaped peers; the invariant must speak of
  peers about to be shaped too: the one between launch and netem stage, and in
  timeline mode every peer already armed, for its steps shape it later. Each has
  a watchdog of this run, which does not fire while the run is up.
* **`StopInv`.** There are two loops of stops, that of the `finally` and that of a
  `--stop`, perhaps of another run. Peers a loop has visited are free of its run or
  noted in `unreached`, and behind the `--stop` alone also started anew and noted in
  `overtaken`: nothing is started once the `finally` is reached. That a run that is up
  has not ended yet comes from `HandOverInv`.
* **`HandOverInv`.** A peer the revert loop has visited is free of this run's
  shaping or noted among the silent failures, and stays so, because nothing shapes
  once the `try` is left; a run that ends kept or finished came through that loop.
  Outcomes of runs to come are not yet written.
* **`MeasuredInv`.** What the conflict check saw stays true because only the run
  changes it: `Alone` follows containers and qdiscs from the check to the verify,
  `StaticInv` and `TimelineInv` the loop that shapes, peer by peer. Both need that
  a peer between launch and netem has no watchdog but this run's (`Safe`), which is
  what the container's name gives and a bare process does not. What the check could
  not see is carried along by `Unshaped`: no qdisc, or the peer is one it missed.
* **`LineInv`, `PromptInv`.** No release in the queue is later than
  `last_release`, and that one is at most now plus the node's own limit, so
  waiting behind it adds nothing. For a fixed budget a last release that still lies
  ahead is at most the stamp of some message with that release plus floor and budget
  (`Sets`). A late message does not lower the floor (`LateRaisesTheFloor`), so if it
  has to wait for that release, that message's stamp is the newer one.
* **`AnchorInv`.** `ReAnchored` looks back at messages whose deadlines were made
  from the window of then. The window is at every instant the delays of the last
  messages accepted, so on a path whose jitter fits the smallest budget the floor
  plus that budget is at least the delay of the newest.
* **`Issued`, `Ownership`.** A phase belongs to one kind of command. An instance
  belongs to starts that share it or to one smoke; so do its containers and
  every name on a smoke's lists. A container a smoke removes has the smoke's
  instance in its name, hence is its own.
* **`Survival`.** A container that is stopped does not come back: the pair of its
  maker and its name is made once, by a command that leaves that phase behind
  (`MadeOnce`). So what a command saw is gone or still on its list (`Cleared`),
  and what a smoke made is gone or in its `returned` (`Swept`), with its network,
  which docker keeps as long as a container is attached to it (`Attached`).
* **`ConsoleInv`.** The consoles share everything with the other commands, so the
  invariant says of every record, pane, session and manifest whose it is: who
  starts a container starts one of its own instance or on the host, a session's
  option and a manifest name the command that opened it under that session's name,
  and a stop that found its rig by them has names of that run on its lists and no
  others. A step of a rig then touches what bears its own run, or that of the rig
  it stops.
* **`AloneInv`.** A stop that has the workspace to itself clears it piece by piece,
  and what it has cleared stays cleared, since nobody else moves: application
  containers of the peers visited, communication containers not on its list, then
  the session with its panes, then networks, then the manifest. `ConsoleInv` says
  that what it lists is all there is.
* **`Survives`.** The same with consoles, where a bridge is not started by the
  command but by a pane, which outlives it, is killed with its session and bears
  the names a start would use. So the invariant counts what may still run the
  bridge of a peer: the console before its session is open, a window on its list,
  or a pane that is not up yet, and of these at most one (`OnceOf`, `YetOf`). A
  container that is there, or was ever seen there, has none of them left behind it
  (`EachOnce`), hence what was stopped stays away (`ClearedOf`). A smoke needs that
  no console's container bears its instance (`Owned`) and that what is off the host
  is on the network of its own maker (`Linked`).
* **`LookInv`.** A stage remembered at the first look is from then on excused,
  published, or could have been opened ever since by a node that has not refreshed
  since the look. The last cannot last a grace period, for a refresh is shorter.
* **`RolledUp`, `DeliveredInv`.** A report is written whole, so its overall state
  is the one its own stages give, however old it is; panel and test then differ at
  most in how they look at the same stages. That a passed test means delivery
  needs what each stage of the receiver's report says of the stream as it was
  when the report was written (`Truthful`), and that the last stage is its own
  observation, never inferred.
* **`ProbeInv`, `Footing`.** A probe that has passed once probes a candidate that
  can pass, one that failed once a candidate that need not; the counts of a sample
  say which. A value between two brackets is easier than the harder one, so links
  being monotone carries the fact along. `Footing` says what each phase probes.
* **`BoundsInv`.** A failing value was found while the other axes had other values;
  these only get worse afterwards, and a link is monotone, so the candidate with the
  failing value still fails under whatever is chosen later. An axis left open is at
  its far end from its first turn on. The statement is about the axes searched: one
  that no turn visits has neither.
* **`BoundaryInv`.** Whatever the phase, the low end of a bracket can pass and the
  high end need not, on the axis alone; the bisection for the bad value runs between
  neighbours that are found already and are not moved by it.
* **`CapacityInv`.** The loads below the range are at most one that can pass, those
  above it at least one that can fail; when the range is empty the two meet.
* **`PointsInv`.** A point is judged by what ran long after its roots were taken away
  again. The roots behind the case at hand stay those the command found (`Home`),
  and every point is its case of the list, run by the session that case brings or
  else by the first of `Home`; so two rows differ in what their cases differ in. For
  the verdict nothing more of the command is needed, and all of it is in the
  schedule: each repeat runs each configuration once (`EachRepeatRunsAll`,
  `NoRepeatRunsTwice`), so every run of one configuration has a partner in the same
  repeat of the other (`Partners`). If partners differ by at most the tolerance so do
  the k-th smallest readings, for each k (`SmallestShifts`), and a value that all but
  one of at least three runs keep to within the tolerance has the median there
  (`MedianInBand`). That a k-th smallest reading exists is the well-foundedness of
  the naturals (`LeastOf`), not an induction over the runs.
* **`GateInv`.** A worse edge never moves back, and after an improvement the new
  worse edge lies beyond the old centre, by the half-width the band kept; that is
  enough for `OldLevelsStayRed`. `OfferImproves` keeps what `Compare` found true
  of the batch it printed, until a command changes the store. The third part
  needs that no verdict but within goes with exit code zero, whatever a boundary
  or a bag adds to the bands' own verdict (`VerdictIsStraight`).
* **`PointInv`.** That a counted message was sent under the profile needs where both
  egresses stand when the window opens (`ArmedInv`) and that clocks differ before
  and after each edge of it (`WindowInv`); for a loss also that stamps increase, so
  that it lies between two messages that were timed (`StreamInv`). That teardown
  cuts nothing counted needs the drain: when the window is whole the clock is past
  its end by the drain, and no message is held back longer (`DrainedInv`).
  Containers and network depend on how far the starts had got (`StartedInv`).

The theorems of `TmuxSpec` hold with scenarios, rigs and their panes beside starts,
smokes and stops, which is what the run checks; those of `Spec` are about the
plain commands alone, with a shorter invariant. `TypeCorrect` is one of `Spec`
only: with consoles, `ConsoleInv` says of each record what the others need.

The model bounds in these theorems (runs, faults, messages, commands, time, hops'
restarts, severities, rounds) are arbitrary constants, so a theorem holds for each
size there is.

### Model-checked only

Out of the prover's reach:

* liveness under fairness: `ShapingGoesAway`, `EveryMessageLeaves`,
  `EventuallyDelivered`, the end of `ShowsTheLatest` (its safety half is
  `NeverGoesBack`), `EventuallyJudged`, `SearchEnds`;
* `NobodyIsStuck`, which is a statement with ENABLED;
* `OnsetIsClean`, a statement about the given recordings: what is sent before the
  profile is whole, and what arrives then, is theirs. TLC decides it one by one.

* `StagesCarryTheStream` and `OneWriterPerTopic`: the names of topics are made by
  `SelectSeq` over the order of the stages, which is recursive and which the provers
  take as it stands, without its definition. For what it returns there is only
  evaluation: the run goes through the definitions of sessions one by one.

RECURSIVE operators are in none of the modules.

---

## Where code and text disagree

Five runs look for what the repository's text says and find the code doing
something else. `PROJECT.json` quotes both sides.

* `ota_run_midarm`: shapers are registered "before arming so a mid-arm failure
  is still reverted in `finally`". The list is the callee's; when arming raises
  the caller's is empty and the qdisc waits for its watchdog.
* `benchmark_dead_link`: a topic nobody accounted for has no loss to report, and
  the oracle's documentation counts it as the worst case. The verdict of a sample
  reads the loss as a number first, and the command ends in a `TypeError` at the
  first network that carries nothing.
* `status_one_report`: the test is said to read each peer's report and to check that
  every crossed topic was delivered. It passes on the sender's report alone when the
  receiver has written none.
* `status_profile`: under a profile the bounds of that profile are to be asserted.
  The status node grades by the bounds of no profile, and the test fails what it
  graded BAD before it looks at the profile's.
* `benchmark_recovery`: RFC 0005 defines the losses of the outage by its window.
  The window is on the clock of the profile, which begins at zero, and is compared
  with the wall-clock stamps of the records: no loss is ever inside it.

Others came up while translating and are kept out of the runs' assumptions or
properties rather than checked by a run of their own:

* The epoch is said to make the join's key unique (`transit.py` 55). It is local
  to an observer; after a restart of the sending peer its own rows count from zero
  and meet the receiver's rows of the earlier process.
* A backward jump to zero is called unambiguous. Zero delivered behind one begins
  an epoch with no restart; `FieldOrder` leaves that out. With a restart right at
  the edge of the tolerance (`MinRun` 3 in the instance) the unwrapper's restart
  log and the live epoch disagree, though one comment has three consumers agree.
* Messages later than their deadline are said to pass immediately
  (`playout_pacer_core.py` 6-7). With an adaptive budget one may wait for the
  message in front, released under an older and larger budget; with a fixed
  budget one waits only when stamps went back, as in the "looping replay" of lines
  78-85, for a message of a newer stamp (`LateWaitsForNewer`).
* Who is refused because a peer "already runs rosotacom containers" is told to stop
  the active run first with `--stop` (`cli.py` 3011-3015). Beside a live run that
  writes `stopped` into its manifest while the orchestrator goes on to start the next
  peer, which then runs under a manifest that says otherwise; the run's own `finally`
  stops it later. `StoppedMeansStopped` excepts these peers by name (`overtaken`).
* The conflict check is said to make OTA runs exclusive to their hosts (3012). Its
  question for shaping fails silently (3019-3040): over a qdisc a crashed run left, a
  run whose profile has one direction then measures its other peer under it.
* `start` is said to ignore smoke-isolated containers (`CONCURRENCY.md` 75-79).
  Its match is by name and drops the networks it was given (`cli.py` 5856-5858);
  it stops a running smoke's peer of the same name.
* `scenario stop` is said to own the cleanup of applications, container and tmux
  session (`README.md` 391). It stops the containers before it kills the panes:
  one that is still building brings its container up after the containers were
  listed, and a detached container outlives its pane. `StopCleansUp` is about a
  stop with the workspace to itself.
* A stop of a rig that finds an active run clears that run only; without one it
  takes the bridges of both peers of every instance, those of smoke runs and
  starts in progress included, and every network of the target.
* A `scenario stop` takes every communication container of its peer, whatever
  network it is on, hence those of smoke runs too.
* A run that is replaced or whose session could not be opened keeps a manifest
  without an end; a stop marks the latest that names the console, which after two
  starts of one need not be the one that ran.
* `sensitivity` has a row for each value of the loss correlation "at the base
  profile's loss rate" (`cli_benchmark.py` 2440). A base profile without loss gives
  all of them one and the same network, as a correlation is written only beside a
  loss (2258-2261): the rows name values they were not measured under.
  `ACaseVariesItsAxis` is about a base profile with loss, as is its instance.
* A mirrored or prefixed topic is described in the generator and in the session
  documentation otherwise than `topic_resolution.py` resolves it
  (`creation/generate_session_files.py` 1613, 2877).

---

## What is not modelled

| Part | Why |
| --- | --- |
| Heartbeat echo's estimator | four time stamps and a minimum; a textbook bound over real numbers. Its topic is a stream of the wiring and a stage of the startup check |
| Compressor's and unwrapper's graph scans with QoS changes | planned; the pairs of `RelayChain` are the same idea |
| Transitions, expectations on the link, the rate expected where none is declared, `test --suggest`, `calibrate` | functions of one snapshot, or of two; a failed write loses a transition, which no text promises against |
| Load ratchet, latency and loss axes of the search, fitting of bands, replay of bags, several streams and repeats of one probe | planned, or loops over points without decisions that depend on each other |
| Two orchestrators at once, an orchestrator longer than its watchdog's hour, interactive tmux mode of `ota-smoke` | planned as extensions of `OtaRun` |
| Attach mode, manifests of plain starts, fixed container names, `--instance-id` of consoles, the verification and status panes of a rig, its topic publishers, interactive `ota-smoke` | planned as extensions of `TmuxRuns` |
| tmux's matching of session names by prefix | names are compared as wholes |
| QoS, replay of transient-local publishers, values that fail to serialize | the chain is modelled for volatile readers, the weaker case |
| Clocks that step | no bound on a hold survives one, and none is promised |
| `_zenoh_key_expr_for_topic` | joins names for a router outside `src/`; it is text |
| Payloads, serialization, tc arguments, docker arguments | data no property looks at |
| Latency statistics, plots, forensics, anonymizing, image tools, telemetry readers | arithmetic and rendering on samples, without state that several actors share |
| Validation of session files, image cache, host probes | transformations of configuration; external commands |

Hazards without a property carry a note that says why.

---

## The plan

Order: what decides the truth of a measurement first, then what can damage a
peer's host, then what a session needs to deliver anything, then the searches.

1. Done: the modules above.
2. Proofs: every safety property of the runs that the prover can reach is a
   theorem. Next: `TypeCorrect` of `Workspace` under `TmuxSpec`, and the wiring, once
   the suffixes of a name are no longer filtered from a list but written one by one.
3. Extensions: two orchestrators and a clock in `OtaRun`; the interactive
   `ota-smoke` beside `TmuxRuns`; resubscription of the compressor beside `RelayChain`; the load
   ratchet and the remaining axes beside `ProfileSearch`.
4. The clock-offset estimate with restarts of the echo node under an estimator
   that lives on.

---

## Running it

```
tlc -workers 2 -config workspace.cfg MCWorkspace     # one run; see PROJECT.json
tlapm Workspace_proofs.tla                           # one proof module
```

Every run ends within three minutes on two cores.
