# TLA+ specifications of agent-hpc-runtime

agent-hpc-runtime watches the tool calls of LLM agent workflows (ChemGraph, AtomAgents) on HPC
nodes, predicts the resources the next tools will need (a vLLM engine, a MACE checkpoint, data
files) and loads them in the background. A wrong prediction must be noticed, its loads taken back
and its cost charged; and an evaluation that runs the arms of an experiment over many batch jobs
must count and measure what really happened.

Paths below are relative to the repository (`runtime/...` is `src/runtime/...` in `PROJECT.json`); line numbers are those of the commit modelled.

## 1. Inventory

| Component | State | Operations | Talks to | Module |
|---|---|---|---|---|
| Prefetch policy (`prefetch/scheduler.py:226-260`, `config.py`) | none | `_should_prefetch` | called by `schedule` | `PrefetchPolicy` |
| Prefetch scheduler (`prefetch/scheduler.py`, `base.py`) | `_tasks`, `_resource_to_task` under `_lock`; the fields of each `PrefetchTask`, not locked | `schedule`, `cancel_all_pending`, `on_resource_consumed`, `_wait_for_completion` (a thread per task) | adapters and detector call it; it calls an executor and the event bus | `PrefetchScheduler`, `ResourceSlots` |
| Executors' loads (`mace_prefetch`, `model_cache_prefetch`, `megammap_stage`, `data_prefetch`) | MACE cache and events, stop events, subprocesses, a scratch directory | load functions, `cancel`, polls, `shutdown`, `get_cached_mace_calculator` | write `task.status` from pool threads; tools take calculators | `TaskCalls`, `MaceCache`, `PageCacheStaging`, `MegaMmapStaging`, `FileStaging` |
| Detector and checkpoint store (`guard/detector.py`, `checkpoint.py`) | `_pending_queue`, `_conservative_until_step`, `_accuracy`; `_records` | `on_prediction`, `on_tool_about_to_execute`, `is_conservative` | called by the AtomAgents adapter; cancels through the scheduler | `DivergenceDetector` |
| AtomAgents adapter (`adapters/atomagents.py`) | step and tool counters, plan context and window | `_on_llm_response`, the reply handler, `_stamp_consumed` | predictor, detector, scheduler | `AtomAgents` |
| ChemGraph adapter, predictions (`adapters/chemgraph.py:900-1060`) | one pending checkpoint, the store, its own conservative window | `on_tool_start` | scheduler, predictor | `ChemGraphTools` |
| ChemGraph adapter, engines (`chemgraph.py:100-800`), `model_prefetch`, `sleep_wake`, `specialist_proxy` | plan, `_pool_pending_boot`, `_staged_models`, which engine serves, forwarding target | `on_chain_start/end`, pool maintenance, `swap_to_model`, `_load_model`, eviction threads | orchestrator (external), vLLM engines | `SpecialistRouting` |
| Predictors (`runtime/predictor/`) | transition table, plan context, reference trace | `learn_from_traces`, `predict`, `extract_plan` | called by adapters | `TransitionLearner`, `PredictorReplay` |
| Event bus (`event_bus.py`, `events.py`) | JSONL file | `emit_event` | everybody | `WorkflowTrace` |
| Trace analysis (`analysis/`, `measurement/timings.py`, `scripts/parse_eval_traces.py`, `extract_prefetch_lifecycle.py`) | none | records, classes and sums of a trace | offline | `TimingReports`, `EvalReports`, `PhaseMetrics` |
| Measurement (`measurement/system_profiler.py`, `cluster_probes.py`) | samples, snapshots | sampling thread, deltas around a load | experiments | `SystemProfiler`, `ClusterProbes` |
| Runners (`experiments/chemgraph_exp.py`, `atomagents_exp2.py`, `atomagents_exp3.py`) | the process of a trial | set up, workflow, clean up, summary | orchestrator, adapters | `ExperimentArms`, `ExperimentRunner` |
| Evaluation driver (`experiments/run_eval_q1_q4.py`) | the result tree, the matrix still to run | run a campaign, resume it | runner processes, Hermes daemon | `EvalDriver` |
| Demos, plots, setup scripts, Slurm files | none | | | not modelled |

### What is hard in it

* **Unlocked statuses.** `task.status` is read and written by caller, pool thread and waiter.
  `_lock` covers two dictionaries only: each test of a status and the assignment after it are two
  steps (`scheduler.py:172-189`).
* **Cancellation at any time**: before the task has a route (`data_prefetch.py:185`), while its
  future is queued, while it loads, in the instant the load decides its verdict, after its end. A
  model load cannot be interrupted: only the intent is recorded (`model_prefetch.py:214-224`).
* **Consumption out of order**: before the load has ended, after it was cancelled, or when a
  later prediction owns the resource.
* **Three kinds of thread move engines** on shared GPUs: the callback, the executor's load thread,
  eviction threads.
* **Nested conversations.** Tools of inner chats run while predictions of the outer one are queued;
  the step counter is shared by all of them.
* **Jobs end.** The campaign outlives its batch jobs; engines and the daemon outlive trials.
* **Measurements are taken by others**, late (poll threads), through counters everybody moves, or
  by programs that rebuild the same record on their own.

The hazards, each at its line with the properties about it, are listed in `PROJECT.json`.

### What makes each component correct

* Scheduler: one prefetch in flight per resource; a prefetch is credited or charged, not both;
  waste stays waste; a cancellation that reached the load is not answered by COMPLETED; what is
  started settles and is reported with a final status.
* Executors: what is reported staged was staged; a stopped load stops; a calculator is loaded once
  and serves one tool; nobody waits for ever.
* Detector: a prediction is judged once, in a later step and within its window, by a tool it
  matches; every verdict is counted; divergence releases the prefetches and silences the predictor.
* Adapters: hooks happen in order; verdicts fall at the step a prediction names; a cancellation
  reaches everything started before it; loaded resources are re-armed.
* Engines: two engines on one GPU never hold its memory together; idle engines are evicted; every
  worker task is served, or lost for a reason.
* Predictors: the table tells what the traces show; a run that is known is predicted right.
* Campaign: targets are met exactly over interruptions; what counts is evidence; trials do not meet
  each other's leftovers; a verdict on disk stays; the driver ends.
* Measurement and reports: seconds, classes and causes are those of what happened.

## 2. Modules

State is named as in the code where TLA+ allows it; `PROJECT.json` maps every definition to its lines.
Definitions called "mistaken" in a comment are variants of their neighbour with a plausible error:
putting one in the neighbour's place makes the property listed with it in `PROJECT.json` fail.
`MC*` modules only hold the constants' values. Modules suffixed `Suite` explore independent parts one
at a time in one run.

### PrefetchScheduler (with PrefetchPolicy)

*State.* `ntasks`, `taskOf` are `_tasks` and `_resource_to_task`. Tasks are numbered in the order of
registration, in which `cancel_all_pending` visits them. `status`, `res`, `ckpt` are task fields.
`call[c]` holds the locals and the position of a thread that is inside a method. `future[t]` is the
pool future with the position of the load function (`queued`, `loading`, `check`, `write`, `done`;
`raised` and `dropped` are its other ends). `routed`, `tracked`, `told` are `_routing`, `_futures`,
and `_cancelled_tasks` with the stop events. `waiter`, `report`, `ledger` are the waiter threads and
what they and the consumptions put in the trace. `landed` is a history variable.

*Actions.* `schedule()` is `ScheduleCall` (deduplication and policy), `Register` (second acquisition
of `_lock`), `Route`, `Begin`, `Submit`, `Track`. `cancel_all_pending()` is `CancelCall` (the
snapshot), then per task `Visit`, `Sample`, `ExecCancel`, `Annul`, `Mark`. `on_resource_consumed()` is
`ConsumeCall`, `Judge`, `Use`. A load is `LoadBegins`, then `LoadEnds`, `LoadFails` or `LoadRaises`,
then `Check` and `Write`. A waiter is `StopPolling`, `Report`.

*Abstractions.* The policy is evaluated together with the deduplication: its inputs do not change.
Any queued future may be the next to begin within `PoolSize` (the pools take them in order: the model
allows more). `on_resource_consumed()` may name any resource that has a task, at any time. What a
load does in detail is in the four modules of the executors.

`ResourceSlots` is the abstract specification: a slot per resource, claimed, delivered, released.

### The executors' loads: ExecutorSuite

* `TaskCalls` is what the scheduler does to a task that an executor loads, for hooks that run
  concurrently: `Register`, `Starts` (`start()` assigns a status), `Files` (the load is where `cancel()` finds it);
  `SweepTask`, `SampleCompleted`, `Reaches` (`executor.cancel()`), `Marks` (CANCELLED), `ChargeWasted`; `FindConsumed`,
  `StampUsed`. Between any two of them other threads run. Each executor EXTENDS it and says what its `start()`
  and `cancel()` do to the load. `withdrawn` is a history variable: whether a CANCELLED was assigned while a
  load, a poll, a `start()` or a stamp stood between its test of the status and its assignment.
* `MaceCache`: `cache` is `_MACE_CACHE`, `inFlight` is `_MACE_PENDING` (which load's event a key has),
  `load[t]` the position of `_load_mace`, `tool[c]` that of a tool in `get_cached_mace_calculator`. The steps of
  `Loader` and `Need`, `WaitEnds`, `TimesOut`, `ToolEnds` are the lines between which other threads run: `LoadEnds` tests the
  status, `Keeps` assigns COMPLETED, `EventSet` releases the waiters.
* `PageCacheStaging`: `future[t]` is `_stage_all`, `reader[t][w]` the position of a reader in its slice
  of the shards, `stop` the stop events. Readers test the stop event between chunks. `StageEnds` and
  `TestsProgress` are the tests at the end of `_stage_all`, `Settle` the assignment (`verdict`).
* `MegaMmapStaging`: `process`, `signals` are the subprocess; `waiter` the scheduler's thread whose
  polls are the only way its end is seen: a poll tests the status, then sees the process, then assigns;
  `GivesUp` is the two-hour deadline, `PipeFills` a
  process that blocks on its output pipe (`megammap_stage.py` reads it only after the exit).
* `FileStaging`: `copy[t]` is `_stage`, up to its test, the assignment and the redirection, each a step;
  `scratch` the directory by destination name, `staged` the tasks whose `resource.path` was redirected.

### SpecialistRouting

*State.* `thread` holds the position of the callback thread and of the load thread; `boots` the
`vllm_model` prefetches in order; `evicting` what eviction threads have still to stop; `engine[m]` is
down for one of several reasons, loading, ready or asleep; the callback's position `lost` is a task
whose engine never came, `unserved` an aggregator that did not; `pending`, `staged`, `plan`, `target` and
others are the adapter's fields. `overlooked` is a history variable: engines given a boot while
another was under way that `_pool_pending_boot` did not show. `config` is the arm: disjoint pools,
stop/start swaps, sleep/wake swaps, with their ablations.

*Actions.* `on_chain_end` of the planner, `on_chain_start` of a worker turn (`Decide`, `StopOverlapping`,
`StartOnDemand` or the steps of `swap_to_model`, `Consume`, `Wait`, `Flip`, `Maintain`), of the
aggregator, the tool that stages the transition, a divergence, the request through the proxy, and the
load thread (`TakeBoot` ... `BootEnds`, `ReapWasted`). The orchestrator is external: starting an engine
that is up kills both (`chemgraph.py:447-450`).

### ChemGraphTools, AtomAgents, DivergenceDetector

* `DivergenceDetector`: `step` is the adapter's counter; `nckpts`, `madeAt`, `predicted`, `by`, `status`
  the records; `queue` is `_pending_queue` as a set, since its order is that of the numbers; `until` is `_conservative_until_step`; `known`, `hits`,
  `misses` the trackers; `outstanding` the checkpoints with prefetches not cancelled. `_on_llm_response`
  is `Respond`, `AskConservative`, then `PredictNothing` or `OnPrediction` with `ScheduleResources`;
  `on_tool_about_to_execute()` is `ToolFires`, `Select` (one acquisition of `_lock`), `Tally`,
  `CreateTracker`, `Record`, `Resolve`, `CancelPrefetches`, `EnterConservative`. A name is a model value
  and `str.startswith` the relation `ProperPrefix`. The age window's constants are parameters
  (`max(8 * max_horizon, 60)` in the code), so that the run leaves it after one step.
* `AtomAgents` EXTENDS it and composes its actions with the adapter's: `LlmResponds`, `LookForPlan`,
  `KeepPlan`, `ReplyHandler`, then `Snapshot`, `LookAtTask` of `_stamp_consumed()`. The scheduler appears as `task`
  with every step of its methods: `Deduplicate`, `Register`, `StartLoad` of `schedule()`; `SnapshotToCancel`,
  `SweepTask`, `SampleCompleted`, `ExecutorCancel`, `ChargeWasted` of `cancel_all_pending()`; `FindLatest`, `TestLatest`,
  `StampLatest` of `on_resource_consumed()`; `LoadTests` and `LoadCompletes` or `LoadFails` of a load. The other
  conversation and the loads come in between any two. `orphan`, `unstarted`, `late`, `early` are history variables:
  the tasks that went past a cancellation, by how.
* `ChemGraphTools` is `on_tool_start` of ChemGraph, one action per call it makes, over an instance of
  `ResourceSlots`, which `PrefetchScheduler` implements for one calling thread. Loads end between
  any two calls. A prediction is a record of resources, the first one's offset and the horizon.

### TransitionLearner, PredictorReplay

`TransitionLearner` has one action per round of the loops of `learn_from_traces()`, and the table
as operators. `PredictorReplay` EXTENDS it: a tool starts, the pending prediction is judged as the
ChemGraph adapter judges, and the oracle, the mock, the plan or the table predicts the next one.
Probabilities are whole percents. The tables of the mock and of `tool_resources.json` are constants:
sequences of resources, a mock's with the tool that triggers them; `ReplayConstants` says that among the resources
of one trigger the first is the first due, as in both tables of `mock_predictor.py`.

### ExperimentArms, ExperimentRunner, EvalDriver

`ExperimentArms` is constant: the arms of each workload and the settings a runner makes of their
command lines. `ExperimentRunner` is one process (`stage`), its engines and boots, with every exit the
code has; `summary` is what its summary says of the outcome: `done`, `not_done`, or `unsaid` where the runner
leaves it out (exp3) or cannot tell (exp2). `EvalDriver` EXTENDS it: `disk` is the result tree, `todo`, `failures`, `idx`, `at` the
driver's variables, `left` the time of the job. `KillServers` sends the signal to what serves or boots (`ending`), which goes in its
own time (`Exit`); the driver launches the trial when the GPUs have drained (`Clear`) or after 300 s all the same
(`GiveUpDrain`, remembered in `undrained`). `JobEnds` takes every process away at any moment;
`JobStarts` runs the same command again on what the disk says.

### WorkflowTrace, TimingReports, EvalReports, TraceReports, PhaseMetrics

`WorkflowTrace` writes the events of a swap-mode ChemGraph run; `needs`, `thought` and `tasks` are what
really happened. `TimingReports` (`overlap_report.py`, `timings.py`, `trace_analyzer.py`) and `EvalReports`
(`parse_eval_traces.py`, `extract_prefetch_lifecycle.py`) are operators on the events; `TraceReports`
compares the two. `PhaseMetrics` does the same for the metrics file of an AtomAgents run.

### SystemProfiler, ClusterProbes (MeasurementSuite)

`SystemProfiler` is the sampling thread line by line (`thread`, `wakes`, `row`), engines that come and go
under new pids, nvidia-smi that answers or times out, and `stop()`. `ClusterProbes` is a load between
two snapshots of the counters, with reads by this process or by an engine, from three kinds of
storage, and the traffic of others.

## 3. Runs

| Run | Question | Bounds | States |
|---|---|---|---|
| `scheduler` | Does one adapter thread get the slot contract, with credit and waste kept apart, over every type of resource, failing starts and loads, and loads beyond the deadline? | 6 resources, 1 checkpoint, 2 tasks | 4.0 M |
| `scheduler_threads` | Three adapter threads on one prefetch: settled loads, cancellations that stick, reports that come | 4 types, 1 task, `FairSpec` | 1.1 M |
| `detector` | One conversation: verdicts, counts, windows, ablation | 5 steps, 3 checkpoints, 3 tools | 112 k |
| `atomagents` | Two conversations through the adapter's hooks, detector and scheduler | 3 steps, 2 checkpoints, 2 tasks, 2 tools | 5.6 M |
| `chemgraph_tools` | Two-phase `on_tool_start` over the slots | 4 tool starts, 2 resources, 3 tools | 4.8 M |
| `specialist_pool` | Engines, residency and routing over arms and ablations | planner and 3 tasks of 2 turns, 4 engines, 11 configurations, `FairSpec` | 700 k |
| `specialist_double_boot` | (violation) one boot per engine | 2 tasks of 1 turn, disjoint pools | stops at 0.2 k |
| `executor_loads` | What the loads of four executors do | 2 MACE tasks and 2 tools on one key; 2 copies of one file; 3 shards, 2 readers, 2 chunks; one task each may be cancelled; `FairSpec` | 395 k |
| `predictors` | Learning and every source of predictions | 2 traces of 3 events; runs of 4 tools | 152 k |
| `eval_driver` | Campaigns over interrupted jobs | 6 commands, 2 jobs of length 4, `FairSpec` | 859 k |
| `trace_reports` | What four reports make of one trace | 3 tools, 144 timings, 3 modes | 1.0 M |
| `measurement` | Profiler, probes, nested phases | 3 changes of engines, 4 samples, 2 loads, 4 phases, `MeasureSpec` | 1.7 M |

### What they show

A property with several parts is a conjunction of named ones, each with its comment in its module.

* `scheduler`: `OneInFlight`; `ReportIsFinal`; `RevokedForGood` (`UsedXorWasted`, `WasteIsFinal`,
  `LandedCancelSticks`); `SlotContract`: the scheduler implements `ResourceSlots` under the mapping that
  calls a slot claimed while its latest task is unsettled and ready while it is COMPLETED.
* `scheduler_threads`: `SettledWhenDone`, `LandedCancelSticks`, and `EveryTaskReported` (liveness).
* `detector`: `VerdictSound` (`TypeOK`, `VerdictOfItsTool`, `SettledLater`, `SettledInWindow`),
  `EveryVerdictCounted`, `DivergenceActs` (`ConservativeWindow`, `DivergedReleased`), `AblationInert`.
* `atomagents`: `HooksInOrder` (`AATypeOK`, `OldestFirst`, `PlanFromPlanning`), `ReArmed`,
  `CancelCatchesStarted`, `JudgedOnce`.
* `chemgraph_tools`: `JudgedRight` (`ToolsTypeOK`, `JudgedWhenExpected`, `NextToolJudges`,
  `SupersededExpire`), `DivergenceActs` (`DivergedReleased`, `ConservativeSilence`).
* `specialist_pool`: `VramExclusive`; `BootsAccounted` (`TypeOK`, `PendingBootsRespected`,
  `LostForAReason`, `RequestsReachSpecialist`); `ResidencyJustified`; `TasksServed` (liveness).
* `executor_loads`: `StagingSound` (page cache and MegaMmap: completed means read, a stop stops, only an
  exit with 0 succeeds, cancelled processes get their signal), `RedirectSound` (`RedirectedFindsFile`,
  `RedirectedWhenWanted`), `CancelledForGood` (of MACE, page cache and MegaMmap, for cancellations that met no call
  between its test and its assignment), `CalculatorsOnce` (no double load, handed out once),
  `LoadsEnd` (liveness: waiters released, staging ends, the end of a process is noticed).
* `predictors`: `TableExact` (`CountsExact` and `NoOverconfidence` against a definition over the whole
  traces), `KnownRunsHit` (`OracleRight`, `PlanRight`, `TableRight`, `FirstDueFirst`).
* `eval_driver`: `CampaignLedger` (`TypeOK`, `Ledger`, `Balanced`, `ShortForAReason`),
  `TrialsAreEvidence` (`CompletedWorked`, `OracleFromCompleted`, `ArmsApart`), `TrialsIsolated`
  (`FreshEngines`, `DaemonPerTrial`), `DiskIsRecord` (verdicts stay, a late trial is cut), `DriverEnds`
  (liveness).
* `trace_reports`: `SecondsTrue` (`TypeOK`, `GateStallCounted`, `GateOnce`, `ResidualTrue`,
  `BaselineReconciles`, `ReasoningExact`), `RecordsAgree` (`ReportsAgree`, `AnalyzerLag`), `OutcomesTrue`
  (`ClassesTrue`, `VerdictJoined`, `ExpiredWithin`, `MissedPaid`, `WrongAfterWindow`).
* `measurement`: `ProfileTrue` (`TypesOK`, `IdleExact`, `RunningSampled`), `CausesTold` (`SourceRight`,
  `NoCacheUnseen`, `Q2Exact`, `BlamedRight`), `ProfileComplete` (liveness: `stop()` returns after the
  last row).

`specialist_double_boot` is expected to fail. `chemgraph.py:445-450` says that booting an engine again
while its boot is under way "races two engines onto the same GPUs/port and kills both" and that the
code falls through to a wait then. `BootedOnce` states it; TLC shows the plan's first prefetch, which
has no entry in `_pool_pending_boot`, and the first worker turn starting the same engine while the load
thread still evicts the planner.

### Bounds

`MaxTasks`, `MaxCheckpoints`, `MaxStep`, `NSteps`, `NTasks`, `NTurns`, `MaxTools`, `MaxJobs`, `MaxChanges`,
`MaxSamples`, `MaxLoads`, `MaxTraffic`, `MaxSeconds`, `MaxTime`, `MaxPhases`, `MaxDepth` bound counters and
sequences that grow without limit.

* Two scheduler tasks are the least for which deduplication, reuse of a resource and two waiters
  happen; no property relates more. The properties of `scheduler_threads` speak of one task each, whose
  status the threads of no other task write: its states go into callers and kinds of load.
* Three checkpoints let two predictions of one tool be queued while a third resolves. With
  `AgePerHorizon = AgeFloor = 1` five steps go past the age window, which the code's constants (8, 60)
  put at 60 steps. `ConservativeSteps = 1` tells the window's first and last step from those outside.
* `atomagents` has two conversations, in each of which a response, a verdict and the next response fit.
  Of the two tools the shorter name is predicted but never run, so that a prediction of it is judged by the tool that
  continues it and diverges for any other reason than an unrelated tool.
  `SYMMETRY` permutes the conversations, under invariants and `JudgedOnce` only.
* Four tool starts hold a prediction, its verdict, the silent window and the prediction after it. The
  run identifies states that differ in the numbers of checkpoints and verdicts only (`VIEW`).
* Three worker tasks let a specialist be routed to, left idle, and needed again; two turns let a task
  continue after its marker was read. The arms are one configuration each: `MCSpecialistRouting`.
* One MACE key suffices: keys do not share an event. Of two MACE tasks, and of two copies of one file, one may
  be cancelled (`Diverging`) and both consumed: every race is between the calls on one task, and the other task is the
  load or the copy beside it. Page-cache and MegaMmap tasks share nothing, so one is enough. Three shards for two readers make a slice with more
  than one shard; two chunks per shard give a stop between chunks.
* A job of length 4 holds a trial that runs into its timeout (2) but not two ChemGraph or exp2 trials (estimate
  2 and margin 1): the driver stops for lack of time, is cut, and resumes. Commands have at most two
  configurations, enough for the round robin and for an oracle behind its reference; exp2 runs the arm that
  starts every model, and two trials of one exp3 arm would fit into a job.
* Runs of four tools hold every pair of offsets the tables use (1 and 2) with a tool on either side.
* Time in `trace_reports` is in ticks, in which loads last 1 to 3 ticks and a poll thread
  reports after 0, 1 or 4, so ends fall before, at and after the need, and are logged after both.
* `measurement`: an engine that comes, goes and comes back is three changes; shards are in units of
  10 MB, and other traffic is either below or above what the vote tolerates.

`CHECK_DEADLOCK FALSE` is set where behaviours end: a workflow, a campaign, a trace or a profile is
over. `scheduler`, `scheduler_threads` and `detector` check deadlock: an adapter can always call again.

### Fairness

Only what threads, processes and time give; nothing obliges a workflow to call.

* `scheduler_threads`: a caller inside a method, a load that began (`SlowLoads = FALSE`: within the
  waiter's deadline) and a waiter go on. `EveryTaskReported` excepts loads that raised or were
  withdrawn: after those the code never settles the task, or settles it without a report.
* `specialist_pool`: the callback thread, the load thread and the eviction threads run, and an engine
  that is loading comes up or fails. A task must be served or end the workflow; without the orchestrator's
  boot deadline (external) an engine could load for ever.
* `executor_loads`: pool threads and readers run, waiters poll, a process that was signalled or has its
  work done exits. A process blocked on a full pipe, which nobody reads, is not obliged to exit.
* `eval_driver`: the driver goes on, time passes, a process past its timeout is killed, and a job
  without time left ends. No further job is promised: `DriverEnds` is about the driver in its job.
* `measurement`: the profiler's thread and the caller of `stop()` go on, and time passes.

### Limits of the properties

* `OneInFlight`, `WasteIsFinal` and `SlotContract` are for one caller: two threads pass the
  deduplication together (`scheduler.py:77`). `UsedXorWasted` counts consumptions that found the load
  ended. `LandedCancelSticks` leaves out MACE with several callers: its load assigns COMPLETED over
  USED (`mace_prefetch.py:289`), and cancellations after the load's last look.
* `EveryVerdictCounted` and the detector's `DivergenceActs` are for one conversation: with two, a
  tracker can be created twice (`detector.py:167`), and a prediction in progress outlives a divergence.
* `CalculatorsOnce` is for one executor: with two, the first load's end removes the entry of the second.
* `RedirectSound` is for files with different names: two sources of one name share a destination. A copy
  that was cancelled after its test is redirected all the same (`data_prefetch.py:126-128`).
* `CancelledForGood` speaks of cancellations with `withdrawn = "clear"`. One that is assigned while the load has
  tested the status and not yet assigned its own, or while a poll (`megammap_stage.py:156-161`), a `start()` or a
  stamp is in that place, is overwritten by the code, and the task goes on as COMPLETED, IN_PROGRESS or USED.
* `CancelCatchesStarted` names four escapes: a task registered after its checkpoint diverged (`orphan`), one cancelled
  between its registration and `executor.start()`, which assigns IN_PROGRESS over CANCELLED (`unstarted`:
  `simulated.py:43`, `data_prefetch.py:73`), one whose load had passed its last test (`late`), and one stamped as used
  while it loaded (`early`). It says that there is no fifth.
* `VerdictSound` leaves open which tools a prediction is compared with. The code passes over a tool that it does not
  name (`detector.py:154-156`), the tests and docstrings count one as a miss; see below.
* `TrialsIsolated` excepts engines that were told to end and outlast a drain that the driver gave up
  (`run_eval_q1_q4.py:514-517`).
* `NoDoubleLoadStep` excepts a tool whose wait of 60 s ran out.
* `CausesTold` says nothing of an engine's load where the counters could be read: what the probe itself reads of
  `/proc` and of nvidia-smi (`cluster_probes.py:275, 317-326`) raises `rchar`, so that such a load is told
  `page_cache` whatever the engine read.
* `PendingBootsRespected` and `LostForAReason` except engines in `overlooked`: boots the adapter lost
  sight of, of which `specialist_double_boot` is the shortest.
* `CompletedWorked` speaks of AtomAgents trials whose summary tells how they ended. That of exp3 never does, and that
  of exp2 does not when the metrics cannot be read (`atomagents_exp2.py:388-390`); the driver counts both as completed.
* `PlanRight` and `TableRight` ask for runs without repeated tools, since plan and table place a tool
  by its first occurrence, and `TableRight` for traces without model calls, which lengthen the distances
  learned; `OracleRight` asks that an event that tells its step tells the true one. `RunningSampled` excepts an engine that came back under another pid.

### Disagreements and risks met while modelling

The models keep what they touch of these as the code has it; none is a run of its own.

* Scheduler: two callers racing (`scheduler.py:77` against `:41`); a late cancel is lost
  (`model_prefetch.py:338` against `:162`); a resource consumed before its load has ended is loaded a
  second time in parallel (`scheduler.py:81`).
* Detector: a tool nobody predicted is a hit (`detector.py:154-156` against its docstrings at `:6-7`, `:107-112`, and
  `runtime/tests/test_divergence.py:59-76, 99-105, 199-217`, `test_atomagents_adapter.py:279-308, 354-368`). No property
  takes a side.
* AtomAgents: a divergence between queueing and scheduling leaves orphans (`atomagents.py:282`), and one between
  registration and `executor.start()` is forgotten (`scheduler.py:107-112`, `simulated.py:43`); a task
  can be stamped as consumed while in flight (`:361-366` against the comment at `:356-358`);
  `_tool_call_count` counts the tools of all conversations; a JSON object with a `name` in the text of a
  response counts as a tool call, whatever it names (`:530-590`).
* ChemGraph predictions: a prediction two steps ahead is always overwritten before its verdict
  (comment at `chemgraph.py:1005`); the other resources of a validated prediction are neither consumed
  nor cancelled; a divergence cancels the prefetch of the tool that is running (`:966`); a deduplicated
  task keeps the older checkpoint.
* Engines: keep-all and blind divergences cancel a pre-boot that is needed (`:393`); a slow eviction
  stops an engine booted since (`:167`).
* Executors: a cancellation between a load's or a poll's test of the status and its assignment is lost
  (`megammap_stage.py:156-161`, `mace_prefetch.py:289-291`, `data_prefetch.py:126-127`, `model_cache_prefetch.py:241-242`);
  an unreadable shard counts as staged; a calculator wasted by a divergence stays cached and
  serves the next tool, a handed-out one blocks its next prefetch while COMPLETED; a failing `makedirs`
  leaves a task IN_PROGRESS; nothing outside `prefetch/` reads `task.resource.path`.
* Predictors: explicit and counted steps of a trace collide in the oracle; calls of the LLM between
  tools shift learned offsets (`transition_learner.py:182` against `:42`); an entry of
  `tool_resources.json` is skipped because it has a `_comment`; oracle and mock guess a workflow in
  different orders; `computation_task_screw_dislocation` is predicted after itself.
* Campaign: failed exp3 workflows, and exp2 ones whose metrics cannot be read, count (`run_eval_q1_q4.py:810` against `:15-16`); a trial is
  launched on GPUs that are still busy (`:517`); a driver that dies
  leaves "running" records; what raises between daemon start and launch leaves the daemon up; silent
  fallbacks to the mock or to simulated executors keep the arm's label (`chemgraph_exp.py:526-540`).
* Reports: `gate_group` keeps the first row, so `gpu_serialization_residual` is dropped (docstring of
  `extract_prefetch_lifecycle.py:46-50`); `exposed_stall_s` counts twice after cancelled tasks and in
  observe mode; a FAILED task that is consumed is "useful"; `overlap_report` never joins
  `prediction_validated`; `trace_analyzer` takes poll times for ends.
* Measurement: an engine restarted under another process is sampled as absent for ever
  (`system_profiler.py:337-345`); one failure of nvidia-smi at the start leaves a run without GPU
  columns; the vLLM child's reads are not in `/proc/self/io`, and a half-cached NFS load is told "nfs"
  (docstring of `cluster_probes.py:35-41`); nested `llm:inference` phases count as tool time too.

## 4. Proofs

Every theorem below holds for every value of the constants under the named `ASSUME` of the module it is
about (`ConstantsOK`, `SuiteConstants`, `DetectorConstants`, `ToolsConstants`, `AtomAgentsConstants`,
`DriverConstants`, `RoutingConstants`, `TraceConstants`, `ReportConstants`, `LearnerConstants`, `ReplayConstants`: types of the constants, non-empty sets of keys and
tools, plans and commands that are sequences, counts of at least one where the code loops at least once,
loads and tools that take some time). Further hypotheses are stated in the theorem. Each proof is the same argument: an inductive invariant, a lemma
per action that it is preserved, and the property from the invariant.

### Scheduler: PrefetchSchedulerProofs

For every number of callers, resources, checkpoints and tasks, every assignment of types to executors,
with and without the composite executor:

* `TypeCorrect`: `Spec => []TypeOK`.
* `Settled`: `Spec => []SettledWhenDone`. When a load function has returned, its task is neither
  PENDING nor IN_PROGRESS, whichever of caller, pool thread and waiter wrote last.
* `ReportFinal`: `Spec => []ReportIsFinal`. `prefetch_completed` never carries PENDING or
  IN_PROGRESS, although the waiter tests the status and reads it again.
* `CancelSticks`: `LandedCancelSticks`, for executors other than MACE. With several callers the MACE load
  tests for CANCELLED only, and a second thread may overwrite that status before the test.

The invariant `IInv` strengthens them by what they depend on. `SettledWhenDone` alone is not inductive:
`Begin` assigns IN_PROGRESS without a test and could do so after the load has ended. So `Unstarted`
says that a task being started has no future and no waiter, and one starter; `Fresh` and `TaskInHand`
that starters hold registered tasks which nobody else has; `Begun` that PENDING is over when a future
exists; `Decided` that the verdict about to be written is settled; `ReportingSettled` that the waiter
still sees a settled status when it reads again. `RInv` adds what a landed cancellation leaves behind per
kind of executor (`Revoked`).

For a scheduler called from one thread at a time (`Serial`: `\A c, d \in Caller : c = d`, which is how the
adapters call it within one workflow), `SInv` adds what status, load and trace of a task may say together
(`TaskOK`) and what the caller knows at each line (`HandOK`), and gives

* `Deduplicated`: `OneInFlight`;
* `RevocationFinal`: `RevokedForGood` (`UsedXorWasted`, `WasteIsFinal`, and `LandedCancelSticks`, MACE included);
* `ImplementsSlots`: `Spec => SlotContract`, the refinement of `ResourceSlots`, step by step. This is what
  lets `ChemGraphTools` be built over `ResourceSlots` instead of the scheduler.

Without `Serial` the three are false: `scheduler.py:77` deduplicates and registers under two acquisitions.

### Guard and adapters: GuardProofs, ChemGraphProofs (second part)

For every number of conversations, checkpoints, steps, tools and predictors and every age window:

* `Verdicts` (`VerdictSound`), `ComparedOnce` (`JudgedOnce`), `AblationIsInert` (`AblationInert`) and
  `OldestSettledFirst`. `VerdictSound` is not inductive: between `Select` and `Resolve` a checkpoint is
  compared but has no verdict, so `JudgedWell` says that one conversation holds it (`Held`), and
  `Numbered`, `QueueOpen` that nothing else can reach it.
* For one conversation (`Serial`): `VerdictsCounted` (`EveryVerdictCounted`) and `DivergencesAct`
  (`DivergenceActs`), from `SerialInv`: steps of calls and checkpoints are not ahead (`StepsPassed`), counts
  are cardinalities of sets of judged checkpoints (`CountsExact`), a verdict not yet counted is in hand.
  With two conversations both are false (section 3, limits).
* `ImplementsGuard`: `AASpec => Spec`, the adapter composed with the guard implements it, so
  `GuardUnderAdapter` transfers the guard's theorems. `AAInv` adds the adapter's own state and gives `HooksOrdered`
  (`HooksInOrder`), `StampedBeforeScheduling` (`ReArmed`: a task complete before the response is still ahead of the
  hook, or stamped) and `NoOtherEscape` (`CancelCatchesStarted`: a task of a diverged checkpoint lives on in one of the
  four ways its comment names). The steps of the other conversation between a test and its assignment are
  in both: the invariant says what each position of a hook knows of the task in its hand, and what may have become
  of it since.
* `PredictionsJudgedRight` (`JudgedRight`) and `DivergenceRevokes` (`DivergenceActs`) of the ChemGraph adapter, from
  `ToolsInv`, which is stated per record, per pair of records and per slot.

### Executors: ExecutorSuiteProofs

For every number of tasks, tools, keys, shards, readers, chunks and files: `StagingIsSound`
(`StagingSound`), `CancellationIsForGood` (`CancelledForGood`), `CalculatorsAreOnce` (`CalculatorsOnce`), from
`SuiteInv`, one conjunct per executor. It says of every position between a test and an assignment what the test found
and how the task may have been withdrawn since: that is where the exceptions of `CancelledForGood` come from. `CalculatorsOnce` rests on `KeysKept`, `OneLoad`, `StoredKept`: a key in flight
has one load, which is the only one that stores. `ReaderKept`, `StagingKept` split a staging into what each
reader has read of its slice. `RedirectIsSound` (`RedirectSound`) needs `DistinctNames`; `RedirectedIfWanted` is
the part that does not.

### Engines: ChemGraphProofs (first part)

For every set of engines, plan, configuration and number of tasks and turns:

* `RoutingTypes`: `Spec => []TypeOK`, from `Routed`.
* `GpuMemoryIsExclusive`: `DisjointPools => (Spec => []VramExclusive)`. `VramInv` says who makes room for an
  engine that needs the planner's GPUs, in each arm: the thread that brings it up still has the planner's
  engine on its list (`RoomIsMade`), or the callback released it first (`SwapReleases`). `DisjointPools`
  (`config.py:114-121`) is needed: where two specialists share GPUs and no pool is disjoint, the executor's
  boot and the callback's swap do not look at each other, and TLC finds two engines loading on one GPU.
* `EveryBootIsAccounted`: `SettledPools => (Spec => []BootsAccounted)`. `SettledPools` adds that evictions end
  before the next task and that an aggregator, where there is one, is an engine of its own in an arm
  without disjoint pools, as in the workloads of `run_eval_q1_q4.py`. `BootsInv` follows a boot through the executor: at most
  one of an engine is still to start, and then the engine is down (`OneComing`); the callback brings up
  only what nobody else will start (`OnDemand`); it evicts nothing it counts on (`Spared`); what it counts on
  is up, failed or coming (`CountedComeUp`); the target of a request serves (`TargetServes`); and a lost
  workflow stays lost for its reason (`LostKept`). Each is about engines that are not in `overlooked`.
* `ResidencyIsJustified`: `DisjointPools => (Spec => ResidencyJustified)`, the action property. `ResidencyInv`: pools that
  are disjoint neither swap nor sleep, so only eviction takes an engine down there (`PoolsAwake`); an entry of
  `_pool_pending_boot` is a boot of its engine (`PendingNamed`); and while the planner's engine holds its GPUs,
  every boot of a rival is still to be started and no rival serves (`RivalsWait`). So the one engine an eviction
  spares although nobody is on it is the planner's, and the engine that needs its room is still coming.

### Campaign: EvaluationProofs, first part

For every set of command lines, length of jobs, and number of trials, failures and jobs:
`TrialsAreIsolated` (`TrialsIsolated`), `RecordsStay` (`DiskIsRecord`), `EvidenceIsGood` (`TrialsAreEvidence`), and, where no
command names an arm twice (`DistinctArms`), `LedgerIsKept` (`CampaignLedger`). In `DInv` the ledger is balanced at
every line of the driver (`LedgerKept`: completed, still to do and in hand add up to the goal) and the trial in
hand was begun in time (`HandKept`); `RoundKept` says how far apart the turns of two live arms are, before and
after the round robin's position.

The `MC` modules assume `DistinctNames`, `DistinctArms` and `SettledPools`, which TLC evaluates on the instances
the runs explore.

### Measurement: EvaluationProofs, second part

For every set of engines and models, size and number of shards, pace of the sampling thread, and length of
a profile, a load and a trial (`SuiteConstants`):

* `ProfileIsTrue`: `ProfileTrue`, that is `MeasurementTypes`, `RunningSampled` and `IdleExact`. In `ProfilerInv` every row
  says that an engine it misses ran under another process (`RowTrue`), and while the GPUs have been idle no
  row says otherwise (`AlwaysIdle`). `IdleExact` compares sums over sets of rows: `GapsMeet` shows that the gaps of
  two complementary sets add up to the span of the profile, whatever order the sums are taken in.
* `NoRowAfterStop`: `SmiTimeout < JoinTimeout => (MeasureSpec => RowsComplete)`, 5 and 15 seconds in the code
  (`system_profiler.py:156, 264`). `WriteInTime`: a row in the making is written before a `join()` called meanwhile gives
  up. The hypothesis is needed: a join that gives up first leaves a writer behind.
* `CausesAlwaysTold`: `CausesTold`, from three theorems.
  * `SourcesTold`: `SourceRight` and `NoCacheUnseen`. `CountersKept`: since the snapshot the counters of the process have
    moved by the shards it read, those from storage told apart, and not at all by what an engine read. The
    votes of the counters outweigh those of the network at both ends of the ratio (`SourceTold`, `UnseenTold`).
  * `WaitsBlamed`: `BlamedRight`, from loads that start in the order of their tasks (`PhasesInv`, `FirstIsNear`).
  * `SumsAreExact`: `Q2Exact`. The sums are made at the end, so `SecondsKept` gives every second that is over to the
    phases that cover it, by a row or still open (`Seconds`), and says in every state what the thread has spent: a
    second is counted as a wait if a wait covers it, and else as the conversation's (`SpentTold`). It is not
    inductive alone: inferences are summed unmerged, so no two may overlap (`Apart`), which holds because only
    conversations have phases inside them (`Innermost`). At the end the programs' sums are sizes of such sets:
    sorting gives every row one place (`RowsSorted`), merging keeps a gap between intervals and loses no second
    (`MergesAll`), and disjoint sets add up (`SizesAdd`), for lengths, overlaps and durations alike.

Sums over finite sets are those of the community modules, which choose an element and recurse. `SumsExist`,
`SumsInsert` and `SumsAgree` say that they exist and depend neither on the order nor on the set they are part
of. Where induction would be used there is a least counterexample (`LeastIndex`, `SmallestSubset`): the
library's induction theorems take an operator as a parameter, which the provers cannot instantiate.

### Reports: TraceRecordsProofs, TraceReportsProofs

For every number of tools, every set of durations and lags, every threshold and conservative window
(`TraceConstants`, `ReportConstants`) the three properties of the run: `RecordsAlwaysAgree` (`RecordsAgree`),
`SecondsAlwaysTrue` (`SecondsTrue`) and `OutcomesAlwaysTrue` (`OutcomesTrue`), each from theorems about its parts. A report
reads the whole trace at the end, so an invariant says in every state what the trace so far tells:

* `RunInv`: of every task one start, at most one end, consumption and revocation, at the times of the task,
  and the last consumption of a resource is that of its task (`TaskLog`); a load that has ended is reported
  within the lag (`LagsMet`). From it, what each program makes of a task is a function of the task
  (`ReportRecord`, `EvalRecord`), so `ReportsAgree`, `AnalyzerLag` and `ClassesTrue` compare expressions over one record.
  The totals of `trace_analyzer` differ from those of `parse_eval_traces` by a lag per resource, summed with
  `Within`.
* `SecondsInv`: the closed spans of the nodes, less the waits in them, plus the time in the node that is open,
  are the time the nodes had (`ThoughtTold`), and the waits are those of the gates (`GatesTold`). A span is rebuilt
  from the latest start before its end, so `Closed` says that starts and ends of a node alternate.
* `GateOnce` pairs the gates with the rows that count them: rows of one `gate_group` count once, and every gate
  is either matched by a task's row or has its own (`Unmatched`). `BaselineReconciles` adds the rows of loads, from
  `LoadsInv`; `ResidualTrue` follows from `EngineMet`, since a load started ahead lands when its engine serves.
* `VerdictsInv` numbers calls, predictions and verdicts alike: call n judges the prediction made at call n - 1
  and no other (`Foretold`, `JudgedBelow`). `VerdictJoined` reads off it; `ExpiredWithin` counts by injections of admitted
  and of judged predictions into tasks and verdicts.
* `PaidInv`: once a tool has called for a calculator, one was prefetched, or its load is in the trace or under way.
* `WindowInv`: every divergence asked for steps up to `until`; no MACE task started since is of a step within
  (`StartedBeyond`). A task started in the same instant as a divergence was started by the call that saw it, because
  the tools before it took time (`Over`), which is where `TraceConstants` wants loads and tools that last. The
  planner's tasks cannot prove wrong: the worker's gate uses them all (`PlannedTasks`).

### Predictors: PredictorProofs

For any number of traces of any length, any distance, threshold, tables, registry, plan and run
(`LearnerConstants`, `ReplayConstants`) both properties of the run: `TableAlwaysExact` (`TableExact`, with
`CountsAlwaysExact` and `NeverOverconfident` for its parts) and `KnownRunsAlwaysHit` (`KnownRunsHit`).

* `LearnInv` (theorem `LearnerInvariant`) is about the loops under way: a key has one entry (`KeysOnce`), whose count is
  the number of pairs of that key that the three indices are past (`CountsTrue`, with `Passed`), and every pair they are past
  has an entry (`CountsAll`). `CountPair` makes exactly one more pair past; `NextSource` and `NextTrace` make none,
  which needs that the rest of a row has no second call within `MaxOffset`. When the loops end, all pairs are past.
* `NoOverconfidence` compares a whole percent with a share: the denominator is the sum of the counts of the
  bucket, which is the number of calls that were followed at all (`DenominatorIs`), because the followers
  partition them; and the entries of a bucket take the ranks 1, 2, ... once each (`RanksTaken`, from
  `PlacesTaken`: in a finite total order every rank is taken), so that `Top` lists kept entries in falling order.
* `ReplayInv` (theorem `ReplayInvariant`): a prediction that waits was made at a step past for the step its first
  resource names (`PendingDue`), and on a run its predictor knows the tool of that step is the one it names, if
  the run goes so far (`KnownDue`); so no verdict is a miss (`KnownHits`). `PredictRight` says so of the step at
  which a prediction is made: `OracleRightly` finds the tool of the step in the trace, `PlanRightly` the place of
  the tool in a plan that is the run or its rest, `TableRightly` that what followed in the traces is what follows in
  the run, by `CountsExact`.

### Model-checked only

* Liveness (`EveryTaskReported`, `TasksServed`, `LoadsEnd`, `DriverEnds`, `ProfileComplete`): the prover has no rule
  for fairness and ENABLED.
* Outside their hypotheses, the theorems with one (`Serial`, `DisjointPools`, `SettledPools`, `DistinctNames`,
  `DistinctArms`, `SmiTimeout < JoinTimeout`): there the properties are false or unknown, as said with each.

## 5. Not modelled, and what is left

* Demos, plots, command lines, shell scripts and Slurm files: no state of their own.
* `ablation_report`, `compare_runs` and CSV layout: averages and tables of what the modelled reports give.
* `install()` of the adapters (patching autogen) and the lifetime of the proxy's HTTP server.
* The orchestrator, vLLM, Hermes, autogen, LangChain, the workflows: external, modelled from their uses.
* `infer_from_traces` (called nowhere), `compute_window_min_s` and `min_remaining_compute_s` (read nowhere).
* In the driver: git and environment records, `--dry_run`, `--list`; time passes while GPUs drain, in a
  workflow and while leaving, not between the driver's own steps.
* In `WorkflowTrace`: failed loads, simulated mode and a second worker gate. In `SystemProfiler`:
  columns other than presence. In `MaceCache`: a tool that does not wait, of which there is none.

Every invariant and every action property of the passing runs has a theorem; liveness, and the theorems
outside their hypotheses, stay with TLC. No module has a RECURSIVE operator: recursion is in recursive functions
and in the folds of the community modules, and sorting is stated by places (`PhaseMetrics!Sorted`).
