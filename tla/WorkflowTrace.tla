----------------------------- MODULE WorkflowTrace -----------------------------
(***************************************************************************)
(* The JSONL trace of one run (event_bus.py, events.py), written by the    *)
(* handlers of the ChemGraph callback while the workflow blocks, computes  *)
(* and calls tools, by the scheduler, and by its poll threads, which       *)
(* report a finished prefetch late.  The reports of TimingReports and      *)
(* EvalReports read nothing but these events.                              *)
(*                                                                         *)
(* One swap-mode run: plan, worker gate, then LLM turns and tools, then    *)
(* the gate of the aggregator.  A resource is named by its type, a model   *)
(* by the gate it holds up.  Time is a counter; handlers take none.        *)
(***************************************************************************)
EXTENDS Integers, Sequences, FiniteSets

CONSTANTS
    Paces,           \* what takes how long in a run
    MaxTools,        \* bound: tool calls
    Estimate,        \* estimated_load_s of each resource type
    Conservative     \* conservative_mode_steps

ASSUME TraceConstants ==
    /\ Conservative \in Nat /\ MaxTools \in Nat
    /\ \A p \in Paces : /\ {p.cache, p.worker, p.mace, p.aggregator, p.tool} \subseteq Nat \ {0}
                      /\ {p.plan, p.turn, p.lag} \subseteq Nat
    /\ Estimate \in [{"model_cache", "vllm_model", "mace_model"} -> Nat]

VARIABLES
    mode,       \* RuntimeConfig.mode
    pace,       \* how long the nodes and tools compute, the loads take, the poll thread lags
    clock,
    pc,         \* what the workflow is doing
    step,       \* tool calls so far
    events,     \* the JSONL file
    tasks,      \* PrefetchScheduler._tasks, in order; reported: by the poll thread
    engines,    \* when the engine of a gate serves, None when it was not started
    busy,       \* until when the workflow computes
    since,      \* when the workflow entered what it is blocked in
    onDemand,   \* on_demand_swap, on_demand_start
    pending,    \* _pending_checkpoint: the step it was made at, 0 if there is none
    until,      \* _conservative_until_step
    taken,      \* tasks whose calculator was popped from _MACE_CACHE
    thought,    \* history: time LLM nodes were not blocked
    needs       \* history: what the workflow needed, when, and how long it was blocked

script == <<mode, pace>>

vars == <<mode, pace, clock, pc, step, events, tasks, engines, busy, since, onDemand, pending,
          until, taken, thought, needs>>

None == -1
Mode == {"baseline", "observe_only", "real"}
Active == mode # "baseline"

-------------------------------------------------------------------------------
(* events.py and EventBus.emit().                                          *)

PredictionResult(s, rid) ==
    [type |-> "prediction_result", at |-> clock, step |-> s, rid |-> rid, est |-> Estimate[rid]]
CheckpointCreated(s) == [type |-> "checkpoint_created", at |-> clock, step |-> s, ckpt |-> s]
PrefetchDecision(rid, action, est) ==
    [type |-> "prefetch_decision", at |-> clock, rid |-> rid, action |-> action, est |-> est]
PrefetchStarted(k, rid) ==
    [type |-> "prefetch_started", at |-> clock, task |-> k, rid |-> rid]
PrefetchCompleted(k, elapsed) ==
    [type |-> "prefetch_completed", at |-> clock, task |-> k, elapsed |-> elapsed]
PredictionValidated(id) ==
    [type |-> "prediction_validated", at |-> clock, hit |-> TRUE, ckpt |-> id]
DivergenceDetected(id) == [type |-> "divergence_detected", at |-> clock, ckpt |-> id]
ResourceConsumed(rid, k, status) ==
    [type |-> "resource_consumed", at |-> clock, rid |-> rid, task |-> k, status |-> status]
PrefetchCancelled(k, wasted) ==
    [type |-> "prefetch_cancelled", at |-> clock, task |-> k, wasted |-> wasted]
ConservativeMode == [type |-> "conservative_mode", at |-> clock, steps |-> Conservative]
SwapWait(gate) ==
    [type |-> IF gate = "worker" THEN "worker_swap_wait" ELSE "aggregator_swap_wait",
     at |-> clock, model |-> gate, wait |-> clock - since, demand |-> onDemand,
     prefetched |-> IF gate = "worker" THEN mode = "real" ELSE ~onDemand]

\* Events of the WorkflowTracker, which shares the file.
Tracked(type, what) == [type |-> type, at |-> clock, what |-> what]
Timed(type, what, took) == [type |-> type, at |-> clock, what |-> what, took |-> took]

\* emit() appends under its lock.
Emit(new) == events' = events \o new

-------------------------------------------------------------------------------
(* The scheduler, as far as the trace tells: operators give the tasks and  *)
(* the events after a call.                                                *)

LatestTask(ts, rid) ==
    LET ks == {k \in DOMAIN ts : ts[k].rid = rid}
    IN  IF ks = {} THEN 0 ELSE CHOOSE k \in ks : \A x \in ks : x <= k

Landed(t) == t.lands <= clock

\* schedule(): a task in flight or complete, as long as nobody consumed or
\* cancelled it, is not started again.
Schedule(ts, rid, ckpt, admitted, load) ==
    LET last == LatestTask(ts, rid)
        k == Len(ts) + 1
    IN  IF mode # "real" THEN <<ts, <<>>>>
        ELSE IF last # 0 /\ ts[last].status = "in_progress"
             THEN <<ts, <<PrefetchDecision(rid, "skip", None)>>>>
        ELSE IF ~admitted THEN <<ts, <<PrefetchDecision(rid, "skip", Estimate[rid])>>>>
        ELSE <<Append(ts, [rid |-> rid, ckpt |-> ckpt, started |-> clock,
                           lands |-> clock + load, status |-> "in_progress",
                           consumed |-> None, reported |-> FALSE]),
               <<PrefetchDecision(rid, "start", Estimate[rid]), PrefetchStarted(k, rid)>>>>

\* on_resource_consumed()
Consume(ts, rid) ==
    LET k == LatestTask(ts, rid)
    IN  IF k # 0 /\ ts[k].status \in {"in_progress", "used"}
        THEN <<[ts EXCEPT ![k].status = "used", ![k].consumed = clock],
               <<ResourceConsumed(rid, k, "used")>>>>
        ELSE <<ts, <<ResourceConsumed(rid, 0, "no_prefetch")>>>>

\* cancel_all_pending(): the task of a checkpoint, of which there is one at most
CancelPending(ts, ckpt) ==
    LET ks == {k \in DOMAIN ts : ts[k].ckpt = ckpt /\ ts[k].status = "in_progress"}
        k == CHOOSE x \in ks : TRUE
    IN  IF ks = {} THEN <<ts, <<>>>>
        ELSE <<[ts EXCEPT ![k].status = IF Landed(ts[k]) THEN "wasted" ELSE "cancelled"],
               <<PrefetchCancelled(k, Landed(ts[k]))>>>>

\* get_result(): the load's own time
Elapsed(t) == t.lands - t.started

\* _wait_for_completion() looks every two seconds: it reports a task some time
\* after its load ended.
Due(k) == ~tasks[k].reported /\ tasks[k].lands + pace.lag <= clock

PollReports(k) ==
    /\ Due(k)
    /\ tasks' = [tasks EXCEPT ![k].reported = TRUE]
    /\ Emit(<<PrefetchCompleted(k, Elapsed(tasks[k]))>>)
    /\ UNCHANGED <<script, clock, pc, step, engines, busy, since, onDemand, pending, until,
                   taken, thought, needs>>

-------------------------------------------------------------------------------
(* The callback's handlers, in the thread of the workflow.                 *)

\* The workflow enters what takes it that long.
Enter(activity, time) == pc' = activity /\ busy' = clock + time

\* ... and leaves it when it is done.
Leave(activity) == pc = activity /\ busy <= clock

\* The planner's chain starts: the weights of the worker are staged.
PlannerStarts ==
    LET staged == Schedule(tasks, "model_cache", 0, TRUE, pace.cache)
    IN  /\ Leave("begin") /\ Enter("planner", pace.plan)
        /\ tasks' = staged[1]
        /\ Emit(<<Tracked("chain_start", "PlannerAgent")>>
                \o (IF mode = "baseline" THEN <<>>
                    ELSE <<PredictionResult(0, "model_cache")>>) \o staged[2])
        /\ UNCHANGED <<script, clock, step, engines, since, onDemand, pending, until, taken,
                       thought, needs>>

\* on_chain_end("PlannerAgent"): plan extraction starts the worker's engine ahead.
PlannerEnds ==
    LET scheduled == Schedule(tasks, "vllm_model", 0, TRUE, pace.worker)
    IN  /\ Leave("planner") /\ Enter("planned", 0)
        /\ tasks' = scheduled[1]
        /\ Emit(<<Tracked("chain_end", "PlannerAgent")>>
                \o (IF mode = "baseline" THEN <<>>
                    ELSE <<Tracked("plan_extracted", None), PredictionResult(0, "vllm_model")>>)
                \o scheduled[2])
        /\ engines' = [engines EXCEPT !["worker"] =
                          IF mode = "real" THEN clock + pace.worker ELSE None]
        /\ UNCHANGED <<script, clock, step, since, onDemand, pending, until, taken, thought,
                       needs>>

\* on_chain_start("WorkerAgent") up to its wait: an engine nobody started is
\* started now; what was prefetched for it is consumed, the cache before the
\* engine if the load is still to come.
WorkerGate ==
    LET demand == engines["worker"] = None
        known == mode # "baseline"
        cacheFirst == IF known /\ demand THEN Consume(tasks, "model_cache") ELSE <<tasks, <<>>>>
        worker == Consume(cacheFirst[1], "vllm_model")
        cacheLast == IF known /\ ~demand THEN Consume(worker[1], "model_cache")
                     ELSE <<worker[1], <<>>>>
    IN  /\ Leave("planned") /\ Enter("worker_gate", 0)
        /\ since' = clock /\ onDemand' = demand
        /\ engines' = IF demand THEN [engines EXCEPT !["worker"] = clock + pace.worker]
                      ELSE engines
        /\ tasks' = cacheLast[1]
        /\ Emit(<<Tracked("chain_start", "WorkerAgent")>>
                \o cacheFirst[2] \o worker[2] \o cacheLast[2])
        /\ UNCHANGED <<script, clock, step, pending, until, taken, thought, needs>>

ReportsWait(wait) == onDemand \/ wait > 0

\* wait_until_ready() returns; a swap that was hidden leaves no event.
WorkerReady ==
    /\ pc = "worker_gate" /\ engines["worker"] <= clock
    /\ Enter("worker", pace.turn)
    /\ Emit(IF ReportsWait(clock - since) THEN <<SwapWait("worker")>> ELSE <<>>)
    /\ needs' = Append(needs, [what |-> "worker", at |-> since, blocked |-> clock - since])
    /\ UNCHANGED <<script, clock, step, tasks, engines, since, onDemand, pending, until, taken,
                   thought>>

\* on_tool_start(), first phase: the prediction made at an earlier tool is
\* judged by this one.
Judge(tool) ==
    IF pending = 0 THEN [tasks |-> tasks, events |-> <<>>, until |-> until]
    ELSE IF tool = "run_ase"
         THEN LET c == Consume(tasks, "mace_model")
              IN  [tasks |-> c[1], until |-> until,
                   events |-> <<PredictionValidated(pending)>> \o c[2]]
         ELSE LET c == CancelPending(tasks, pending)
              IN  [tasks |-> c[1], until |-> step + 1 + Conservative,
                   events |-> <<DivergenceDetected(pending)>> \o c[2] \o <<ConservativeMode>>]

\* The tools: run_ase is the consumer tool_resources.json names for MACE, and
\* run_mace_ensemble takes a calculator too.
Tool == {"smiles_to_coordinate_file", "run_ase", "run_mace_ensemble"}
NeedsCalculator(tool) == tool # "smiles_to_coordinate_file"

\* A mistaken window, without its last step.
LastStepOut(s, last) == s < last

InConservative(s, last) == s <= last

\* on_tool_start(), and the tool up to its load of a calculator. The first
\* ensemble starts the aggregator's engine as well. A prediction is of MACE
\* for the next tool, and may be below the threshold.
ToolStarts(tool, predicts, admitted) ==
    LET judged == Judge(tool)
        made == Active /\ predicts /\ ~InConservative(step + 1, judged.until)
        ahead == IF made THEN Schedule(judged.tasks, "mace_model", step + 1, admitted, pace.mace)
                 ELSE <<judged.tasks, <<>>>>
        boots == mode = "real" /\ tool = "run_mace_ensemble" /\ engines["aggregator"] = None
    IN  /\ Leave("worker") /\ step < MaxTools
        /\ Enter(IF NeedsCalculator(tool) THEN "loading" ELSE "tool",
                 IF NeedsCalculator(tool) THEN 0 ELSE pace.tool)
        /\ step' = step + 1 /\ since' = clock
        /\ tasks' = ahead[1]
        /\ pending' = IF made THEN step + 1 ELSE 0
        /\ until' = judged.until
        /\ engines' = IF boots THEN [engines EXCEPT !["aggregator"] = clock + pace.aggregator]
                      ELSE engines
        /\ Emit(<<Tracked("chain_end", "WorkerAgent"), Tracked("tool_call", tool)>>
                \o (IF boots THEN <<Tracked("aggregator_prefetch_start", None)>> ELSE <<>>)
                \o judged.events
                \o (IF made THEN <<PredictionResult(step + 1, "mace_model"),
                                   CheckpointCreated(step + 1)>> ELSE <<>>)
                \o ahead[2])
        /\ UNCHANGED <<script, clock, onDemand, taken, thought, needs>>

-------------------------------------------------------------------------------
(* _load_calc() of ensemble_tools.py: the tool needs a calculator.         *)

InFlight == {k \in DOMAIN tasks : tasks[k].rid = "mace_model" /\ ~Landed(tasks[k])}

\* Calculators in _MACE_CACHE: loaded, not cancelled before that, not taken.
Cached ==
    {k \in DOMAIN tasks : /\ tasks[k].rid = "mace_model" /\ Landed(tasks[k])
                          /\ tasks[k].status # "cancelled" /\ k \notin taken}

HasCalculator(source) ==
    /\ Emit(<<Timed("mace_load", source, clock - since)>>)
    /\ needs' = Append(needs, [what |-> "mace", at |-> since, blocked |-> clock - since])
    /\ Enter("tool", pace.tool)

\* The calculator of a prefetch, which a tool that comes too early waits for
TakesCalculator(k) ==
    /\ pc = "loading" /\ k \in Cached
    /\ taken' = taken \cup {k}
    /\ HasCalculator("prefetch_cache")
    /\ UNCHANGED <<script, clock, step, tasks, engines, since, onDemand, pending, until,
                   thought>>

\* No prefetch, or one that was cancelled: the tool loads for itself.
LoadsItself ==
    /\ pc = "loading" /\ Cached = {} /\ InFlight = {}
    /\ Enter("disk", pace.mace)
    /\ UNCHANGED <<script, clock, step, events, tasks, engines, since, onDemand, pending, until,
                   taken, thought, needs>>

LoadedItself ==
    /\ Leave("disk")
    /\ HasCalculator("disk")
    /\ UNCHANGED <<script, clock, step, tasks, engines, since, onDemand, pending, until, taken,
                   thought>>

\* on_tool_end(), and the next turn of the worker
ToolEnds ==
    /\ Leave("tool") /\ Enter("worker", pace.turn)
    /\ Emit(<<Timed("tool_end", None, clock - since), Tracked("chain_start", "WorkerAgent")>>)
    /\ UNCHANGED <<script, clock, step, tasks, engines, since, onDemand, pending, until, taken,
                   thought, needs>>

-------------------------------------------------------------------------------
(* The aggregator's gate and the end.                                      *)

AggregatorGate ==
    LET demand == engines["aggregator"] = None
    IN  /\ Leave("worker") /\ Enter("aggregator_gate", 0)
        /\ since' = clock /\ onDemand' = demand
        /\ engines' = IF demand THEN [engines EXCEPT !["aggregator"] = clock + pace.aggregator]
                      ELSE engines
        /\ Emit(<<Tracked("chain_end", "WorkerAgent"), Tracked("chain_start", "AggregatorAgent")>>)
        /\ UNCHANGED <<script, clock, step, tasks, pending, until, taken, thought, needs>>

AggregatorReady ==
    /\ pc = "aggregator_gate" /\ engines["aggregator"] <= clock
    /\ Enter("aggregator", pace.turn)
    /\ Emit(<<SwapWait("aggregator")>>)
    /\ needs' = Append(needs, [what |-> "aggregator", at |-> since, blocked |-> clock - since])
    /\ UNCHANGED <<script, clock, step, tasks, engines, since, onDemand, pending, until, taken,
                   thought>>

RunEnds ==
    /\ Leave("aggregator") /\ Enter("ended", 0)
    /\ Emit(<<Tracked("chain_end", "AggregatorAgent")>>)
    /\ UNCHANGED <<script, clock, step, tasks, engines, since, onDemand, pending, until, taken,
                   thought, needs>>

-------------------------------------------------------------------------------
(* Time passes while the workflow thinks, computes or is blocked.          *)

Blocked ==
    \/ busy > clock
    \/ pc = "worker_gate" /\ engines["worker"] > clock
    \/ pc = "aggregator_gate" /\ engines["aggregator"] > clock
    \/ pc = "loading" /\ Cached = {} /\ InFlight # {}

Tick ==
    /\ Blocked
    /\ clock' = clock + 1
    /\ thought' = IF pc \in {"planner", "worker", "aggregator"} THEN thought + 1 ELSE thought
    /\ UNCHANGED <<script, pc, step, events, tasks, engines, busy, since, onDemand, pending,
                   until, taken, needs>>

TraceInit ==
    /\ mode \in Mode /\ pace \in Paces
    /\ clock = 0 /\ pc = "begin" /\ step = 0
    /\ events = <<>> /\ tasks = <<>>
    /\ engines = [worker |-> None, aggregator |-> None]
    /\ busy = 0 /\ since = 0 /\ onDemand = FALSE /\ pending = 0 /\ until = 0 /\ taken = {}
    /\ thought = 0 /\ needs = <<>>

Workflow ==
    \/ PlannerStarts \/ PlannerEnds \/ WorkerGate \/ WorkerReady
    \/ \E tool \in Tool, predicts \in BOOLEAN, admitted \in BOOLEAN :
          ToolStarts(tool, predicts, admitted)
    \/ \E k \in DOMAIN tasks : TakesCalculator(k)
    \/ LoadsItself \/ LoadedItself \/ ToolEnds
    \/ AggregatorGate \/ AggregatorReady \/ RunEnds

\* What the poll thread owes at an instant it reports first: the order within
\* an instant shows in no time stamp.
TraceNext ==
    \/ \E k \in DOMAIN tasks : PollReports(k)
    \/ /\ pc # "ended" /\ \A k \in DOMAIN tasks : ~Due(k)
       /\ Workflow \/ Tick
===============================================================================
