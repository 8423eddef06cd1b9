------------------------------ MODULE EvalReports ------------------------------
(***************************************************************************)
(* What the evaluation makes of the trace of one trial:                    *)
(* scripts/parse_eval_traces.py (stall and reasoning seconds, the class of *)
(* every prefetch task, prediction quality) and                            *)
(* scripts/extract_prefetch_lifecycle.py (one row per need or prefetched   *)
(* object, and the stall seconds of each class).                           *)
(*                                                                         *)
(* Operators of a trace `ev` of WorkflowTrace; the thresholds in seconds   *)
(* (half a second of grace, windows) are scaled to its clock.              *)
(***************************************************************************)
EXTENDS Integers, Sequences, FiniteSetsExt

CONSTANTS
    MinWindow,      \* W_MIN_S
    SpinupFloor,    \* SPINUP_FLOOR_S
    ConsumerOf,     \* resource -> tools that consume it, where the table names any
    LlmNodes        \* LLM_NODES

Missing == -1

Where(ev, type) == {i \in DOMAIN ev : ev[i].type = type}
OfTask(ev, type, k) == {i \in Where(ev, type) : ev[i].task = k}
LastTime(ev, S) == IF S = {} THEN Missing ELSE ev[Max(S)].at
NotNegative(n) == Max({n, 0})

-------------------------------------------------------------------------------
(* parse_trace()                                                           *)

TasksOf(ev) == {ev[i].task : i \in Where(ev, "prefetch_started")}
StartEvent(ev, k) == ev[Min(OfTask(ev, "prefetch_started", k))]

\* The load ended its own time after it started.
CompletedAt(ev, k) ==
    LET done == OfTask(ev, "prefetch_completed", k)
    IN  IF done = {} THEN Missing
        ELSE IF ev[Max(done)].elapsed > 0 THEN StartEvent(ev, k).at + ev[Max(done)].elapsed
        ELSE ev[Max(done)].at

\* Stamps made by a tool that does not consume the resource are dropped.
\* extract_prefetch_lifecycle.py:577 keeps them; WorkflowTrace has none of them.
ByConsumer(ev, i) ==
    LET calls == {c \in Where(ev, "tool_call") : c < i}
        rid == ev[i].rid
    IN  ~(/\ rid \in DOMAIN ConsumerOf /\ calls # {}
          /\ ev[Max(calls)].at = ev[i].at /\ ev[Max(calls)].what \notin ConsumerOf[rid])

TaskRecord(ev, k) ==
    LET consumed == {i \in OfTask(ev, "resource_consumed", k) : ByConsumer(ev, i)}
        cancels == OfTask(ev, "prefetch_cancelled", k)
    IN  [rid |-> StartEvent(ev, k).rid, started |-> StartEvent(ev, k).at,
         completed |-> CompletedAt(ev, k), consumed |-> LastTime(ev, consumed),
         used |-> consumed # {} /\ ev[Max(consumed)].status = "used",
         cancelled |-> cancels # {},
         wasted |-> cancels # {} /\ ev[Max(cancels)].wasted]

\* Chain spans of a node: every end against the start it closes
NodeSeconds(ev, node) ==
    LET ofNode(type) == {i \in Where(ev, type) : ev[i].what = node}
        opened(j) == Max({i \in ofNode("chain_start") : i < j})
    IN  SumFunction([j \in ofNode("chain_end") |-> ev[j].at - ev[opened(j)].at])

-------------------------------------------------------------------------------
(* classify_task(), used_resource_ids(), task_overlap_stall()              *)

UsedResources(ev) == {TaskRecord(ev, k).rid : k \in {x \in TasksOf(ev) : TaskRecord(ev, x).used}}

ClassOf(rec, usedResources) ==
    IF rec.used
    THEN IF rec.completed # Missing /\ rec.completed > rec.consumed THEN "late" ELSE "useful"
    ELSE IF rec.wasted THEN "wasted"
    ELSE IF rec.cancelled THEN "cancelled"
    ELSE IF rec.completed # Missing
         THEN IF rec.rid \in usedResources THEN "duplicate" ELSE "wasted"
    ELSE "pending"

Classify(ev, k) == ClassOf(TaskRecord(ev, k), UsedResources(ev))

OverlapOf(rec) ==
    IF rec.consumed = Missing THEN 0
    ELSE NotNegative((IF rec.completed = Missing THEN rec.consumed
                      ELSE Min({rec.completed, rec.consumed})) - rec.started)

StallOf(rec) ==
    IF Missing \in {rec.consumed, rec.completed} THEN 0
    ELSE NotNegative(rec.completed - rec.consumed)

-------------------------------------------------------------------------------
(* main(): the breakdown of a trial's time (Q2).                           *)

GateSeconds(ev, type) == SumFunction([i \in Where(ev, type) |-> ev[i].wait])
SwapWaitSeconds(ev) == GateSeconds(ev, "worker_swap_wait")
AggregatorWaitSeconds(ev) == GateSeconds(ev, "aggregator_swap_wait")

Served(ev) == {k \in TasksOf(ev) : Classify(ev, k) \in {"useful", "late"}}
OverlapSeconds(ev) == SumFunction([k \in Served(ev) |-> OverlapOf(TaskRecord(ev, k))])

\* The engine and its cache hold up the same gate: the longer counts.
SwapResidual(ev) ==
    Max({0} \cup {StallOf(TaskRecord(ev, k)) :
            k \in {x \in Served(ev) : TaskRecord(ev, x).rid \in {"vllm_model", "model_cache"}}})

OtherResidual(ev) ==
    LET others == {x \in Served(ev) : TaskRecord(ev, x).rid \notin {"vllm_model", "model_cache"}}
    IN  SumFunction([k \in others |-> StallOf(TaskRecord(ev, k))])

PredictionsOf(ev, rid) == {i \in Where(ev, "prediction_result") : ev[i].rid = rid}

\* What was consumed without a prefetch counts with the estimate of its
\* first prediction.
NoPrefetchSeconds(ev) ==
    LET est(rid) == IF PredictionsOf(ev, rid) = {} THEN 0 ELSE ev[Min(PredictionsOf(ev, rid))].est
        bare == {i \in Where(ev, "resource_consumed") : ev[i].status = "no_prefetch"}
    IN  SumFunction([i \in bare |-> est(ev[i].rid)])

ExposedStall(ev) ==
    Max({SwapWaitSeconds(ev), SwapResidual(ev)}) + AggregatorWaitSeconds(ev)
        + OtherResidual(ev) + NoPrefetchSeconds(ev)

WaitsInChains(ev) == SwapWaitSeconds(ev) + AggregatorWaitSeconds(ev)

ReasoningSeconds(ev) ==
    NotNegative(SumFunction([n \in LlmNodes |-> NodeSeconds(ev, n)]) - WaitsInChains(ev))

-------------------------------------------------------------------------------
(* main(): prediction quality (Q3) and the cost of speculation (Q4).       *)

CountOf(ev, class) == Cardinality({k \in TasksOf(ev) : Classify(ev, k) = class})
Admitted(ev) == Cardinality(TasksOf(ev))
Verdicts(ev) == Where(ev, "prediction_validated") \cup Where(ev, "divergence_detected")

\* "expired"
Expired(ev) ==
    NotNegative(Cardinality(Where(ev, "prediction_result")) - Cardinality(Verdicts(ev))
                    - Admitted(ev))

\* Resources a called tool consumes that no task was admitted for
Missed(ev) ==
    {rid \in DOMAIN ConsumerOf :
        /\ \E i \in Where(ev, "tool_call") : ev[i].what \in ConsumerOf[rid]
        /\ \A k \in TasksOf(ev) : TaskRecord(ev, k).rid # rid}

\* The checkpoint of a prediction is the one created at its step.
CheckpointOf(ev, p) ==
    LET made == {i \in Where(ev, "checkpoint_created") : ev[i].step = ev[p].step}
    IN  IF made = {} THEN Missing ELSE ev[Max(made)].ckpt

\* validated_hit of the row of prediction p
ValidatedHit(ev, p) ==
    LET verdicts(type) == {i \in Where(ev, type) : ev[i].ckpt = CheckpointOf(ev, p)}
    IN  IF \E i \in verdicts("prediction_validated") : ev[i].hit THEN "hit"
        ELSE IF verdicts("divergence_detected") # {} THEN "miss" ELSE "unknown"

WrongAfterDivergence(ev) ==
    LET diverged == Where(ev, "divergence_detected")
    IN  Cardinality({k \in TasksOf(ev) :
            /\ Classify(ev, k) \in {"wasted", "cancelled"} /\ diverged # {}
            /\ TaskRecord(ev, k).started >= ev[Min(diverged)].at})

-------------------------------------------------------------------------------
(* extract_prefetch_lifecycle: gates and rows.                             *)

\* collect_gates()
Gates(ev) == Where(ev, "worker_swap_wait") \cup Where(ev, "aggregator_swap_wait")
GateEntry(ev, g) == ev[g].at - ev[g].wait

ModelOf(rid) == IF rid \in {"vllm_model", "model_cache"} THEN "worker" ELSE rid

\* match_gate(): the first gate of the model that a task of it can have held
\* up, or else the last one. A task of another kind than those has none.
MatchGate(ev, rec) ==
    LET same == {g \in Gates(ev) : ev[g].model = ModelOf(rec.rid)}
        after == {g \in same : ev[g].at >= rec.started}
    IN  IF same = {} THEN Missing ELSE IF after # {} THEN Min(after) ELSE Max(same)

FirstPrediction(ev, rid) ==
    IF PredictionsOf(ev, rid) = {} THEN Missing ELSE Min(PredictionsOf(ev, rid))

\* consumer_need_t(): the first call of a consumer from then on
ConsumerNeed(ev, rid, from) ==
    LET calls == {i \in Where(ev, "tool_call") : /\ rid \in DOMAIN ConsumerOf
                                                /\ ev[i].what \in ConsumerOf[rid]
                                                /\ ev[i].at >= from}
    IN  IF calls = {} THEN Missing ELSE ev[Min(calls)].at

Row(rid, group, need, exposure, outcome) ==
    [rid |-> rid, group |-> group, need |-> need, exposure |-> exposure, outcome |-> outcome,
     completed |-> Missing, window |-> Missing, transfer |-> 0, delay |-> 0]

\* (a) An admitted task: what needed it is its gate, or its consumption, or a
\* call of its consumer.
TaskRow(ev, k) ==
    LET rec == TaskRecord(ev, k)
        gate == MatchGate(ev, rec)
        predicted == ev[FirstPrediction(ev, rec.rid)].at
        called == ConsumerNeed(ev, rec.rid, predicted)
        need == IF gate # Missing THEN GateEntry(ev, gate)
                ELSE IF rec.consumed # Missing THEN rec.consumed ELSE called
        exposure == IF gate # Missing THEN ev[gate].wait
                    ELSE IF Missing \in {need, rec.completed} THEN 0
                    ELSE NotNegative(rec.completed - need)
    IN  [Row(rec.rid, gate, need, exposure, Classify(ev, k)) EXCEPT
            !.completed = rec.completed,
            !.window = IF need = Missing THEN Missing ELSE need - predicted,
            !.transfer = IF rec.completed = Missing THEN ev[FirstPrediction(ev, rec.rid)].est
                         ELSE rec.completed - rec.started,
            !.delay = rec.started - predicted]

\* (b) A prediction the scheduler declined, if no task of the resource exists
SkipRow(ev, rid) ==
    LET p == FirstPrediction(ev, rid)
        need == ConsumerNeed(ev, rid, ev[p].at)
    IN  Row(rid, Missing, need, IF need = Missing THEN 0 ELSE ev[p].est, "skipped")

FirstDecision(ev, rid) ==
    LET ds == {i \in Where(ev, "prefetch_decision") : ev[i].rid = rid}
    IN  IF ds = {} THEN "" ELSE ev[Min(ds)].action

TaskRids(ev) == {TaskRecord(ev, k).rid : k \in TasksOf(ev)}

SkippedRids(ev) ==
    {rid \in {ev[i].rid : i \in Where(ev, "prefetch_decision")} :
        FirstDecision(ev, rid) = "skip" /\ rid \notin TaskRids(ev)}

NoPrefetchOutcome(config) ==
    IF config \in {"baseline", "observe_only"} THEN "no_prefetch_config" ELSE "no_prediction"

MatchedGates(ev) ==
    {MatchGate(ev, TaskRecord(ev, k)) :
        k \in {x \in TasksOf(ev) : TaskRecord(ev, x).rid \in {"vllm_model", "model_cache"}}}

\* (c) Needs without a task: gates, calculators read from disk, consumption
GateRow(ev, g, config) ==
    Row("vllm_model", g, GateEntry(ev, g), ev[g].wait,
        IF ev[g].prefetched /\ ~ev[g].demand THEN "direct_prefetch" ELSE NoPrefetchOutcome(config))

MaceRow(ev, i, config) ==
    Row("mace_model", Missing, ev[i].at, ev[i].took, NoPrefetchOutcome(config))

ConsumedRow(ev, i, config) ==
    LET p == FirstPrediction(ev, ev[i].rid)
    IN  Row(ev[i].rid, Missing, ev[i].at, IF p = Missing THEN 0 ELSE ev[p].est,
            NoPrefetchOutcome(config))

\* trial_rows(): under what a row tells of, a task, a resource or an event
LifecycleRows(ev, config) ==
    LET served == {TaskRecord(ev, k).rid : k \in {x \in TasksOf(ev) :
                                                    TaskRecord(ev, x).consumed # Missing}}
        of == [task |-> TasksOf(ev),
               skip |-> SkippedRids(ev),
               gate |-> Gates(ev) \ MatchedGates(ev),
               mace_load |-> {i \in Where(ev, "mace_load") : ev[i].what = "disk"},
               consumed |-> {i \in Where(ev, "resource_consumed") :
                                ev[i].status = "no_prefetch" /\ ev[i].rid \notin served}]
    IN  [n \in UNION {{source} \X of[source] : source \in DOMAIN of} |->
            CASE n[1] = "task" -> TaskRow(ev, n[2])
              [] n[1] = "skip" -> SkipRow(ev, n[2])
              [] n[1] = "gate" -> GateRow(ev, n[2], config)
              [] n[1] = "mace_load" -> MaceRow(ev, n[2], config)
              [] n[1] = "consumed" -> ConsumedRow(ev, n[2], config)]

-------------------------------------------------------------------------------
(* _stall_class() and the taxonomy.                                        *)

\* Gates whose cache was staged when the workflow came to them
OnTimeGates(rows) ==
    {rows[n].group : n \in {m \in DOMAIN rows :
        /\ rows[m].rid = "model_cache" /\ rows[m].group # Missing
        /\ rows[m].completed # Missing /\ rows[m].completed <= rows[m].need}}

WindowClass(r) ==
    LET spinup == IF r.rid = "vllm_model" THEN SpinupFloor ELSE 0
    IN  IF r.window = Missing THEN "unattributed"
        ELSE IF r.window < MinWindow THEN "no_window"
        ELSE IF r.window < r.transfer + spinup THEN "window_too_small"
        ELSE IF r.window - r.delay < r.transfer + spinup THEN "late_start"
        ELSE "residual_partial"

StallClass(r, onTime) ==
    IF r.exposure = 0 THEN ""
    ELSE IF r.outcome = "no_prefetch_config" THEN "baseline_no_prefetch"
    ELSE IF r.outcome = "no_prediction" THEN "no_prediction"
    ELSE IF r.outcome = "skipped" THEN "policy_skip"
    ELSE IF r.outcome = "direct_prefetch" THEN "residual_partial"
    ELSE IF r.rid = "vllm_model" /\ r.group \in onTime THEN "gpu_serialization_residual"
    ELSE WindowClass(r)

\* A mistaken aggregation: every row counts.
CountedAll(rows, n) == TRUE

\* Of the rows of a gate, which are of tasks in the order they started, or one,
\* the first of the longest exposure counts.
Counted(rows, n) ==
    LET row == rows[n]
        precedes(m) == LET other == rows[m]
                       IN  /\ other.group = row.group
                           /\ \/ other.exposure > row.exposure
                              \/ other.exposure = row.exposure /\ m[2] < n[2]
    IN  row.group = Missing \/ ~\E m \in DOMAIN rows \ {n} : precedes(m)

ClassSeconds(rows, class) ==
    LET ofClass == {n \in DOMAIN rows : /\ Counted(rows, n)
                                        /\ StallClass(rows[n], OnTimeGates(rows)) = class}
    IN  SumFunction([n \in ofClass |-> rows[n].exposure])
===============================================================================
