----------------------------- MODULE TraceReports -----------------------------
(***************************************************************************)
(* The reports read against what happened: a run of WorkflowTrace, and at  *)
(* its end what TimingReports and EvalReports make of its trace.  The      *)
(* histories of WorkflowTrace (needs, thought, tasks) are the truth the    *)
(* reports are measured with; a report sees nothing but `events`.          *)
(***************************************************************************)
EXTENDS WorkflowTrace, FiniteSetsExt

CONSTANTS MinWindow, SpinupFloor     \* see EvalReports

ASSUME ReportConstants == MinWindow \in Nat /\ SpinupFloor \in Nat

\* tool_resources.json, of the tools of a run; LLM_NODES, of its nodes
ConsumerOf == [mace_model |-> {"run_ase"}]
LlmNodes == {"PlannerAgent", "WorkerAgent", "AggregatorAgent"}

T == INSTANCE TimingReports
E == INSTANCE EvalReports

TraceSpec == TraceInit /\ [][TraceNext]_vars

-------------------------------------------------------------------------------
(* What happened.                                                          *)

Ended == pc = "ended"

BlockedFor(whats) ==
    SumFunction([i \in {n \in DOMAIN needs : needs[n].what \in whats} |-> needs[i].blocked])

GateSeconds == BlockedFor({"worker", "aggregator"})

\* Tasks that served a need, and whose end the trace tells
Used == {k \in DOMAIN tasks : tasks[k].status = "used"}
Told == {k \in Used : tasks[k].reported}

ToolCalls == {i \in DOMAIN events : events[i].type = "tool_call"}
ToolAt(s) ==
    LET calls == {i \in ToolCalls : Cardinality({j \in ToolCalls : j <= i}) = s}
    IN  events[CHOOSE i \in calls : TRUE].what

\* Rows of the lifecycle of the run, under the name of its configuration
Config == IF mode = "real" THEN "prefetch" ELSE mode
Rows == E!LifecycleRows(events, Config)
TaxonomySeconds ==
    LET rows == Rows
        classes == {E!StallClass(rows[n], E!OnTimeGates(rows)) : n \in DOMAIN rows}
    IN  SumFunction([class \in classes |-> E!ClassSeconds(rows, class)])

-------------------------------------------------------------------------------
(* Type and properties.                                                    *)

TypeOK ==
    /\ mode \in Mode /\ pace \in Paces /\ clock \in Nat /\ step \in 0..MaxTools
    /\ pc \in {"begin", "planner", "planned", "worker_gate", "worker", "loading", "disk", "tool",
               "aggregator_gate", "aggregator", "ended"}
    /\ \A i \in DOMAIN events : events[i].at \in 0..clock
    /\ \A k \in DOMAIN tasks :
          /\ tasks[k].status \in {"in_progress", "used", "cancelled", "wasted"}
          /\ tasks[k].started \in 0..clock /\ tasks[k].consumed \in {None} \cup 0..clock
    /\ taken \subseteq DOMAIN tasks
    /\ pending \in 0..step /\ thought \in 0..clock

\* exposed_stall_s of parse_eval_traces never misses a second the workflow
\* stood at a gate, also if no poll thread lived to report the load.
GateStallCounted == Ended => E!ExposedStall(events) >= GateSeconds

\* agent reasoning is the time LLM nodes really had: the waits that happen
\* inside their chain spans are taken out, and nothing else.
ReasoningExact == Ended => E!ReasoningSeconds(events) = thought

\* A task whose end is in the trace gets the class it deserves, however late
\* the poll thread logged it: late if the load ended after the need, useful if
\* before, wasted or cancelled as the guard revoked it.
ClassesTrue ==
    Ended => \A k \in DOMAIN tasks : tasks[k].reported =>
        LET class == E!Classify(events, k)
        IN  /\ k \in Used => (class = "late") = (tasks[k].lands > tasks[k].consumed)
            /\ k \in Used => class \in {"late", "useful"}
            /\ tasks[k].status \in {"wasted", "cancelled"} => class = tasks[k].status

\* overlap_report.py and parse_eval_traces.py, which rebuild the same records
\* with code of their own, agree on every task that was used: whether, how much
\* of its load was hidden and how much was waited for.
ReportsAgree ==
    Ended =>
        /\ \A k \in Told :
              LET rec == T!TaskRecord(events, k)
                  eval == E!TaskRecord(events, k)
              IN  /\ T!OverlapSeconds(rec) = E!OverlapOf(eval)
                  /\ T!WasteSeconds(rec) = E!StallOf(eval)
        /\ T!OverlapSummary(events).waste =
              SumFunction([k \in Told |-> E!StallOf(E!TaskRecord(events, k))])
        /\ T!StatusCount(events, "used") = E!CountOf(events, "useful") + E!CountOf(events, "late")
        /\ T!StatusCount(events, "cancelled") = E!CountOf(events, "cancelled")

\* The residual of the worker's engine is the time its gate was closed.
ResidualTrue ==
    Ended => \A k \in Told : tasks[k].rid = "vllm_model" =>
        E!StallOf(E!TaskRecord(events, k)) = BlockedFor({"worker"})

\* trace_analyzer.py goes by the time an end was logged: where a resource has
\* one task, its stall and its overlap are too long by what the poll thread lags
\* at most, and its totals over the run by that for every resource.
AnalyzerLag ==
    (Ended /\ \A k, x \in DOMAIN tasks : k # x => tasks[k].rid # tasks[x].rid) =>
        /\ \A k \in Told :
              T!ResourceStall(T!ResourceRecord(events, tasks[k].rid))
                  - E!StallOf(E!TaskRecord(events, k)) \in 0..pace.lag
        /\ Used = Told =>
              T!AnalyzerTotals(events).overlap - E!OverlapSeconds(events)
                  \in 0..(pace.lag * Cardinality(Used))

\* In a run that never prefetches, the stall classes add up to exactly the time
\* the workflow was blocked: no gate and no load is counted twice or left out.
BaselineReconciles ==
    (Ended /\ mode = "baseline") => TaxonomySeconds = BlockedFor({"worker", "aggregator", "mace"})

\* Whatever its rows, a gate's seconds enter the stall classes once.
GateOnce ==
    Ended =>
        LET rows == Rows
            counted == {n \in DOMAIN rows : rows[n].group # E!Missing /\ E!Counted(rows, n)}
        IN  SumFunction([n \in counted |-> rows[n].exposure]) = GateSeconds

\* validated_hit in the row of a prediction is what the tool after it said, and
\* trace_analyzer.py leaves as many predictions without a verdict.
VerdictJoined ==
    Ended =>
        /\ \A p \in E!PredictionsOf(events, "mace_model") :
              E!ValidatedHit(events, p) =
                  IF events[p].step = step THEN "unknown"
                  ELSE IF ToolAt(events[p].step + 1) = "run_ase" THEN "hit" ELSE "miss"
        /\ T!Unvalidated(events) =
              Cardinality({p \in E!Where(events, "prediction_result") :
                              E!ValidatedHit(events, p) = "unknown"})

\* expired_unvalidated never claims a prediction that was admitted or judged.
ExpiredWithin ==
    Ended => E!Expired(events) <=
        Cardinality({p \in E!Where(events, "prediction_result") :
            /\ \A k \in DOMAIN tasks : tasks[k].rid = events[p].rid => tasks[k].ckpt # events[p].step
            /\ \/ events[p].rid # "mace_model"
               \/ E!ValidatedHit(events, p) = "unknown"})

\* missed_opportunities names MACE only if the workflow paid for it with a load
\* from disk, and never in a run whose calculators were all prefetched.
MissedPaid ==
    (Ended /\ "mace_model" \in E!Missed(events)) =>
        \E i \in E!Where(events, "mace_load") : events[i].what = "disk"

\* n_wrong_after_divergence: speculation that proves wrong after a divergence was
\* started after the conservative steps the divergence asked for.
WrongAfterWindow ==
    Ended =>
        LET first == {i \in E!Where(events, "divergence_detected") :
                         \A j \in E!Where(events, "divergence_detected") : i <= j}
        IN  E!WrongAfterDivergence(events) <=
                Cardinality({k \in DOMAIN tasks :
                    \E i \in first : tasks[k].ckpt > events[i].ckpt + 1 + Conservative})

\* The seconds the reports attribute are seconds the workflow had: waits at the
\* gates, residuals, reasoning, and in a baseline all of the blocked time, each
\* once (parse_eval_traces.py, extract_prefetch_lifecycle.py).
SecondsTrue ==
    /\ TypeOK /\ GateStallCounted /\ GateOnce /\ ResidualTrue
    /\ BaselineReconciles /\ ReasoningExact

\* The three programs that rebuild the records of the tasks from one trace
\* (overlap_report.py, parse_eval_traces.py, trace_analyzer.py) agree, up to
\* the lag of the poll thread.
RecordsAgree == ReportsAgree /\ AnalyzerLag

\* What is said of a prediction or a task is what became of it: its class, its
\* verdict, whether it expired, was missed, or was started after a divergence.
OutcomesTrue ==
    ClassesTrue /\ VerdictJoined /\ ExpiredWithin /\ MissedPaid /\ WrongAfterWindow
===============================================================================
