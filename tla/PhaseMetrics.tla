----------------------------- MODULE PhaseMetrics ------------------------------
(***************************************************************************)
(* What the evaluation makes of the metrics file of an AtomAgents trial:   *)
(* atomagents_q2() of parse_eval_traces.py and atomagents_need_rows() of   *)
(* extract_prefetch_lifecycle.py.                                          *)
(*                                                                         *)
(* The workflow is one thread: its phases are nested, and each writes its  *)
(* row, [phase, model, end, dur], when it ends.  Loads in the background   *)
(* leave their times in the trace.                                         *)
(***************************************************************************)
EXTENDS Integers, Sequences, FiniteSets, SequencesExt

CONSTANTS
    Model,
    Slack,       \* seconds by which a load may precede the wait it is blamed for
    MaxTime,     \* bound: seconds of the trial
    MaxRows,     \* bound: phases
    MaxDepth,    \* bound: phases in one another
    MaxTasks     \* bound: background loads

VARIABLES
    clock,
    open,       \* phases under way, innermost last
    metrics,    \* metrics.csv
    tasks,      \* the tasks of the trace: started_t, and completed_t or Never
    spent       \* history: seconds in agents, in swap waits and in inference

phases == <<clock, open, metrics, tasks, spent>>

Never == -1
None == "none"
NoTime == [tool |-> 0, swap |-> 0, reasoning |-> 0]

PhasesInit == clock = 0 /\ open = <<>> /\ metrics = <<>> /\ tasks = <<>> /\ spent = NoTime

-------------------------------------------------------------------------------
(* The trial.                                                              *)

In(kinds) == \E i \in DOMAIN open : open[i].phase \in kinds

\* The router swaps engines inside an LLM call of an agent; an agent may talk to
\* another one.
Opens(phase, model) ==
    /\ Len(open) < MaxDepth /\ Len(metrics) + Len(open) < MaxRows /\ clock < MaxTime
    /\ ~In({"swap", "inference"})
    /\ (phase = "swap") = (model # None)
    /\ open' = Append(open, [phase |-> phase, model |-> model, since |-> clock])
    /\ UNCHANGED <<clock, metrics, tasks, spent>>

Closes ==
    /\ open # <<>> /\ Last(open).since < clock
    /\ metrics' = Append(metrics, [phase |-> Last(open).phase, model |-> Last(open).model,
                                   end |-> clock, dur |-> clock - Last(open).since])
    /\ open' = Front(open)
    /\ UNCHANGED <<clock, tasks, spent>>

LoadStarts(m) ==
    /\ Len(tasks) < MaxTasks /\ clock < MaxTime
    /\ tasks' = Append(tasks, [model |-> m, started |-> clock, completed |-> Never])
    /\ UNCHANGED <<clock, open, metrics, spent>>

LoadEnds(k) ==
    /\ tasks[k].completed = Never
    /\ tasks' = [tasks EXCEPT ![k].completed = clock]
    /\ UNCHANGED <<clock, open, metrics, spent>>

Passes ==
    /\ clock < MaxTime /\ clock' = clock + 1
    /\ spent' = IF In({"swap"}) THEN [spent EXCEPT !.swap = @ + 1]
                ELSE [spent EXCEPT !.tool = IF In({"agent"}) THEN @ + 1 ELSE @,
                                   !.reasoning = IF In({"inference"}) THEN @ + 1 ELSE @]
    /\ UNCHANGED <<open, metrics, tasks>>

PhasesNext ==
    \/ \E p \in {"agent", "inference"} : Opens(p, None)
    \/ \E m \in Model : Opens("swap", m) \/ LoadStarts(m)
    \/ Closes \/ Passes
    \/ \E k \in DOMAIN tasks : LoadEnds(k)

-------------------------------------------------------------------------------
(* atomagents_q2()                                                         *)

\* The rows of a phase, and the interval of a row, rebuilt from its end.
Rows(phase) == {i \in DOMAIN metrics : metrics[i].phase = phase}
SpanOf(r) == [from |-> r.end - r.dur, to |-> r.end]

\* Intervals are sorted by their start, then their end.
Earlier(i, j) ==
    LET a == SpanOf(metrics[i])
        b == SpanOf(metrics[j])
    IN  \/ a.from < b.from
        \/ a.from = b.from /\ (a.to < b.to \/ (a.to = b.to /\ i < j))

Sorted(rows) ==
    [r \in 1 .. Cardinality(rows) |->
        SpanOf(metrics[CHOOSE i \in rows : Cardinality({j \in rows : Earlier(j, i)}) = r - 1])]

Merged(acc, s) ==
    IF acc # <<>> /\ s.from <= Last(acc).to
    THEN [acc EXCEPT ![Len(acc)].to = IF s.to > @ THEN s.to ELSE @]
    ELSE Append(acc, s)

\* _merge_intervals() of the intervals of some rows
MergeIntervals(rows) ==
    LET spans == Sorted(rows)
        merged[k \in 0 .. Len(spans)] == IF k = 0 THEN <<>> ELSE Merged(merged[k - 1], spans[k])
    IN  merged[Len(spans)]

\* _interval_len()
IntervalLen(spans) == SumFunction([k \in DOMAIN spans |-> spans[k].to - spans[k].from])

\* _interval_overlap()
IntervalOverlap(x, y) ==
    SumFunction([p \in (DOMAIN x) \X (DOMAIN y) |->
        Max({0, Min({x[p[1]].to, y[p[2]].to}) - Max({x[p[1]].from, y[p[2]].from})})])

ToolSeconds == LET agents == MergeIntervals(Rows("agent"))
               IN IntervalLen(agents) - IntervalOverlap(agents, MergeIntervals(Rows("swap")))
SwapSeconds == IntervalLen(MergeIntervals(Rows("swap")))
ReasoningSeconds == SumFunction([i \in Rows("inference") |-> metrics[i].dur])

-------------------------------------------------------------------------------
(* atomagents_need_rows()                                                  *)

InFlight(task, s) ==
    /\ task.started <= s.to
    /\ (IF task.completed = Never THEN s.to ELSE task.completed) >= s.from - Slack

\* Loads that may have caused a wait, and the first of them.
Near(r) == {k \in DOMAIN tasks : tasks[k].model = r.model /\ InFlight(tasks[k], SpanOf(r))}
First(near) == CHOOSE k \in near : \A j \in near : k <= j

\* stall_class of a wait
StallClass(r) ==
    IF Near(r) = {} THEN "no_prediction"
    ELSE IF tasks[First(Near(r))].started > SpanOf(r).from THEN "late_start" ELSE "residual_partial"

Needs == Rows("swap")

-------------------------------------------------------------------------------
(* Properties.                                                             *)

PhasesTypeOK ==
    /\ clock \in 0 .. MaxTime /\ Len(open) <= MaxDepth /\ Len(metrics) <= MaxRows
    /\ \A i \in DOMAIN metrics : metrics[i].dur \in 0 .. MaxTime
    /\ Len(tasks) <= MaxTasks /\ {spent.tool, spent.swap, spent.reasoning} \subseteq 0 .. MaxTime

\* Once every phase has ended, the three sums are the seconds the thread spent
\* in conversations but not waiting, in swap waits and in inference: agents that
\* talk to agents count once, and a wait inside a conversation is a wait only
\* (parse_eval_traces.py:381-388).
Q2Exact ==
    (open = <<>>) => /\ ToolSeconds = spent.tool
                     /\ SwapSeconds = spent.swap
                     /\ ReasoningSeconds = spent.reasoning

\* A wait for a model whose load was already under way is the remainder of that
\* load; a wait for a model nobody was loading is not predicted
\* (extract_prefetch_lifecycle.py:500-514).
BlamedRight ==
    \A i \in Needs :
        LET r == metrics[i]
            s == SpanOf(r)
            loads == {k \in DOMAIN tasks : tasks[k].model = r.model}
        IN /\ (\E k \in loads : /\ tasks[k].started <= r.end - r.dur
                                /\ tasks[k].completed \in {Never} \cup (s.to .. MaxTime))
              => StallClass(r) = "residual_partial"
           /\ (loads = {}) => StallClass(r) = "no_prediction"
===============================================================================
