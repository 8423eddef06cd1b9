----------------------------- MODULE TimingReports -----------------------------
(***************************************************************************)
(* What the runtime's own reports make of a trace: overlap_report.py with  *)
(* the timing records of measurement/timings.py, one record per prefetch   *)
(* task, and trace_analyzer.py, one record per resource.                   *)
(*                                                                         *)
(* Operators of a trace `ev`, a sequence of the events of WorkflowTrace.   *)
(***************************************************************************)
EXTENDS Integers, Sequences, FiniteSetsExt

Absent == -1

\* Positions of the events of a type, first and last of some, events before one
Where(ev, type) == {i \in DOMAIN ev : ev[i].type = type}
First(S) == Min(S)
Last(S) == Max(S)
TimeOfLast(ev, S) == IF S = {} THEN Absent ELSE ev[Last(S)].at

AtLeastZero(n) == IF n < 0 THEN 0 ELSE n
Earlier(a, b) == IF a < b THEN a ELSE b

TasksOf(ev) == {ev[i].task : i \in Where(ev, "prefetch_started")}
OfTask(ev, type, k) == {i \in Where(ev, type) : ev[i].task = k}
StartOf(ev, k) == ev[First(OfTask(ev, "prefetch_started", k))].at

-------------------------------------------------------------------------------
(* overlap_report.parse_events(): one record per task.                     *)

\* A mistaken end: when the poll thread logged it.
EndAsLogged(ev, k) == TimeOfLast(ev, OfTask(ev, "prefetch_completed", k))

\* The start and the load's own time tell when a load ended; a load that took
\* no time ends when it is logged.
EndOf(ev, k) ==
    LET done == OfTask(ev, "prefetch_completed", k)
    IN  IF done = {} THEN Absent
        ELSE IF ev[Last(done)].elapsed > 0 THEN StartOf(ev, k) + ev[Last(done)].elapsed
        ELSE ev[Last(done)].at

TaskRecord(ev, k) ==
    LET cancels == OfTask(ev, "prefetch_cancelled", k)
        consumed == OfTask(ev, "resource_consumed", k)
    IN  [start |-> StartOf(ev, k), end |-> EndOf(ev, k),
         needed |-> TimeOfLast(ev, consumed),
         cancelled |-> cancels # {},
         wasted |-> cancels # {} /\ ev[Last(cancels)].wasted,
         used |-> \E i \in consumed : ev[i].status = "used"]

-------------------------------------------------------------------------------
(* PrefetchTimingRecord: its derived metrics.                              *)

Timed(rec) == rec.end # Absent /\ rec.needed # Absent /\ ~rec.cancelled

OverlapSeconds(rec) ==
    IF rec.end = Absent \/ rec.cancelled THEN 0
    ELSE AtLeastZero((IF rec.needed = Absent THEN rec.end ELSE Earlier(rec.end, rec.needed))
                        - rec.start)

BenefitSeconds(rec) == IF Timed(rec) THEN AtLeastZero(rec.needed - rec.end) ELSE 0
WasteSeconds(rec) == IF Timed(rec) THEN AtLeastZero(rec.end - rec.needed) ELSE 0

\* print_overlap_report(): the sections of its summary
TaskStatus(rec) ==
    IF rec.used THEN "used" ELSE IF rec.wasted THEN "wasted"
    ELSE IF rec.cancelled THEN "cancelled" ELSE "other"

StatusCount(ev, status) == Cardinality({k \in TasksOf(ev) : TaskStatus(TaskRecord(ev, k)) = status})

\* build_json_summary()
OverlapSummary(ev) ==
    [task_count |-> Cardinality(TasksOf(ev)),
     benefit |-> SumFunction([k \in TasksOf(ev) |-> BenefitSeconds(TaskRecord(ev, k))]),
     waste |-> SumFunction([k \in TasksOf(ev) |-> WasteSeconds(TaskRecord(ev, k))])]

-------------------------------------------------------------------------------
(* trace_analyzer.analyze(): counts, and one record per resource, which a  *)
(* later task of the resource writes over.                                 *)

Hits(ev) == Cardinality({i \in Where(ev, "prediction_validated") : ev[i].hit})
Misses(ev) ==
    Cardinality({i \in Where(ev, "prediction_validated") : ~ev[i].hit})
        + Cardinality(Where(ev, "divergence_detected"))
Unvalidated(ev) == Cardinality(Where(ev, "prediction_result")) - Hits(ev) - Misses(ev)

OfResource(ev, type, rid) == {i \in Where(ev, type) : ev[i].rid = rid}

\* Completions of the task that was the resource's latest when it was logged
Completions(ev, rid) ==
    LET starts == OfResource(ev, "prefetch_started", rid)
    IN  {i \in Where(ev, "prefetch_completed") :
            LET before == {s \in starts : s < i}
            IN  before # {} /\ ev[i].task = ev[Last(before)].task}

ResourceRecord(ev, rid) ==
    LET consumed == OfResource(ev, "resource_consumed", rid)
        estimates == {i \in OfResource(ev, "prefetch_decision", rid) : ev[i].est # Absent}
        completed == Completions(ev, rid)
    IN  [started |-> TimeOfLast(ev, OfResource(ev, "prefetch_started", rid)),
         completed |-> TimeOfLast(ev, completed),
         consumed |-> TimeOfLast(ev, consumed),
         status |-> IF consumed = {} THEN "" ELSE ev[Last(consumed)].status,
         actual |-> IF completed = {} THEN 0 ELSE ev[Last(completed)].elapsed,
         est |-> IF estimates # {} THEN ev[Last(estimates)].est
                 ELSE IF completed # {} THEN ev[Last(completed)].elapsed ELSE 0]

\* A resource nobody prefetched stalls for its estimated load.
ResourceStall(r) ==
    IF r.status = "no_prefetch" \/ r.started = Absent THEN r.est
    ELSE IF r.consumed # Absent /\ r.completed # Absent
         THEN AtLeastZero(r.completed - r.consumed) ELSE 0

ResourceOverlap(r) ==
    IF r.status = "no_prefetch" \/ Absent \in {r.started, r.completed, r.consumed} THEN 0
    ELSE AtLeastZero(Earlier(r.completed, r.consumed) - r.started)

ResourceBenefit(r) ==
    IF r.status = "no_prefetch" \/ Absent \in {r.started, r.completed, r.consumed} THEN 0
    ELSE AtLeastZero(r.est - ResourceStall(r))

ResourceWaste(r) ==
    IF r.status # "no_prefetch" /\ r.started # Absent /\ r.completed # Absent
        /\ r.consumed = Absent
    THEN IF r.actual > 0 THEN r.actual ELSE r.completed - r.started
    ELSE 0

ResourcesOf(ev) ==
    {ev[i].rid : i \in Where(ev, "prefetch_started") \cup Where(ev, "resource_consumed")}

AnalyzerTotals(ev) ==
    LET total(f(_)) == SumFunction([rid \in ResourcesOf(ev) |-> f(ResourceRecord(ev, rid))])
    IN  [stall |-> total(ResourceStall), overlap |-> total(ResourceOverlap),
         benefit |-> total(ResourceBenefit), waste |-> total(ResourceWaste)]
===============================================================================
