--------------------------- MODULE MeasurementSuite ----------------------------
(***************************************************************************)
(* Three ways the runtime measures itself, explored one at a time: the     *)
(* profiler's rows and the idle time made of them, the probes around a     *)
(* load, and the sums made of the metrics file of a trial.  They share no  *)
(* state; "which" says whose behaviours these are.                         *)
(***************************************************************************)
EXTENDS Integers, Sequences

CONSTANTS
    Engine, Attempts, RetrySleep, SmiTimeout, Interval, JoinTimeout, MaxChanges, MaxSamples,
    Shards, ShardSize, Traffic, MaxLoads, MaxTraffic, MaxSeconds,
    Model, Slack, MaxTime, MaxPhases, MaxDepth, MaxTasks

ASSUME SuiteConstants ==
    /\ {Attempts, RetrySleep, SmiTimeout, Interval, JoinTimeout, MaxSamples} \subseteq Nat \ {0}
    /\ {Shards, ShardSize, MaxLoads} \subseteq Nat \ {0} /\ Traffic \subseteq Nat
    /\ MaxChanges \in Nat \ {0} /\ {MaxTraffic, MaxSeconds, MaxTasks} \subseteq Nat
    /\ {Slack, MaxTime, MaxPhases, MaxDepth} \subseteq Nat

VARIABLES
    which,
    now, engine, idle, changes, always, thread, wakes, attempt, known, columns, row, rows,
    stopping, stopped,                                                          \* profiler
    rchar, storage, net, before, from, by, other, elapsed, verdict, loads,      \* probes
    clock, open, metrics, tasks, spent                                          \* phases

profiler == <<now, engine, idle, changes, always, thread, wakes, attempt, known, columns, row,
              rows, stopping, stopped>>
probes == <<rchar, storage, net, before, from, by, other, elapsed, verdict, loads>>
phases == <<clock, open, metrics, tasks, spent>>
measured == <<which, profiler, probes, phases>>

Profiler == INSTANCE SystemProfiler WITH MaxRows <- MaxSamples
Probes == INSTANCE ClusterProbes
Phases == INSTANCE PhaseMetrics WITH MaxRows <- MaxPhases

MeasureInit ==
    /\ which \in {"profiler", "probes", "phases"}
    /\ Profiler!ProfilerInit /\ Probes!ProbesInit /\ Phases!PhasesInit
    /\ which # "profiler" => idle = FALSE /\ engine = Profiler!None

ProfilerStep == which = "profiler" /\ Profiler!ProfilerNext /\ UNCHANGED <<which, probes, phases>>
ProbesStep == which = "probes" /\ Probes!ProbesNext /\ UNCHANGED <<which, profiler, phases>>
PhasesStep == which = "phases" /\ Phases!PhasesNext /\ UNCHANGED <<which, profiler, probes>>

MeasureNext == ProfilerStep \/ ProbesStep \/ PhasesStep

\* The experiment starts and stops the profiler, its thread runs, time passes.
MeasureSpec ==
    /\ MeasureInit /\ [][MeasureNext]_measured
    /\ WF_measured(which = "profiler" /\ Profiler!Starts /\ UNCHANGED <<which, probes, phases>>)
    /\ WF_measured(which = "profiler" /\ Profiler!RunStep /\ UNCHANGED <<which, probes, phases>>)
    /\ WF_measured(which = "profiler" /\ Profiler!Stops /\ UNCHANGED <<which, probes, phases>>)
    /\ WF_measured(which = "profiler" /\ Profiler!StopReturns /\ UNCHANGED <<which, probes, phases>>)
    /\ WF_measured(which = "profiler" /\ Profiler!Second /\ UNCHANGED <<which, probes, phases>>)

-------------------------------------------------------------------------------
(* The properties of the three modules.                                    *)

\* Every variable has its type, whichever part runs.
TypesOK == Profiler!ProfilerTypeOK /\ Probes!ProbesTypeOK /\ Phases!PhasesTypeOK

\* The profile shows what ran: no second of idle GPUs is lost or counted twice
\* (parse_eval_traces.py:449-464), and an engine that runs is in the sample
\* unless it came back under another process (system_profiler.py:337-345).
ProfileTrue == TypesOK /\ Profiler!IdleExact /\ Profiler!RunningSampled

\* A load is told from where its bytes came, and without the counters of the
\* process no cache hit is claimed (cluster_probes.py:45-48, 405-449); tool
\* time, waits and inference are told apart (parse_eval_traces.py:381-388), and
\* a wait is blamed on the load that caused it
\* (extract_prefetch_lifecycle.py:500-514).
CausesTold ==
    Probes!SourceRight /\ Probes!NoCacheUnseen /\ Phases!Q2Exact /\ Phases!BlamedRight

\* Once stop() has returned the file is complete (system_profiler.py:264-269).
RowsComplete == [][stopped = Profiler!Returned => rows' = rows]_measured

\* The thread ends and stop() returns (system_profiler.py:273-391), and from then
\* on the file is complete.
ProfileComplete ==
    /\ RowsComplete
    /\ (which = "profiler") ~> (thread = "ended" /\ stopped = Profiler!Returned)
===============================================================================
