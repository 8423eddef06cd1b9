---------------------------- MODULE SystemProfiler ----------------------------
(***************************************************************************)
(* measurement/system_profiler.py: a thread samples the node while engines *)
(* come and go, and gpu_stats() of parse_eval_traces.py makes GPU idle     *)
(* time of its rows.  Seconds are counted one by one.                      *)
(*                                                                         *)
(* An engine (a model behind its port) is the number of its process, 0 if  *)
(* it does not run: a restart is another process.  nvidia-smi answers at   *)
(* once or runs into its timeout.                                          *)
(***************************************************************************)
EXTENDS Integers, Sequences, FiniteSets, FiniteSetsExt

CONSTANTS
    Engine,        \* the two servers it looks for
    Attempts,      \* looks for processes before the first sample
    RetrySleep,    \* seconds between them
    SmiTimeout,    \* of nvidia-smi
    Interval,      \* interval_s
    JoinTimeout,   \* of stop()
    MaxChanges,    \* bound: starts and stops of engines, and turns of the GPUs
    MaxRows        \* bound: samples

VARIABLES
    now,
    engine,      \* process of each engine
    idle,        \* whether all GPUs are idle
    changes,     \* changes so far
    always,      \* history: whether the GPUs have been idle since the first sample
    thread,      \* where _run() is
    wakes,       \* when it goes on
    attempt,
    known,       \* vllm_pids: process found for each engine, 0 if none
    columns,     \* whether the GPUs were seen when the columns were made
    row,         \* the sample in the making
    rows,        \* the CSV
    stopping,    \* _stop_event
    stopped      \* stop(): when it gives up waiting; or Running, Returned

profiler == <<now, engine, idle, changes, always, thread, wakes, attempt, known, columns, row,
              rows, stopping, stopped>>

Running == -1
Returned == -2
None == [e \in Engine |-> 0]

\* "of" and "alive" are not in the file: the processes the sampler looked at,
\* and those that ran at that moment.
NoRow == [t |-> 0, procs |-> None, of |-> None, alive |-> None, util |-> "none"]
Unread == "none"

ProfilerInit ==
    /\ now = 0 /\ engine \in {None, [e \in Engine |-> 1]} /\ changes = 1
    /\ idle \in BOOLEAN /\ always = idle
    /\ thread = "off" /\ wakes = 0 /\ attempt = 0
    /\ known = None /\ columns = FALSE /\ row = NoRow /\ rows = <<>>
    /\ stopping = FALSE /\ stopped = Running

-------------------------------------------------------------------------------
(* The node.                                                               *)

\* An engine starts, or its process ends.
EngineChanges(e) ==
    /\ changes < MaxChanges /\ changes' = changes + 1
    /\ engine' = [engine EXCEPT ![e] = IF engine[e] = 0 THEN changes + 1 ELSE 0]
    /\ UNCHANGED <<now, idle, always, thread, wakes, attempt, known, columns, row, rows,
                   stopping, stopped>>

GpusTurn ==
    /\ changes < MaxChanges /\ changes' = changes + 1
    /\ idle' = ~idle
    /\ always' = (idle' /\ (always \/ (rows = <<>> /\ thread # "write")))
    /\ UNCHANGED <<now, engine, thread, wakes, attempt, known, columns, row, rows, stopping,
                   stopped>>

-------------------------------------------------------------------------------
(* _run()                                                                  *)

\* _find_vllm_pids(): the processes that serve on the two ports
Found == engine

\* _sample_tree(): nothing of a process that is gone
Procs(e, pid) == IF pid # 0 /\ engine[e] = pid THEN 1 ELSE 0

GivesUp(n) == n = Attempts

\* Nothing to profile yet: look again after a while.
Finds ==
    /\ thread = "find" /\ wakes <= now
    /\ known' = Found
    /\ IF \A e \in Engine : Found[e] = 0
       THEN /\ attempt' = attempt + 1 /\ wakes' = now + RetrySleep
            /\ thread' = IF GivesUp(attempt') THEN "prime" ELSE "find"
       ELSE /\ thread' = "prime" /\ UNCHANGED <<attempt, wakes>>
    /\ UNCHANGED <<now, engine, idle, changes, always, columns, row, rows, stopping, stopped>>

\* The GPUs nvidia-smi names now are the only ones that get columns.
Primes(answers) ==
    /\ thread = "prime" /\ wakes <= now
    /\ columns' = answers
    /\ thread' = "loop" /\ wakes' = IF answers THEN now ELSE now + SmiTimeout
    /\ UNCHANGED <<now, engine, idle, changes, always, attempt, known, row, rows, stopping, stopped>>

\* An engine without a process is looked for again in every sample.
Rediscovered == [e \in Engine |-> IF known[e] = 0 THEN Found[e] ELSE known[e]]

Samples(answers) ==
    /\ thread = "loop" /\ wakes <= now /\ ~stopping /\ Len(rows) < MaxRows
    /\ known' = Rediscovered
    /\ row' = [t |-> now, procs |-> [e \in Engine |-> Procs(e, Rediscovered[e])],
               of |-> Rediscovered, alive |-> engine,
               util |-> IF ~(columns /\ answers) THEN Unread ELSE IF idle THEN "idle" ELSE "busy"]
    /\ always' = IF rows = <<>> THEN idle ELSE always
    /\ thread' = "write" /\ wakes' = IF answers THEN now ELSE now + SmiTimeout
    /\ UNCHANGED <<now, engine, idle, changes, attempt, columns, rows, stopping, stopped>>

Writes ==
    /\ thread = "write" /\ wakes <= now
    /\ rows' = Append(rows, row) /\ row' = NoRow
    /\ thread' = "loop" /\ wakes' = now + Interval
    /\ UNCHANGED <<now, engine, idle, changes, always, attempt, known, columns, stopping, stopped>>

\* The wait between samples ends with the event, a call to nvidia-smi does not.
LeavesLoop == thread = "loop" /\ stopping /\ (wakes <= now \/ rows # <<>>)

Ends ==
    /\ LeavesLoop
    /\ thread' = "ended"
    /\ UNCHANGED <<now, engine, idle, changes, always, wakes, attempt, known, columns, row, rows,
                   stopping, stopped>>

-------------------------------------------------------------------------------
(* start() and stop(), in the thread of the experiment.                    *)

Starts ==
    /\ thread = "off"
    /\ thread' = "find" /\ wakes' = now
    /\ UNCHANGED <<now, engine, idle, changes, always, attempt, known, columns, row, rows,
                   stopping, stopped>>

Stops ==
    /\ thread # "off" /\ ~stopping
    /\ stopping' = TRUE /\ stopped' = now + JoinTimeout
    /\ UNCHANGED <<now, engine, idle, changes, always, thread, wakes, attempt, known, columns,
                   row, rows>>

\* A mistaken stop(): it sets the event and does not join.
NotJoined == TRUE

\* join() returns when the thread has ended, or without it when its time is up.
Joined == thread = "ended" \/ now >= stopped

StopReturns ==
    /\ stopping /\ stopped # Returned
    /\ Joined
    /\ stopped' = Returned
    /\ UNCHANGED <<now, engine, idle, changes, always, thread, wakes, attempt, known, columns,
                   row, rows, stopping>>

\* A sample that is due comes before the next second, and so does a join().
Due ==
    \/ thread \in {"find", "prime", "write"} /\ wakes <= now
    \/ LeavesLoop
    \/ thread = "loop" /\ ~stopping /\ wakes <= now /\ Len(rows) < MaxRows
    \/ stopping /\ stopped # Returned /\ Joined

Second ==
    /\ thread \in {"find", "prime", "write", "loop"} /\ ~Due
    /\ wakes > now
    /\ now' = now + 1
    /\ UNCHANGED <<engine, idle, changes, always, thread, wakes, attempt, known, columns, row,
                   rows, stopping, stopped>>

RunStep ==
    \/ Finds \/ Writes \/ Ends
    \/ \E answers \in BOOLEAN : Primes(answers) \/ Samples(answers)

ProfilerNext ==
    \/ \E e \in Engine : EngineChanges(e)
    \/ GpusTurn \/ Starts \/ RunStep \/ Stops \/ StopReturns \/ Second

-------------------------------------------------------------------------------
(* gpu_stats(): each row stands for the time since the row before it.      *)

\* A mistaken gap: a row without readings leaves its time to the next one.
GapSinceReading(i) ==
    rows[i].t - rows[Max({1} \cup {j \in 2 .. i - 1 : rows[j].util # Unread})].t

Gap(i) == rows[i].t - rows[i - 1].t

Later == 2 .. Len(rows)

\* gpu_all_idle_s
AllIdle == MapThenSumSet(Gap, {i \in Later : rows[i].util = "idle"})

\* gpu_profile_span_s
Span == rows[Len(rows)].t - rows[1].t

-------------------------------------------------------------------------------
(* Properties.                                                             *)

ProfilerTypeOK ==
    /\ now \in Nat /\ engine \in [Engine -> Nat] /\ idle \in BOOLEAN
    /\ changes \in 0 .. MaxChanges /\ always \in BOOLEAN
    /\ thread \in {"off", "find", "prime", "loop", "write", "ended"}
    /\ wakes \in Nat /\ attempt \in 0 .. Attempts /\ known \in [Engine -> Nat]
    /\ columns \in BOOLEAN /\ stopping \in BOOLEAN /\ stopped \in Nat \cup {Running, Returned}
    /\ Len(rows) \in 0 .. MaxRows

\* GPUs that have been idle since the first sample are reported idle for the
\* whole profile but the gaps that ended in a sample nvidia-smi did not answer:
\* no second is lost with an unread sample twice, or counted with the next one
\* (parse_eval_traces.py:449-464).
IdleExact ==
    (always /\ Len(rows) >= 2 /\ columns)
        => AllIdle = Span - MapThenSumSet(Gap, {i \in Later : rows[i].util = Unread})

\* An engine that runs is in the sample, even one that started in the middle of
\* the run; only one that came back under another process is missed
\* (system_profiler.py:337-345).
RunningSampled ==
    \A i \in DOMAIN rows : \A e \in Engine :
        (rows[i].alive[e] # 0 /\ rows[i].procs[e] = 0) => rows[i].of[e] \notin {0, rows[i].alive[e]}

===============================================================================
