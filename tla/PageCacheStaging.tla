--------------------------- MODULE PageCacheStaging ---------------------------
(***************************************************************************)
(* prefetch/model_cache_prefetch.py: a model's weight shards are read into *)
(* the page cache by a few reader threads, each with its slice of the      *)
(* sorted shard list, until they are done or told to stop.                 *)
(***************************************************************************)
EXTENDS TaskCalls

CONSTANTS
    NShards,  \* shards of the model; shard n is the n-th of the sorted list
    Workers,  \* max_workers
    Chunks    \* chunks of a shard

Shard == 0..(NShards - 1)
Reader == 0..(Workers - 1)

VARIABLES
    unreadable,  \* shards that cannot be opened
    future,      \* _stage_all of each task
    verdict,     \* the status it has decided on
    stop,        \* tasks whose stop event is set
    reader,      \* per task and reader: the shard at hand, and its position
    chunks,      \* per task and shard: chunks read
    extra        \* history, per task and reader: chunks read after the stop

vars == <<callVars, unreadable, future, verdict, stop, reader, chunks, extra>>

-------------------------------------------------------------------------------
\* shards[i :: max_workers]
Slice(i) == {n \in Shard : n >= i /\ (n - i) % Workers = 0}

\* start(): fails at once without shards; else the staging is submitted, then
\* its future and its stop event are filed.
Begin(t) ==
    /\ \/ NShards = 0 /\ Starts(t, "failed") /\ UNCHANGED future
       \/ /\ NShards # 0 /\ Starts(t, "in_progress")
          /\ future' = [future EXCEPT ![t] = "reading"]
       \/ Files(t) /\ UNCHANGED future
    /\ UNCHANGED <<unreadable, verdict, stop, reader, chunks, extra>>

\* cancel(): the readers are told to stop if the event is known.
Cancel(t) ==
    \/ /\ Reaches(t)
       /\ stop' = IF launch[t] = "filed" THEN stop \cup {t} ELSE stop
       /\ UNCHANGED <<unreadable, future, verdict, reader, chunks, extra>>
    \/ /\ Marks(t, HookUnderWay(t) \/ future[t] = "settling")
       /\ UNCHANGED <<unreadable, future, verdict, stop, reader, chunks, extra>>

\* shutdown(): every reader whose event is filed is told to stop, no status is
\* touched.
Shutdown ==
    /\ \E t \in Task : future[t] = "reading"
    /\ stop' = {t \in Task : launch[t] = "filed"}
    /\ UNCHANGED <<callVars, unreadable, future, verdict, reader, chunks, extra>>

\* The next shard of a slice after shard n; NShards at its end.
After(i, n) ==
    CHOOSE m \in Slice(i) \cup {NShards} :
        m > n /\ \A q \in Slice(i) : q > n => m <= q

Move(t, i, n, p) == reader' = [reader EXCEPT ![t][i] = [shard |-> n, pc |-> p]]

\* _run_slice(): the next shard is opened unless the event is set; one that
\* cannot be opened counts as read.
OpenShard(t, i) ==
    LET n == After(i, reader[t][i].shard)
    IN  /\ future[t] = "reading" /\ reader[t][i].pc = "next"
        /\ IF n = NShards \/ t \in stop THEN Move(t, i, NShards, "done")
           ELSE Move(t, i, n, IF n \in unreadable THEN "next" ELSE "check")
        /\ UNCHANGED <<callVars, unreadable, future, verdict, stop, chunks, extra>>

Heeds(t) == t \in stop

\* _read_into_cache(): the event is tested before each chunk.
TestStop(t, i) ==
    /\ reader[t][i].pc = "check"
    /\ Move(t, i, reader[t][i].shard, IF Heeds(t) THEN "next" ELSE "read")
    /\ UNCHANGED <<callVars, unreadable, future, verdict, stop, chunks, extra>>

\* A chunk is read, or the end of the shard; or the read raises.
ReadChunk(t, i) ==
    LET n == reader[t][i].shard
        end == chunks[t][n] = Chunks
    IN  /\ reader[t][i].pc = "read"
        /\ \/ /\ Move(t, i, n, IF end THEN "next" ELSE "check")
              /\ chunks' = IF end THEN chunks ELSE [chunks EXCEPT ![t][n] = @ + 1]
              /\ extra' = IF ~end /\ t \in stop THEN [extra EXCEPT ![t][i] = @ + 1] ELSE extra
           \/ Move(t, i, n, "raised") /\ UNCHANGED <<chunks, extra>>
        /\ UNCHANGED <<callVars, unreadable, future, verdict, stop>>

\* A mistaken end that only knows of failures.
VerdictUnstopped(t) ==
    IF \E i \in Reader : reader[t][i].pc = "raised" THEN "failed" ELSE "completed"

Verdict(t) ==
    IF \E i \in Reader : reader[t][i].pc = "raised" THEN "failed"
    ELSE IF t \in stop THEN "cancelled" ELSE "completed"

\* _stage_all() goes on when its readers are done: the failures and the event
\* decide on a status.
StageEnds(t) ==
    /\ future[t] = "reading"
    /\ \A i \in Reader : reader[t][i].pc \in {"done", "raised"}
    /\ future' = [future EXCEPT ![t] = "testing"]
    /\ verdict' = [verdict EXCEPT ![t] = Verdict(t)]
    /\ UNCHANGED <<callVars, unreadable, stop, reader, chunks, extra>>

InProgress(t) == status[t] = "in_progress"

\* Only a task still in progress is settled: the test, then the assignment.
TestsProgress(t) ==
    /\ future[t] = "testing"
    /\ future' = [future EXCEPT ![t] = IF InProgress(t) THEN "settling" ELSE "done"]
    /\ UNCHANGED <<callVars, unreadable, verdict, stop, reader, chunks, extra>>

Settle(t) ==
    /\ future[t] = "settling"
    /\ future' = [future EXCEPT ![t] = "done"]
    /\ Assigns(t, verdict[t])
    /\ UNCHANGED <<unreadable, verdict, stop, reader, chunks, extra>>

-------------------------------------------------------------------------------
Init ==
    /\ CallsInit
    /\ unreadable \in {u \in SUBSET Shard : Cardinality(u) <= 1}
    /\ future = [t \in Task |-> "none"] /\ verdict = [t \in Task |-> "none"]
    /\ stop = {}
    /\ reader = [t \in Task |-> [i \in Reader |-> [shard |-> -1, pc |-> "next"]]]
    /\ chunks = [t \in Task |-> [n \in Shard |-> 0]]
    /\ extra = [t \in Task |-> [i \in Reader |-> 0]]

Staging(t) ==
    \/ StageEnds(t) \/ TestsProgress(t) \/ Settle(t)
    \/ \E i \in Reader : OpenShard(t, i) \/ TestStop(t, i) \/ ReadChunk(t, i)

Hook(t) == HookStep(t) /\ UNCHANGED <<unreadable, future, verdict, stop, reader, chunks, extra>>

Next == Shutdown \/ \E t \in Task : Begin(t) \/ Cancel(t) \/ Hook(t) \/ Staging(t)

Spec == Init /\ [][Next]_vars

-------------------------------------------------------------------------------
(* Properties.                                                             *)

TypeOK ==
    /\ CallsTypeOK
    /\ future \in [Task -> {"none", "reading", "testing", "settling", "done"}]
    /\ verdict \in [Task -> {"none", "completed", "cancelled", "failed"}]
    /\ stop \subseteq Task
    /\ \A t \in Task, i \in Reader :
        /\ reader[t][i].shard \in Shard \cup {-1, NShards}
        /\ reader[t][i].pc \in {"next", "check", "read", "done", "raised"}
    /\ chunks \in [Task -> [Shard -> 0..Chunks]]
    /\ extra \in [Task -> [Reader -> Nat]]

\* What is reported as staged was read to the end: every
\* shard that could be opened, also when readers are shut down or cancelled in
\* between.
CompletedMeansStaged ==
    \A t \in Task : status[t] = "completed" =>
        \A n \in Shard : chunks[t][n] = IF n \in unreadable THEN 0 ELSE Chunks

\* model_cache_prefetch.py:150 "safely interruptible: signal the readers to
\* stop": after the stop a reader finishes at most the chunk it was about to read.
StopsAtOnce == \A t \in Task, i \in Reader : extra[t][i] <= 1

\* What was cancelled stays so, whenever its readers end and whatever they
\* read, unless the cancellation met a call that had made its test and not its
\* assignment (model_cache_prefetch.py:239-242, 260-261).
CancelledForGood == \A t \in Task : withdrawn[t] = "clear" => status[t] \in {"cancelled", "wasted"}

\* A staging that was started ends, cancelled or not.
StagingEnds == \A t \in Task : future[t] = "reading" ~> future[t] = "done"
===============================================================================
