------------------------------- MODULE TaskCalls -------------------------------
(***************************************************************************)
(* What prefetch/scheduler.py does to a task that an executor loads.  The  *)
(* calls come from the hooks of concurrent conversations, so that any      *)
(* number of steps of others fit between what one call reads and what it   *)
(* writes.  The actions of the executors complete these with what start()  *)
(* and cancel() do to a load.                                              *)
(***************************************************************************)
EXTENDS Integers, FiniteSets

CONSTANTS
    Task,       \* prefetch tasks
    Diverging   \* the tasks of predictions that may be judged wrong

VARIABLES
    status,    \* PrefetchTask.status
    launch,    \* schedule() of each task: how far its start() has come
    sweep,     \* cancel_all_pending() of each task
    stamping,  \* tasks that on_resource_consumed() is about to stamp
    withdrawn  \* history, per task: how CANCELLED was assigned

callVars == <<status, launch, sweep, stamping, withdrawn>>

Unsettled == {"pending", "in_progress"}

-------------------------------------------------------------------------------
\* schedule() has registered the task.
Register(t) ==
    /\ launch[t] = "none"
    /\ launch' = [launch EXCEPT ![t] = "registered"]
    /\ status' = [status EXCEPT ![t] = "pending"]
    /\ UNCHANGED <<sweep, stamping, withdrawn>>

\* start() assigns a status, whatever became of the task since.
Starts(t, s) ==
    /\ launch[t] = "registered"
    /\ launch' = [launch EXCEPT ![t] = IF s = "failed" THEN "refused" ELSE "started"]
    /\ status' = [status EXCEPT ![t] = s]
    /\ UNCHANGED <<sweep, stamping, withdrawn>>

\* start() files the load, where cancel() finds it from now on.
Files(t) ==
    /\ launch[t] = "started"
    /\ launch' = [launch EXCEPT ![t] = "filed"]
    /\ UNCHANGED <<status, sweep, stamping, withdrawn>>

-------------------------------------------------------------------------------
(* cancel_all_pending(): at most once per checkpoint, hence per task.      *)

Cancellable(t) == status[t] \in Unsettled \cup {"completed"}

SweepTask(t) ==
    /\ t \in Diverging /\ sweep[t] = "idle" /\ Cancellable(t)
    /\ sweep' = [sweep EXCEPT ![t] = "sample"]
    /\ UNCHANGED <<status, launch, stamping, withdrawn>>

\* was_completed
SampleCompleted(t) ==
    /\ sweep[t] = "sample"
    /\ sweep' = [sweep EXCEPT ![t] = IF status[t] = "completed" THEN "discard" ELSE "stop"]
    /\ UNCHANGED <<status, launch, stamping, withdrawn>>

\* The executor's cancel() reaches for the load; then it assigns the status.
Reaches(t) ==
    /\ sweep[t] \in {"stop", "discard"}
    /\ sweep' = [sweep EXCEPT ![t] = IF @ = "stop" THEN "mark" ELSE "unload"]
    /\ UNCHANGED <<status, launch, stamping, withdrawn>>

\* The history tells a cancellation that met a call between its test and its
\* assignment from one that did not.
Marks(t, raced) ==
    /\ sweep[t] \in {"mark", "unload"}
    /\ sweep' = [sweep EXCEPT ![t] = IF @ = "mark" THEN "done" ELSE "waste"]
    /\ status' = [status EXCEPT ![t] = "cancelled"]
    /\ withdrawn' = [withdrawn EXCEPT ![t] = IF raced THEN "raced" ELSE "clear"]
    /\ UNCHANGED <<launch, stamping>>

ChargeWasted(t) ==
    /\ sweep[t] = "waste"
    /\ sweep' = [sweep EXCEPT ![t] = "done"]
    /\ status' = [status EXCEPT ![t] = "wasted"]
    /\ UNCHANGED <<launch, stamping, withdrawn>>

-------------------------------------------------------------------------------
(* on_resource_consumed(): the test, then the stamp.                       *)

FindConsumed(t) ==
    /\ launch[t] # "none" /\ t \notin stamping
    /\ status[t] \notin {"cancelled", "wasted", "used"}
    /\ stamping' = stamping \cup {t}
    /\ UNCHANGED <<status, launch, sweep, withdrawn>>

StampUsed(t) ==
    /\ t \in stamping
    /\ stamping' = stamping \ {t}
    /\ status' = [status EXCEPT ![t] = "used"]
    /\ UNCHANGED <<launch, sweep, withdrawn>>

-------------------------------------------------------------------------------
\* A start() or a stamp under way writes a status of its own.
HookUnderWay(t) == launch[t] = "registered" \/ t \in stamping

\* The calls that leave the load alone.
HookStep(t) ==
    \/ Register(t) \/ SweepTask(t) \/ SampleCompleted(t) \/ ChargeWasted(t)
    \/ FindConsumed(t) \/ StampUsed(t)

\* A load assigns a status.
Assigns(t, s) ==
    /\ status' = [status EXCEPT ![t] = s]
    /\ UNCHANGED <<launch, sweep, stamping, withdrawn>>

CallsInit ==
    /\ status = [t \in Task |-> "none"] /\ launch = [t \in Task |-> "none"]
    /\ sweep = [t \in Task |-> "idle"] /\ stamping = {}
    /\ withdrawn = [t \in Task |-> "no"]

CallsTypeOK ==
    /\ status \in [Task -> {"none", "pending", "in_progress", "completed", "cancelled",
                            "failed", "wasted", "used"}]
    /\ launch \in [Task -> {"none", "registered", "refused", "started", "filed"}]
    /\ sweep \in [Task -> {"idle", "sample", "stop", "discard", "mark", "unload", "waste", "done"}]
    /\ stamping \subseteq Task
    /\ withdrawn \in [Task -> {"no", "raced", "clear"}]
================================================================================
