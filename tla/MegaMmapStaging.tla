---------------------------- MODULE MegaMmapStaging ----------------------------
(***************************************************************************)
(* prefetch/megammap_stage.py: shards are staged by a subprocess whose end *)
(* is only seen when somebody polls, with the waiter thread of the         *)
(* scheduler that polls it for two hours at most (scheduler.py:128-166).   *)
(*                                                                         *)
(* The subprocess is external: it runs, may fill its output pipe and stop  *)
(* there, exits with a return code, and obeys a kill, if not always a      *)
(* termination.                                                            *)
(***************************************************************************)
EXTENDS TaskCalls

VARIABLES
    process,  \* the subprocess of each task
    signals,  \* the signals it got
    waiter,   \* _wait_for_completion of each task
    report,   \* whether get_result() of a task said success
    down,     \* shutdown(): "up", "waiting", "down"
    missed    \* history: tasks whose cancellation found no process

vars == <<callVars, process, signals, waiter, report, down, missed>>

Alive(t) == process[t] \in {"running", "blocked"}
Ended(t) == process[t] \in {"ok", "error", "killed"}

-------------------------------------------------------------------------------
\* start(): without binary or shards, or when the launch fails, the task fails
\* at once; else the process is launched, and filed later.  The waiter thread
\* is started when start() has returned.
Begin(t) ==
    /\ \/ /\ Starts(t, "failed")
          /\ waiter' = [waiter EXCEPT ![t] = "polling"]
          /\ UNCHANGED process
       \/ /\ down = "up" /\ Starts(t, "in_progress")
          /\ process' = [process EXCEPT ![t] = "running"]
          /\ UNCHANGED waiter
       \/ /\ Files(t)
          /\ waiter' = [waiter EXCEPT ![t] = "polling"]
          /\ UNCHANGED process
    /\ UNCHANGED <<signals, report, down, missed>>

Known(t) == launch[t] = "filed"

\* cancel(): the process is terminated, unless it has ended or is not filed
\* yet; then the status is assigned.
Cancel(t) ==
    \/ /\ Reaches(t)
       /\ IF Known(t)
          THEN /\ signals' = [signals EXCEPT ![t] = IF Alive(t) THEN @ \cup {"term"} ELSE @]
               /\ UNCHANGED missed
          ELSE missed' = missed \cup {t} /\ UNCHANGED signals
       /\ UNCHANGED <<process, waiter, report, down>>
    \/ /\ Marks(t, HookUnderWay(t) \/ waiter[t] = "settling")
       /\ UNCHANGED <<process, signals, waiter, report, down, missed>>

-------------------------------------------------------------------------------
(* The subprocess.                                                         *)

Exits(t) ==
    /\ \/ process[t] = "running" /\ \E s \in {"ok", "error"} : process' = [process EXCEPT ![t] = s]
       \/ Alive(t) /\ signals[t] # {} /\ process' = [process EXCEPT ![t] = "killed"]
    /\ UNCHANGED <<callVars, signals, waiter, report, down, missed>>

\* Nobody reads stdout before get_result(): a full pipe stops the process.
PipeFills(t) ==
    /\ process[t] = "running"
    /\ process' = [process EXCEPT ![t] = "blocked"]
    /\ UNCHANGED <<callVars, signals, waiter, report, down, missed>>

-------------------------------------------------------------------------------
(* The waiter.                                                             *)

\* A mistaken poll that does not test the status.
SeenUntested(t) == TRUE

Seen(t) == status[t] = "in_progress"

\* is_complete(): the poll that finds the process ended tests the status, and
\* settles the task in a step of its own.
Polls(t) ==
    /\ waiter[t] = "polling" /\ Ended(t)
    /\ waiter' = [waiter EXCEPT ![t] = IF Seen(t) THEN "settling" ELSE "reporting"]
    /\ UNCHANGED <<callVars, process, signals, report, down, missed>>

Settle(t) ==
    /\ waiter[t] = "settling"
    /\ waiter' = [waiter EXCEPT ![t] = "reporting"]
    /\ Assigns(t, IF process[t] = "ok" THEN "completed" ELSE "failed")
    /\ UNCHANGED <<process, signals, report, down, missed>>

\* A task without a process is complete once it is settled.
PollsNothing(t) ==
    /\ waiter[t] = "polling" /\ process[t] = "none" /\ status[t] \notin Unsettled
    /\ waiter' = [waiter EXCEPT ![t] = "reporting"]
    /\ UNCHANGED <<callVars, process, signals, report, down, missed>>

\* Two hours are over: a settled task is still reported.
GivesUp(t) ==
    /\ waiter[t] = "polling" /\ Alive(t)
    /\ waiter' = [waiter EXCEPT ![t] = IF status[t] \in Unsettled THEN "expired" ELSE "reporting"]
    /\ UNCHANGED <<callVars, process, signals, report, down, missed>>

\* get_result() reads the output for ten seconds, which frees a blocked
\* process; success is a return code of 0.
Report(t) ==
    /\ waiter[t] = "reporting"
    /\ waiter' = [waiter EXCEPT ![t] = "done"]
    /\ report' = [report EXCEPT ![t] = IF process[t] = "ok" THEN "success" ELSE "failure"]
    /\ process' = [process EXCEPT ![t] = IF @ = "blocked" THEN "running" ELSE @]
    /\ UNCHANGED <<callVars, signals, down, missed>>

-------------------------------------------------------------------------------
(* shutdown(wait=True): terminate, and after ten seconds kill.  It comes    *)
(* when no start() is under way.                                           *)

Shutdown ==
    /\ down = "up" /\ \E t \in Task : Alive(t)
    /\ \A t \in Task : launch[t] # "started"
    /\ signals' = [t \in Task |-> IF Alive(t) THEN signals[t] \cup {"term"} ELSE signals[t]]
    /\ down' = "waiting"
    /\ UNCHANGED <<callVars, process, waiter, report, missed>>

ShutdownEnds ==
    /\ down = "waiting"
    /\ signals' = [t \in Task |-> IF Alive(t) THEN signals[t] \cup {"kill"} ELSE signals[t]]
    /\ down' = "down"
    /\ UNCHANGED <<callVars, process, waiter, report, missed>>

-------------------------------------------------------------------------------
Init ==
    /\ CallsInit
    /\ process = [t \in Task |-> "none"]
    /\ signals = [t \in Task |-> {}] /\ waiter = [t \in Task |-> "none"]
    /\ report = [t \in Task |-> "none"] /\ down = "up" /\ missed = {}

Waiter(t) == Polls(t) \/ Settle(t) \/ PollsNothing(t) \/ Report(t)

Hook(t) == HookStep(t) /\ UNCHANGED <<process, signals, waiter, report, down, missed>>

Next ==
    \/ \E t \in Task : \/ Begin(t) \/ Cancel(t) \/ Hook(t)
                       \/ Exits(t) \/ PipeFills(t) \/ Waiter(t) \/ GivesUp(t)
    \/ Shutdown \/ ShutdownEnds

Spec == Init /\ [][Next]_vars

-------------------------------------------------------------------------------
(* Properties.                                                             *)

TypeOK ==
    /\ CallsTypeOK
    /\ process \in [Task -> {"none", "running", "blocked", "ok", "error", "killed"}]
    /\ signals \in [Task -> SUBSET {"term", "kill"}]
    /\ waiter \in [Task -> {"none", "polling", "settling", "reporting", "done", "expired"}]
    /\ report \in [Task -> {"none", "success", "failure"}]
    /\ down \in {"up", "waiting", "down"} /\ missed \subseteq Task

\* A task is only completed, or reported as staged, by a subprocess that
\* exited with 0: not by one that was terminated or failed in between.
SuccessNeedsExit ==
    \A t \in Task : status[t] = "completed" \/ report[t] = "success" => process[t] = "ok"

\* What was cancelled stays so, whenever its process ends and is polled, unless
\* the cancellation met a poll, a start() or a consumption of the task that had
\* made its test and not its assignment (megammap_stage.py:156-158).
CancelledForGood == \A t \in Task : withdrawn[t] = "clear" => status[t] \in {"cancelled", "wasted"}

\* A process whose task is cancelled does not run on without a signal, unless
\* the cancellation came before the process was filed (megammap_stage.py:139).
CancelReachesProcess ==
    \A t \in Task : status[t] = "cancelled" /\ Alive(t) /\ t \notin missed => signals[t] # {}

\* The end of a staging is noticed: a task in progress is settled, unless its
\* process hangs on a full pipe or outlives the waiter's two hours.
EndNoticed ==
    \A t \in Task :
        status[t] = "in_progress" ~>
            \/ status[t] # "in_progress" \/ process[t] = "blocked" \/ waiter[t] = "expired"
================================================================================
