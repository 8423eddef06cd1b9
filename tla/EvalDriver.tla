------------------------------- MODULE EvalDriver -------------------------------
(***************************************************************************)
(* The evaluation driver (experiments/run_eval_q1_q4.py): a resumable      *)
(* campaign of trials over the arms of a workload, inside batch jobs that  *)
(* end, with the processes of ExperimentRunner as its trials.              *)
(*                                                                         *)
(* What survives a job is the result tree: one directory per trial, never  *)
(* used twice, whose meta.json says how the trial stands.  Time is counted *)
(* in units of the job's allocation and passes while the GPUs drain before *)
(* a trial, at least one unit, and while the trial runs.                   *)
(***************************************************************************)
EXTENDS ExperimentRunner, Sequences, SequencesExt, FiniteSetsExt

CONSTANTS
    Commands,     \* --workload, what --configs may name, a sequence of arms, --trials
                  \* and --order
    MaxFailures,  \* --max-failures
    EstRun,       \* est_run_s of each workload
    Margin,       \* --deadline-margin-s
    Timeout,      \* timeout_s
    JobLength,    \* time a job is given
    MaxJobs       \* bound: jobs of a campaign

ASSUME DriverConstants ==
    /\ \A cmd \in Commands :
        cmd \in [workload : DOMAIN Workloads,
                configs : Seq(DOMAIN Workloads[cmd.workload].arms), trials : Nat \ {0},
                order : {"roundrobin", "sequential"}]
    /\ EstRun \in [DOMAIN Workloads -> Nat]
    /\ {MaxFailures, Margin, Timeout, JobLength, MaxJobs} \subseteq Nat
    /\ MaxFailures > 0

\* No arm is named twice on the command line.
DistinctArms ==
    \A cmd \in Commands : \A i, j \in DOMAIN cmd.configs :
        cmd.configs[i] = cmd.configs[j] => i = j

VARIABLES
    disk,      \* the trials of the result tree, in the order they were begun
    names, goal, order,  \* command line: the arms, the completed trials wanted of
               \* each, and how their turns are ordered
    pc,        \* the driver
    todo,      \* trial indices still to do, of each arm
    failures,  \* consecutive_failures
    at,        \* position in names
    idx,       \* index of the trial in hand
    daemon,    \* the Hermes daemon runs
    timedOut,  \* the trial in hand ran into its timeout
    ending,    \* engines and boots that were sent SIGTERM and have not gone yet
    undrained, \* history: the trial in hand was launched on GPUs that had not drained
    left, took,  \* time left of the job, time the trial in hand took so far
    jobs,      \* jobs so far
    turns      \* history: trials each arm was given in this job

command == <<workload, names, goal, order>>
drain == <<ending, undrained>>
driver == <<command, pc, todo, failures, at, idx, daemon, timedOut>>
vars == <<runnerVars, disk, drain, driver, left, took, jobs, turns>>

Here == Range(names)
Est == EstRun[workload]
Cur == names[at]
Needs(c) == Workloads[workload].arms[c].needs

\* A mistaken directory: named by the index of the trial only.
TurnOfIndex == idx

\* The directory of the trial in hand.
Turn == Len(disk)

-------------------------------------------------------------------------------

\* completed_trials()
Completed(c) ==
    Cardinality({t \in DOMAIN disk : disk[t].config = c /\ disk[t].status = "completed"})

\* Arms whose traces the oracle may replay.
Reference == {"baseline", "full_system"}

\* A mistaken reference: any trial that left a trace.
ReferencesAny == {t \in DOMAIN disk : disk[t].config \in Reference /\ disk[t].trace}

\* Trials whose trace may serve the oracle.
References ==
    {t \in DOMAIN disk : /\ disk[t].config \in Reference
                         /\ disk[t].trace /\ disk[t].status = "completed"}

\* resolve_oracle_trace(), without the fallback trace: the newest, or 0.
OracleTrace == IF References = {} THEN 0 ELSE Max(References)

OutOfTime == Est + Margin > left

Eligible(c) == todo[c] # <<>> /\ failures[c] < MaxFailures

\* Positions whose turn may be next; a round begins anew after the last one.
NextTurn ==
    LET can == {i \in DOMAIN names : Eligible(names[i])}
        on == {i \in can : i >= at}
    IN  Min(IF on # {} THEN on ELSE can)

\* A mistaken turn: a failed trial is repeated at once.
AfterRetry(ok) == IF order = "roundrobin" /\ ok THEN at + 1 ELSE at

\* The turn passes on after each trial, or only when the arm is done.
After(ok) == IF order = "roundrobin" THEN at + 1 ELSE at

\* The index that replaces a failed trial.
Replaced(queue, i) == Append(queue, (IF queue = <<>> THEN i ELSE Last(queue)) + 1)

Failures(c, ok) == IF ok THEN 0 ELSE failures[c] + 1

\* A mistaken clearing: engines that still boot are not told.
ToldServing(e) == e \in engines

\* pkill: engines that serve, and workers of engines that boot.
Told(e) == e \in engines \cup boots

\* kill_vllm_servers() sends SIGTERM; when an engine goes is its own affair.
KillServers == ending' = {e \in engines \cup boots : Told(e)}

\* The GPUs have drained.
Drained == engines \cup boots = {}

-------------------------------------------------------------------------------
\* main(): the list of missing trials is made once.
StartDriver ==
    /\ pc = "off" /\ left > 0
    /\ todo' = [c \in DOMAIN todo |->
                    IF c \notin Here THEN <<>>
                    ELSE [i \in 1..(goal - Completed(c)) |-> Completed(c) + i]]
    /\ failures' = [c \in DOMAIN failures |-> 0] /\ turns' = [c \in DOMAIN turns |-> 0]
    /\ pc' = "pick" /\ at' = 1
    /\ UNCHANGED <<runnerVars, disk, drain, command, idx, daemon, timedOut, left, took, jobs>>

Pick ==
    /\ pc = "pick" /\ \E c \in Here : Eligible(c)
    /\ ~OutOfTime
    /\ at' = NextTurn
    /\ idx' = Head(todo[names[NextTurn]])
    /\ todo' = [todo EXCEPT ![names[NextTurn]] = Tail(@)]
    /\ turns' = [turns EXCEPT ![names[NextTurn]] = @ + 1]
    /\ pc' = "prepare" /\ took' = 0 /\ timedOut' = FALSE
    /\ UNCHANGED <<runnerVars, disk, drain, command, failures, daemon, left, jobs>>

\* Nothing left to do, or no time to do it: the engines are told to end.
Finish ==
    /\ pc = "pick"
    /\ OutOfTime \/ \A c \in Here : ~Eligible(c)
    /\ KillServers
    /\ pc' = "done"
    /\ UNCHANGED <<runnerVars, undrained, disk, command, todo, failures, at, idx, daemon,
                   timedOut, left, took, jobs, turns>>

\* start_hermes_daemon(): clears a stale daemon and starts one.  It fails when
\* the binary cannot be launched or does not live for 8 s.
DaemonStarts(up) == "hermes" \in Needs(Cur) /\ up

\* No reference trace for the oracle yet, or no Hermes stack or daemon: the
\* trial fails without a directory.
Skip ==
    /\ pc = "prepare"
    /\ \/ "oracle_trace" \in Needs(Cur) /\ OracleTrace = 0
       \/ "hermes" \in Needs(Cur)
    /\ daemon' = DaemonStarts(FALSE)
    /\ pc' = "skip"
    /\ UNCHANGED <<runnerVars, disk, drain, command, todo, failures, at, idx, timedOut,
                   left, took, jobs, turns>>

\* The daemon is up, the trial has its directory, marked as running, and what is
\* left on the GPUs is told to end.
Prepare ==
    /\ pc = "prepare"
    /\ "oracle_trace" \in Needs(Cur) => OracleTrace # 0
    /\ disk' = Append(disk, [config |-> Cur, index |-> idx, status |-> "running", trace |-> FALSE,
                             oracle |-> IF "oracle_trace" \in Needs(Cur) THEN OracleTrace ELSE 0,
                             did |-> "nothing", told |-> FALSE])
    /\ daemon' = DaemonStarts(TRUE)
    /\ KillServers
    /\ pc' = "clear"
    /\ UNCHANGED <<runnerVars, undrained, command, todo, failures, at, idx, timedOut,
                   left, took, jobs, turns>>

LaunchTrial(busy) ==
    /\ pc = "clear" /\ took > 0
    /\ Launch(Turn, Cur)
    /\ pc' = "trial" /\ undrained' = busy
    /\ UNCHANGED <<engines, boots, ending, disk, command, todo, failures, at, idx, daemon,
                   timedOut, left, took, jobs, turns>>

\* The GPUs have drained, and the process is launched.
Clear == Drained /\ LaunchTrial(FALSE)

\* "GPUs still busy after 300 s of waiting; continuing anyway", or nvidia-smi did
\* not answer, which counts as drained.
GiveUpDrain == ~Drained /\ LaunchTrial(TRUE)

Run ==
    /\ pc = "trial" /\ RunnerStep
    /\ UNCHANGED <<disk, drain, driver, left, took, jobs, turns>>

\* Engines go on booting whoever is looking, unless they were told to end.
Boot ==
    /\ \E e \in boots \ ending : BootEnds(e)
    /\ UNCHANGED <<disk, drain, driver, left, took, jobs, turns>>

\* What was told to end goes in its own time.
Exit ==
    /\ \E e \in ending :
        /\ engines' = engines \ {e} /\ boots' = boots \ {e} /\ ending' = ending \ {e}
    /\ UNCHANGED <<process, undrained, disk, driver, left, took, jobs, turns>>

\* stop_hermes_daemon(): asks, kills what is left by name, then the process;
\* the timeout of a trial comes by here as its end does.
DaemonAfter(timeout) == FALSE

\* A mistaken timeout that never comes.
ExpiredNever == took > Timeout + 1

Expired == took >= Timeout

\* subprocess.run() kills the process and raises; the engines are told to end.
TimesOut ==
    /\ pc = "trial" /\ stage \notin {"gone", "left"} /\ Expired
    /\ stage' = "gone" /\ timedOut' = TRUE
    /\ KillServers
    /\ daemon' = DaemonAfter(TRUE)
    /\ pc' = "collect"
    /\ UNCHANGED <<me, arm, orch, callback, progress, returned, summary, engines, boots,
                   undrained, disk, command, todo, failures, at, idx, left, took, jobs, turns>>

ProcessEnds ==
    /\ pc = "trial" /\ stage \in {"gone", "left"}
    /\ daemon' = DaemonAfter(FALSE)
    /\ pc' = "collect"
    /\ UNCHANGED <<runnerVars, disk, drain, command, todo, failures, at, idx, timedOut,
                   left, took, jobs, turns>>

\* long: the workflow took more than 60 s.
Verdict(long) ==
    IF timedOut THEN "timeout"
    ELSE IF stage = "left" /\ summary \notin {"none", "not_done"} /\ long
    THEN "completed" ELSE "failed"

\* History: how far the workflow of a completed trial came.
Done(long) ==
    IF Verdict(long) # "completed" \/ progress < 2 THEN "nothing"
    ELSE IF returned THEN "all" ELSE "something"

\* The artifacts are copied, the trace if it is found, and meta.json gets the
\* verdict.
Collect ==
    /\ pc = "collect"
    /\ \E long, trace \in BOOLEAN :
        /\ disk' = [disk EXCEPT ![Turn].status = Verdict(long),
                                ![Turn].trace = trace /\ Cur \in Reference,
                                ![Turn].did = Done(long),
                                ![Turn].told = summary \in {"done", "not_done"}]
        /\ pc' = IF Verdict(long) = "completed" THEN "ok" ELSE "fail"
    /\ Gone /\ undrained' = FALSE
    /\ UNCHANGED <<engines, boots, ending, command, todo, failures, at, idx, daemon, timedOut,
                   left, took, jobs, turns>>

\* The driver's books after run_one_trial().
Book ==
    /\ pc \in {"ok", "fail", "skip"}
    /\ LET ok == pc = "ok"
       IN  /\ failures' = [failures EXCEPT ![Cur] = Failures(Cur, ok)]
           /\ todo' = IF ok THEN todo ELSE [todo EXCEPT ![Cur] = Replaced(@, idx)]
           /\ at' = After(ok)
    /\ pc' = "pick" /\ took' = 0
    /\ UNCHANGED <<runnerVars, disk, drain, command, idx, daemon, timedOut, left, jobs, turns>>

\* Time passes while GPUs drain and while the trial runs; a process that has
\* timed out is killed before more of it passes.
TimePasses ==
    /\ \/ pc = "clear"
       \/ pc = "trial" /\ stage \in {"orchestrate", "workflow", "leaving"}
    /\ left > 0 /\ took <= Timeout
    /\ left' = left - 1 /\ took' = took + 1
    /\ UNCHANGED <<runnerVars, disk, drain, driver, jobs, turns>>

AllGone ==
    /\ engines' = {} /\ boots' = {} /\ ending' = {} /\ undrained' = FALSE
    /\ Gone /\ daemon' = FALSE
    /\ timedOut' = FALSE /\ took' = 0 /\ at' = 1 /\ idx' = 0
    /\ todo' = [c \in DOMAIN todo |-> <<>>] /\ failures' = [c \in DOMAIN failures |-> 0]
    /\ turns' = [c \in DOMAIN turns |-> 0]

\* The job ends, or the node fails, and takes every process with it; a trial
\* in hand stays marked as running for good.
JobEnds ==
    /\ pc # "off"
    /\ pc' = "off" /\ left' = 0
    /\ AllGone
    /\ UNCHANGED <<disk, command, jobs>>

\* The same command on the next allocation resumes the campaign.
JobStarts ==
    /\ pc = "off" /\ left = 0 /\ jobs < MaxJobs
    /\ jobs' = jobs + 1 /\ left' = JobLength
    /\ UNCHANGED <<runnerVars, disk, drain, driver, took, turns>>

-------------------------------------------------------------------------------
Init ==
    /\ NoProcess /\ engines = {} /\ boots = {} /\ ending = {} /\ undrained = FALSE
    /\ \E cmd \in Commands :
        /\ workload = cmd.workload /\ names = cmd.configs
        /\ goal = cmd.trials /\ order = cmd.order
    /\ disk = <<>> /\ pc = "off"
    /\ todo = [c \in DOMAIN Workloads[workload].arms |-> <<>>]
    /\ failures = [c \in DOMAIN Workloads[workload].arms |-> 0]
    /\ turns = failures
    /\ at = 1 /\ idx = 0 /\ daemon = FALSE /\ timedOut = FALSE
    /\ left = 0 /\ took = 0 /\ jobs = 0

\* Progress of the driver and its trial; the end of a job is not one.
Work ==
    \/ StartDriver \/ Pick \/ Finish \/ Skip \/ Prepare \/ Clear \/ GiveUpDrain
    \/ Run \/ Boot \/ Exit \/ TimesOut \/ ProcessEnds \/ Collect \/ Book

Next == Work \/ TimePasses \/ JobEnds \/ JobStarts

\* The driver runs on and engines come up or fail; time passes, a process that
\* has run into its timeout is killed, and a job without time left ends.
Fairness ==
    /\ WF_vars(Work) /\ WF_vars(TimePasses) /\ WF_vars(TimesOut)
    /\ WF_vars(left = 0 /\ JobEnds)

Spec == Init /\ [][Next]_vars
FairSpec == Spec /\ Fairness

-------------------------------------------------------------------------------
(* Properties.                                                             *)

TypeOK ==
    /\ \A t \in DOMAIN disk :
        /\ disk[t].config \in DOMAIN Workloads[workload].arms
        /\ disk[t].status \in {"running", "completed", "failed", "timeout"}
        /\ disk[t].index \in Nat \ {0} /\ disk[t].oracle < t
    /\ [workload |-> workload, configs |-> names, trials |-> goal, order |-> order] \in Commands
    /\ pc \in {"off", "pick", "prepare", "skip", "clear", "trial", "collect", "ok", "fail", "done"}
    /\ failures \in [DOMAIN Workloads[workload].arms -> 0..MaxFailures]
    /\ at \in 1..(Len(names) + 1) /\ daemon \in BOOLEAN /\ timedOut \in BOOLEAN
    /\ left \in 0..JobLength /\ took \in 0..(Timeout + 1) /\ jobs \in 0..MaxJobs
    /\ \A e \in engines \cup boots \cup ending : e \in (1..Turn) \X Role
    /\ undrained \in BOOLEAN

\* run_eval_q1_q4.py:14-15: re-running the command launches only the missing
\* remainder: what is completed, in hand and still listed adds up to the target.
Ledger ==
    \A c \in Here :
        LET hand == IF pc \in {"prepare", "skip", "clear", "trial", "collect", "fail"} /\ c = Cur
                    THEN 1 ELSE 0
        IN  /\ Completed(c) <= goal
            /\ pc # "off" => Completed(c) + Len(todo[c]) + hand = goal

\* "roundrobin keeps trial counts balanced if interrupted": arms that can still
\* be run have had the same number of turns, give or take one.
Balanced ==
    \A c, d \in Here :
        order = "roundrobin" /\ Eligible(c) /\ Eligible(d) => turns[c] <= turns[d] + 1

\* A driver that had time leaves an arm short of its target only after
\* --max-failures failures of it in a row.
ShortForAReason ==
    \A c \in Here :
        pc = "done" /\ ~OutOfTime /\ Completed(c) < goal => failures[c] = MaxFailures

\* What does not count toward N (run_eval_q1_q4.py:15-16): a trial of ChemGraph
\* is counted as completed only if its workflow ran to the end, and any other one
\* whose summary tells how it ended only if a tool computed something
\* (atomagents_exp2.py:374-377).  A summary that does not tell passes for a
\* success (run_eval_q1_q4.py:810): those of exp3, and of exp2 when the metrics
\* could not be read (atomagents_exp2.py:388-390).
CompletedWorked ==
    \A t \in DOMAIN disk : disk[t].status = "completed" =>
        /\ Runner = "chemgraph" => disk[t].did = "all"
        /\ disk[t].told => disk[t].did # "nothing"

\* The oracle replays the newest trace of a trial that completed.
OracleFromCompleted ==
    \A t \in DOMAIN disk :
        "oracle_trace" \in Needs(disk[t].config) =>
            /\ disk[disk[t].oracle].status = "completed"
            /\ \A u \in (disk[t].oracle + 1)..(t - 1) : u \notin References

\* No trial shares the GPUs with an engine that an earlier one left or is still
\* booting, but for one that was told to end and outlasted a drain that the
\* driver gave up (run_eval_q1_q4.py:517).
FreshEngines ==
    pc = "trial" => \A e \in engines \cup boots : e[1] = me \/ (undrained /\ e \in ending)

\* The Hermes daemon runs during the trials that need it and at no other time.
DaemonPerTrial ==
    /\ pc = "trial" => daemon = ("hermes" \in Needs(Cur))
    /\ daemon => pc \in {"clear", "trial"}

\* The end of the job cuts only trials that took longer than was allowed for.
CutWhenLateStep ==
    left = 0 /\ pc \in {"clear", "trial"} /\ pc' = "off" => took >= Est + Margin

\* Two arms of a workload are different runs: none of those named assembles
\* the settings of another arm under its own label.
ArmsApart == \A c \in Here : Doubles(workload, c) = {}

\* A verdict, once on disk, is never changed, and no directory goes away.
VerdictsStayStep ==
    \A t \in DOMAIN disk :
        /\ t \in DOMAIN disk'
        /\ disk[t].status # "running" => disk'[t] = disk[t]

\* Every driver comes to an end, however its trials fare.
DriverEnds == pc = "pick" ~> pc \in {"done", "off"}

\* The books of a campaign over interruptions and resumes
\* (run_eval_q1_q4.py:14-16, 881-935): the targets are met exactly, in turns,
\* and an arm is only given up for its failures.
CampaignLedger == TypeOK /\ Ledger /\ Balanced /\ ShortForAReason

\* A trial that counts is evidence for its arm: its workflow worked unless its
\* summary does not tell, the oracle replays a completed reference, and no other
\* arm has the same settings.
TrialsAreEvidence == CompletedWorked /\ OracleFromCompleted /\ ArmsApart

\* No trial meets what another one left behind, engines, boots or the daemon, but
\* for engines that outlast the drain.
TrialsIsolated == FreshEngines /\ DaemonPerTrial

\* What a step of the driver may never do: change a verdict, remove a directory,
\* or start a trial that the end of the job then cuts although it was in time.
DiskIsRecord == [][VerdictsStayStep /\ CutWhenLateStep]_vars
===============================================================================
