---------------------------- MODULE ExperimentRunner ----------------------------
(***************************************************************************)
(* One process of an experiment runner: experiments/chemgraph_exp.py, or   *)
(* atomagents_exp2.py and atomagents_exp3.py, which differ in the engines  *)
(* they start, in what the summary says and in who stops the engines.      *)
(*                                                                         *)
(* The process sets the run up, lets the workflow run with the engines it  *)
(* boots, cleans up, writes a summary and leaves when its pools are done.  *)
(* Engines are processes of their own: they outlive the runner.            *)
(***************************************************************************)
EXTENDS ExperimentArms, Naturals

VARIABLES
    workload,  \* the workload of the campaign
    me,        \* the trial the process runs, 0 without a process
    arm,       \* its configuration
    stage,     \* how far it is
    orch,      \* orchestrator is not None
    callback,  \* the runtime callback or adapter is installed
    progress,  \* of the workflow: 1 the base model answered, 2 a tool computed
               \* something, 3 the other model answered as well
    returned,  \* the workflow has returned
    summary,   \* what the summary file says, or "none"
    engines,   \* <<trial, role>> of the engines that serve
    boots      \* <<trial, role>> of the engines that boot in the background

process == <<me, arm, stage, orch, callback, progress, returned, summary>>
runnerVars == <<process, engines, boots>>

Runner == Workloads[workload].runner
Mode == Workloads[workload].arms[arm].mode
Role == {"base", "other"}
Background == Mode = "real"

NoProcess ==
    /\ me = 0 /\ arm = "baseline" /\ stage = "gone"
    /\ orch = FALSE /\ callback = FALSE
    /\ progress = 0 /\ returned = FALSE
    /\ summary = "none"

Becomes(t, c, at) ==
    /\ me' = t /\ arm' = c /\ stage' = at
    /\ orch' = FALSE /\ callback' = FALSE
    /\ progress' = 0 /\ returned' = FALSE
    /\ summary' = "none"

Launch(t, c) == Becomes(t, c, "checks")

Gone == Becomes(0, "baseline", "gone")

-------------------------------------------------------------------------------
\* sys.exit() or an uncaught exception: nothing is cleaned up.
Dies ==
    /\ stage \in {"checks", "assemble"}
    /\ stage' = "gone"
    /\ UNCHANGED <<me, arm, orch, callback, progress, returned, summary,
                   engines, boots>>

\* The workflow library and, for a Hermes arm, the Hermes stack are there.
Checks ==
    /\ stage = "checks" /\ stage' = "orchestrate"
    /\ UNCHANGED <<me, arm, orch, callback, progress, returned, summary,
                   engines, boots>>

Orchestrated(roles) ==
    /\ stage = "orchestrate" /\ stage' = "assemble"
    /\ orch' = TRUE /\ engines' = engines \cup {<<me, r>> : r \in roles}
    /\ UNCHANGED <<me, arm, callback, progress, returned, summary, boots>>

\* The base model is started.
OrchestrateChemGraph == Runner = "chemgraph" /\ Orchestrated({"base"})

\* exp2 starts every model where nothing is prefetched.
OrchestrateExp2 ==
    Runner = "exp2" /\ Orchestrated(IF Mode = "real" THEN {"base"} ELSE Role)

\* The models of exp3 share their GPUs: only one is started in any mode.
OrchestrateExp3 == Runner = "exp3" /\ Orchestrated({"base"})

\* What the start raises is caught: the run goes on without an orchestrator.
OrchestrateFails ==
    /\ stage = "orchestrate" /\ stage' = "assemble"
    /\ UNCHANGED <<me, arm, orch, callback, progress, returned, summary, engines, boots>>

Assembled(with) ==
    /\ stage = "assemble" /\ stage' = "workflow"
    /\ callback' \in with
    /\ UNCHANGED <<me, arm, orch, progress, returned, summary, engines, boots>>

\* A ChemGraph callback that cannot be built is left out.
AssembleChemGraph ==
    Runner = "chemgraph" /\ Assembled(IF orch \/ Mode # "baseline" THEN BOOLEAN ELSE {FALSE})

\* The AtomAgents runners always have their adapter; exp3 registers code_task too.
AssembleExp2 == Runner = "exp2" /\ Assembled({TRUE})
AssembleExp3 == Runner = "exp3" /\ Assembled({TRUE})

\* The other model is booted on demand, which the workflow waits for, or ahead
\* of need on a pool thread. exp2 has no router that would boot on demand.
BootOnDemand ==
    /\ stage = "workflow" /\ orch /\ callback /\ <<me, "other">> \notin boots
    /\ Runner # "exp2"
    /\ engines' = engines \cup {<<me, "other">>}
    /\ UNCHANGED <<process, boots>>

BootAhead ==
    /\ stage = "workflow" /\ orch /\ callback /\ Background
    /\ <<me, "other">> \notin engines
    /\ boots' = boots \cup {<<me, "other">>}
    /\ UNCHANGED <<process, engines>>

BootEnds(e) ==
    /\ e \in boots
    /\ boots' = boots \ {e} /\ engines' \in {engines, engines \cup {e}}
    /\ UNCHANGED process

\* A model answers, a tool computes: the models have to serve by then.
Progresses ==
    /\ stage = "workflow" /\ progress < 3
    /\ progress = 0 => <<me, "base">> \in engines
    /\ progress = 2 => <<me, "other">> \in engines
    /\ progress' = progress + 1
    /\ UNCHANGED <<me, arm, stage, orch, callback, returned, summary, engines, boots>>

\* Every runner catches what the workflow raises.
WorkflowEnds ==
    /\ stage = "workflow" /\ stage' = "finally"
    /\ returned' \in IF progress = 3 THEN BOOLEAN ELSE {FALSE}
    /\ UNCHANGED <<me, arm, orch, callback, progress, summary, engines, boots>>

Stopped(these) ==
    /\ stage = "finally" /\ stage' = "analysis"
    /\ engines' = engines \ these
    /\ UNCHANGED <<me, arm, orch, callback, progress, returned, summary, boots>>

\* orchestrator.shutdown() stops what serves by now.
FinallyChemGraph ==
    Runner = "chemgraph" /\ Stopped(IF orch THEN {e \in engines : e[1] = me} ELSE {})

\* The AtomAgents runners leave the engines to the driver.
FinallyAtomAgents == Runner # "chemgraph" /\ Stopped({})

\* workflow_completed: ChemGraph knows; exp2 asks the metrics whether something
\* was computed, and leaves null if they cannot be read; exp3 does not say.
Said(done) == IF done THEN "done" ELSE "not_done"
Says ==
    CASE Runner = "chemgraph" -> {Said(returned)}
      [] Runner = "exp2" -> {Said(progress >= 2), "unsaid"}
      [] Runner = "exp3" -> {"unsaid"}

Summarised(as) ==
    /\ stage = "analysis" /\ stage' = "leaving"
    /\ summary' \in as
    /\ UNCHANGED <<me, arm, orch, callback, progress, returned, engines, boots>>

AnalysisChemGraph == Runner = "chemgraph" /\ Summarised(Says)
AnalysisExp2 == Runner = "exp2" /\ Summarised(Says)
AnalysisExp3 == Runner = "exp3" /\ Summarised(Says)

\* The analysis of the trace may raise: there is no summary then.
AnalysisFails == Summarised({"none"})

\* The interpreter waits for its pool threads before the process ends.
Leave ==
    /\ stage = "leaving" /\ {e \in boots : e[1] = me} = {}
    /\ stage' = "left"
    /\ UNCHANGED <<me, arm, orch, callback, progress, returned, summary,
                   engines, boots>>

RunnerStep ==
    \/ Dies \/ Checks
    \/ OrchestrateChemGraph \/ OrchestrateExp2 \/ OrchestrateExp3 \/ OrchestrateFails
    \/ AssembleChemGraph \/ AssembleExp2 \/ AssembleExp3
    \/ BootOnDemand \/ BootAhead \/ Progresses \/ WorkflowEnds
    \/ FinallyChemGraph \/ FinallyAtomAgents
    \/ AnalysisChemGraph \/ AnalysisExp2 \/ AnalysisExp3 \/ AnalysisFails \/ Leave
===============================================================================
