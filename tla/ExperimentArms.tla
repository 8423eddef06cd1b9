----------------------------- MODULE ExperimentArms -----------------------------
(***************************************************************************)
(* The experiment arms of the evaluation driver                            *)
(* (experiments/run_eval_q1_q4.py) and the settings a runner assembles     *)
(* from the command line of an arm: the RuntimeConfig, the predictor and   *)
(* the executors.  A constant module: the driver and the runners use it.   *)
(*                                                                         *)
(* A command line is the set of its switches; paths, ports, prompts and    *)
(* model names are left out.                                               *)
(***************************************************************************)
EXTENDS FiniteSets

Arm(mode, predictor, flags, needs) ==
    [mode |-> mode, predictor |-> predictor, flags |-> flags, needs |-> needs]

Learned(flags) == Arm("real", "learned", flags, {})

\* CHEMGRAPH_SWAP_CONFIGS, also used by chemgraph_ensemble.
SwapArms == [
    baseline            |-> Arm("baseline", "mock", {}, {}),
    observe_only        |-> Arm("observe_only", "learned", {}, {}),
    simulated           |-> Arm("simulated", "learned", {}, {}),
    full_system         |-> Learned({}),
    sleep_wake          |-> Arm("real", "learned", {"sleep_wake"}, {"opt_in"}),
    no_cache_stage      |-> Learned({"no_cache_stage"}),
    naive_prefetch      |-> Learned({"naive_prefetch"}),
    no_divergence_guard |-> Learned({"no_divergence_guard"}),
    no_plan             |-> Learned({"no_plan_extraction"}),
    plan_only           |-> Arm("real", "plan_only", {}, {}),
    transition_only     |-> Arm("real", "transition_only", {}, {}),
    oracle              |-> Arm("real", "oracle", {}, {"oracle_trace"}),
    megammap_stage      |-> Arm("real", "learned", {"megammap_stage"}, {"hermes"}),
    megammap_stage_rand |-> Arm("real", "learned", {"megammap_stage", "megammap_rand"}, {"hermes"})]

\* CHEMGRAPH_SCREEN_CONFIGS.
Early == "early_plan_stage"
ScreenArms == [
    baseline            |-> Arm("baseline", "mock", {}, {}),
    full_system         |-> Learned({Early}),
    blind_stage         |-> Learned({}),
    no_cache_stage      |-> Learned({Early, "no_cache_stage"}),
    naive_prefetch      |-> Learned({"naive_prefetch"}),
    no_divergence_guard |-> Learned({Early, "no_divergence_guard"}),
    no_plan             |-> Learned({"no_plan_extraction"}),
    plan_only           |-> Arm("real", "plan_only", {Early}, {}),
    transition_only     |-> Arm("real", "transition_only", {Early}, {}),
    unpinned            |-> Learned({Early, "unpinned"}),
    oracle              |-> Arm("real", "oracle", {Early}, {"oracle_trace"})]

\* CHEMGRAPH_SCREEN_POOL_CONFIGS: the same arms, but for the blind trigger.
PoolArms == [ScreenArms EXCEPT !.blind_stage = Learned({"blind_preboot"})]

\* ATOMAGENTS_CONFIGS.
AtomArms == [
    baseline            |-> Arm("baseline", "mock", {}, {}),
    observe_only        |-> Arm("observe_only", "learned", {}, {}),
    full_system         |-> Learned({}),
    no_plan             |-> Learned({"no_plan_extraction"}),
    no_divergence_guard |-> Learned({"no_divergence_guard"}),
    naive_prefetch      |-> Learned({"naive_prefetch"}),
    no_model_prefetch   |-> Learned({"skip_vllm_model"}),
    no_data_prefetch    |-> Learned({"skip_data_file"})]

\* WORKLOADS, without the one that is not runnable.
Swap(more) == {"swap_models", "evict_worker_cache"} \cup more
Workloads == [
    chemgraph_swap        |-> [runner |-> "chemgraph", arms |-> SwapArms, base |-> Swap({})],
    chemgraph_ensemble    |-> [runner |-> "chemgraph", arms |-> SwapArms,
                               base |-> Swap({"ensemble_dataset", "aggregator_model"})],
    chemgraph_screen      |-> [runner |-> "chemgraph", arms |-> ScreenArms,
                               base |-> Swap({"screen", "pin_calculator"})],
    chemgraph_screen_pool |-> [runner |-> "chemgraph", arms |-> PoolArms,
                               base |-> Swap({"screen", "pin_calculator", "disjoint_pools"})],
    atomagents_exp2       |-> [runner |-> "exp2", arms |-> AtomArms, base |-> {"swap_models"}],
    atomagents_exp3       |-> [runner |-> "exp3", arms |-> AtomArms, base |-> {"swap_models"}]]

-------------------------------------------------------------------------------
\* --pin-calculator "" of an arm undoes the one of the workload.
Switches(w, c) ==
    LET flags == Workloads[w].base \cup Workloads[w].arms[c].flags
    IN  IF "unpinned" \in flags THEN flags \ {"unpinned", "pin_calculator"} ELSE flags

\* model_cache backend of the ChemGraph runner: staging is a part of swap mode.
Staging(flags) ==
    IF "swap_models" \notin flags \/ "no_cache_stage" \in flags THEN "none"
    ELSE IF "megammap_stage" \notin flags THEN "page_cache"
    ELSE IF "megammap_rand" \in flags THEN "megammap_rand" ELSE "megammap"

\* _build_executor(): only REAL mode does any I/O; what has no executor of its
\* own is simulated.
ChemGraphExecutors(mode, flags) ==
    IF mode # "real" THEN {}
    ELSE {"mace_model"} \cup (IF "swap_models" \in flags THEN {"vllm_model", "model_cache"} ELSE {})

AtomExecutors(mode, flags) ==
    IF mode # "real" THEN {}
    ELSE {"data_file"} \cup (IF "swap_models" \in flags THEN {"vllm_model"} ELSE {})

\* The settings of a run of the ChemGraph runner: the ones that decide nothing
\* without another are off without it.
ChemGraphSettings(w, c) ==
    LET a == Workloads[w].arms[c]
        flags == Switches(w, c)
        plan == "no_plan_extraction" \notin flags
        pools == "disjoint_pools" \in flags
    IN  [mode |-> a.mode, predictor |-> a.predictor,
         plan |-> plan,
         cancels |-> "no_divergence_guard" \notin flags,
         naive |-> "naive_prefetch" \in flags,
         staging |-> Staging(flags),
         early |-> Early \in flags /\ plan,
         blind |-> pools /\ "blind_preboot" \in flags,
         keepAll |-> pools /\ "naive_prefetch" \in flags,
         sleepWake |-> "sleep_wake" \in flags,
         pinned |-> "pin_calculator" \in flags,
         executors |-> ChemGraphExecutors(a.mode, flags)]

\* The settings of a run of an AtomAgents runner.
AtomSettings(w, c) ==
    LET a == Workloads[w].arms[c]
        flags == Switches(w, c)
    IN  [mode |-> a.mode, predictor |-> a.predictor,
         plan |-> "no_plan_extraction" \notin flags,
         cancels |-> "no_divergence_guard" \notin flags,
         naive |-> "naive_prefetch" \in flags,
         skip |-> {t \in {"skip_vllm_model", "skip_data_file"} : t \in flags},
         executors |-> AtomExecutors(a.mode, flags)]

Settings(w, c) ==
    IF Workloads[w].runner = "chemgraph" THEN ChemGraphSettings(w, c) ELSE AtomSettings(w, c)

\* Arms that assemble the same run as c under another name.
Doubles(w, c) ==
    {d \in DOMAIN Workloads[w].arms \ {c} : Settings(w, d) = Settings(w, c)}
===============================================================================
