-------------------------- MODULE MCSpecialistRouting --------------------------
(* Values of the constants of SpecialistRouting for TLC.                   *)
EXTENDS SpecialistRouting, TLC

CONSTANTS planner, advanced, standard, aggregator

\* model_configs.py: the planner and the 72B share GPUs 0-3, the 32B has 4-5.
MCGpus == (planner :> {0}) @@ (advanced :> {0}) @@ (standard :> {4}) @@ (aggregator :> {5})

Pool == [arm |-> "pool", mode |-> "real", cancel |-> TRUE, blind |-> FALSE, keepAll |-> FALSE,
         fails |-> FALSE, worker |-> standard, specialists |-> {advanced, standard},
         aggregator |-> None]

\* One worker on the planner's GPUs, and an aggregator on its own.
Shared(arm) == [Pool EXCEPT !.arm = arm, !.worker = advanced, !.specialists = {},
                            !.aggregator = aggregator, !.fails = TRUE]

MCConfigs == {Pool, [Pool EXCEPT !.fails = TRUE], [Pool EXCEPT !.cancel = FALSE],
              [Pool EXCEPT !.mode = "baseline"], [Pool EXCEPT !.blind = TRUE],
              [Pool EXCEPT !.keepAll = TRUE], Shared("swap"), Shared("sleep_wake"),
              [Shared("swap") EXCEPT !.mode = "observe_only"], [Shared("swap") EXCEPT !.mode = "simulated"],
              [Shared("sleep_wake") EXCEPT !.mode = "baseline"]}
PoolOnly == {Pool}

MCPlans == {<<advanced, standard>>, <<None, advanced>>}

\* The GPUs of these configurations are laid out as the theorems ask.
ASSUME PoolsAreSettled == SettledPools
================================================================================
