------------------------------ MODULE MCEvalDriver ------------------------------
(* Values of the constants of EvalDriver for TLC.                          *)
EXTENDS EvalDriver

Command(w, arms, n, o) == [workload |-> w, configs |-> arms, trials |-> n, order |-> o]

\* Two arms, two trials each, in both orders; the oracle and the arm it replays;
\* a Hermes arm; the two AtomAgents workloads, exp2 with the arm that starts
\* every model.  One arm is run the same way in either order.
CampaignCommands == {
    Command("chemgraph_swap", <<"no_plan", "plan_only">>, 2, "roundrobin"),
    Command("chemgraph_swap", <<"no_plan", "plan_only">>, 2, "sequential"),
    Command("chemgraph_swap", <<"oracle", "baseline">>, 1, "roundrobin"),
    Command("chemgraph_swap", <<"megammap_stage">>, 1, "roundrobin"),
    Command("atomagents_exp2", <<"observe_only">>, 1, "roundrobin"),
    Command("atomagents_exp3", <<"no_plan">>, 1, "roundrobin")}
\* A trial of exp3 is taken to be short: more of them fit into a job.
MCEstRun == [w \in DOMAIN Workloads |-> IF Workloads[w].runner = "exp3" THEN 1 ELSE 2]

ASSUME ArmsAreDistinct == DistinctArms
===============================================================================
