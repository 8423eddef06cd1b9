-------------------------- MODULE MCPrefetchScheduler --------------------------
(* Values of the constants of PrefetchScheduler for TLC.                   *)
EXTENDS PrefetchScheduler, TLC

CONSTANTS r1, r2, r3, r4, r5, r6, k1, k2, c1, c2, c3

Predicted(type, source) ==
    [type |-> type, confidence |-> 95, offset |-> 1, safe |-> type # "vllm_model",
     proactive |-> FALSE, load |-> 60, source |-> source]

MCConfig == [mode |-> "real", skip |-> {"artifact"}, naive |-> FALSE,
             threshold |-> 85, horizon |-> 2]

\* No estimate, and one long enough to hide the load.
MCRemaining == {0, 40}

MCPoolSize == [k \in Kinds |-> IF k \in {"model", "mace"} THEN 1 ELSE 4]

\* The composite executor of chemgraph_exp.py and atomagents_exp2.py.
MCExecutors == [x \in {"vllm_model", "data_file", "model_cache", "mace_model"} |->
                  CASE x = "vllm_model" -> "model" [] x = "data_file" -> "file"
                    [] x = "model_cache" -> "cache" [] x = "mace_model" -> "mace"]

\* One resource of every type; "reference" has no executor of its own, and the
\* second data file names no path, so its start() fails.
EveryType == (r1 :> Predicted("vllm_model", TRUE)) @@ (r2 :> Predicted("mace_model", TRUE))
             @@ (r3 :> Predicted("data_file", TRUE)) @@ (r4 :> Predicted("model_cache", TRUE))
             @@ (r5 :> Predicted("reference", TRUE)) @@ (r6 :> Predicted("data_file", FALSE))

AllButMace == [r \in {r1, r3, r4, r5} |-> EveryType[r]]
================================================================================
