---------------------------- MODULE MCTraceReports ----------------------------
(* A run of at most three tools; loads that end before, at and after the need; *)
(* a poll thread that reports at once, a tick late, or not before the end.     *)
EXTENDS TraceReports

MCEstimate == [model_cache |-> 2, vllm_model |-> 2, mace_model |-> 1]

MCPaces == [plan : {0, 1, 3}, turn : {0, 1}, tool : {1}, cache : {1, 3}, worker : {1, 3},
            mace : {1, 2}, aggregator : {2}, lag : {0, 1, 4}]
===============================================================================
