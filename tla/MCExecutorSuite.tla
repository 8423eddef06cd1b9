---------------------------- MODULE MCExecutorSuite ----------------------------
(* Values of the constants of ExecutorSuite for TLC.                       *)
EXTENDS ExecutorSuite, TLC

CONSTANTS small, grid, mesh

\* Prefetches of one calculator, and of one file.
MCKeyOf == [t \in MaceTask |-> small]
MCFileOf == [t \in FileTask |-> grid]
MCNameOf == (grid :> 1) @@ (mesh :> 2)

ASSUME NamesAreDistinct == DistinctNames
================================================================================
