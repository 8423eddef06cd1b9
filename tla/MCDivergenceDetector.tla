-------------------------- MODULE MCDivergenceDetector --------------------------
(* Values of the constants of DivergenceDetector for TLC.                  *)
EXTENDS DivergenceDetector, TLC

CONSTANTS c1, computation_task, screw_dislocation, run_ase

\* "computation_task" is a prefix of "computation_task_screw_dislocation".
MCProperPrefix == {<<computation_task, screw_dislocation>>}

===============================================================================
