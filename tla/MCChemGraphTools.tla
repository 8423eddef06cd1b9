--------------------------- MODULE MCChemGraphTools ---------------------------
(* Values of the constants of ChemGraphTools for TLC.                      *)
EXTENDS ChemGraphTools, TLC

CONSTANTS grid, model, run_ase, save, smiles

MCConsumer == (grid :> run_ase) @@ (model :> save)

\* One resource or two, for the next tool, the one after it, or unknown. The
\* horizon is the smallest offset of the resources, which need not be the first's.
MCPredictions == {
    [resources |-> <<grid>>, offset |-> 1, horizon |-> 1],
    [resources |-> <<grid, model>>, offset |-> 1, horizon |-> 1],
    [resources |-> <<model, grid>>, offset |-> 2, horizon |-> 1],
    [resources |-> <<model, grid>>, offset |-> 0, horizon |-> 1]}
\* The numbers of the scheduler's tasks decide nothing.
WithoutNumbers == <<callback, pc, todo, slot, ckptOf, late>>
===============================================================================
