--------------------------- MODULE MCPredictorReplay ---------------------------
(* Values of the constants of PredictorReplay for TLC.                     *)
EXTENDS PredictorReplay, TLC

CONSTANTS name_to_smiles, to_coordinates, run_ase, extract, screw, mace, qwen, potential, llm

Row(trigger, id, t, o, p) == [trigger |-> trigger, id |-> id, tool |-> t, offset |-> o, percent |-> p]

MCChemTable == << Row(name_to_smiles, mace, run_ase, 2, 80), Row(to_coordinates, mace, run_ase, 1, 92) >>
MCAtomTable == << Row(screw, qwen, screw, 1, 92), Row(screw, potential, screw, 1, 87) >>

MCJsonEntries == <<
    [tool |-> screw, id |-> qwen, offset |-> 1, comment |-> TRUE],
    [tool |-> screw, id |-> potential, offset |-> 1, comment |-> FALSE],
    [tool |-> extract, id |-> potential, offset |-> 2, comment |-> FALSE]>>

MCChemTools == {name_to_smiles, to_coordinates, run_ase, extract}
MCAtomTools == {screw}
MCOracleChem == {name_to_smiles, to_coordinates, run_ase}
MCOracleAtom == {screw}

Event(k, x) == [kind |-> k, name |-> x, step |-> 0]
TraceOf(seq) == [x \in DOMAIN seq |-> Event("tool", seq[x])]

SeqsUpTo(S, m) == UNION {[1..k -> S] : k \in 0..m}

Runs == SeqsUpTo(MCChemTools, 4) \cup SeqsUpTo({run_ase, extract, screw}, 3)

\* The text may mention a tool twice in a row, and need not mention the first.
Mentions(r) == {r, r \o r} \cup (IF r = <<>> THEN {} ELSE {<<r[1]>> \o r, Tail(r)})

Replays(T(_)) ==
    {[traces |-> <<T(r), T(r)>>, mentions |-> r, run |-> r, by |-> b, flow |-> f] :
        r \in Runs, b \in {"oracle", "mock"}, f \in {"chemgraph", "atomagents", "auto"}}
    \cup
    {[traces |-> <<T(r), T(r)>>, mentions |-> r, run |-> r, by |-> b, flow |-> "auto"] :
        r \in Runs, b \in {"full", "transition_only"}}

Planned ==
    UNION {{[traces |-> <<>>, mentions |-> m, run |-> r, by |-> "plan_only", flow |-> "auto"] :
                m \in Mentions(r)} : r \in Runs}

\* Only learning: two traces of up to three events of each kind.
Learning ==
    LET some == SeqsUpTo({Event("tool", run_ase), Event("tool", extract), Event("model", llm),
                          Event("agent_send", llm)}, 3)
    IN  {[traces |-> <<a, b>>, mentions |-> <<>>, run |-> <<>>, by |-> "mock", flow |-> "auto"] :
            a \in some, b \in some}

MCScenarios == Replays(TraceOf) \cup Planned \cup Learning
===============================================================================
