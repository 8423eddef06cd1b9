------------------------------ MODULE MCAtomAgents ------------------------------
(* Values of the constants of AtomAgents for TLC.                          *)
EXTENDS AtomAgents, TLC

CONSTANTS c1, c2, computation_task, screw_dislocation, print

\* "computation_task" is a prefix of "computation_task_screw_dislocation".
MCProperPrefix == {<<computation_task, screw_dislocation>>}

Message(calls, object, code, terminate) ==
    [structured |-> calls, json |-> object, python |-> code, end |-> terminate]

\* Talk with a call of a builtin and TERMINATE_ALL, a structured call whose text
\* names another tool, and a call in the text packed with TERMINATE_ALL.  The
\* shorter name is predicted and never run, so that a tool may continue it.
MCMessages ==
    {Message(<<>>, None, <<print>>, "all"),
     Message(<<screw_dislocation>>, computation_task, <<>>, "none"),
     Message(<<>>, None, <<print, screw_dislocation>>, "all")}

MCNotTools == {print}

Threads == Permutations({c1, c2})
===============================================================================
