---------------------------- MODULE PredictorReplay ----------------------------
(***************************************************************************)
(* The predictors of runtime/predictor/ over a run of tools, judged as the *)
(* ChemGraph adapter judges them: a prediction waits for the step it names *)
(* and is compared with the tool of that step.                             *)
(*                                                                         *)
(* The run repeats a reference run: its trace is what the oracle reads,    *)
(* its order is the plan, and copies of it are what the table was learned  *)
(* from.  What a predictor may then get wrong is its own doing.            *)
(***************************************************************************)
EXTENDS TransitionLearner

CONSTANTS
    Scenarios,     \* [traces, mentions, run, by]: the traces of earlier runs, the
                   \* tools the plan's text mentions, the tools that will run,
                   \* the predictor and its workflow
    JsonEntries,   \* tool_resources.json: [tool, id, comment]
    ChemTable, AtomTable,  \* the mock's transition tables, a resource of a trigger
                           \* after the other: [trigger, id, tool, offset, percent]
    ChemTools, AtomTools,  \* the tool names of the two workflows, as the mock knows them
    OracleChem, OracleAtom, \* and as the oracle does
    MinPercent,    \* min_confidence
    PlanPercent    \* _PLAN_CONFIDENCE_DEFAULT

IsSeq(s) == s \in Seq(ToSet(s))

\* In a row of the mock's tables the resource that is needed first comes first.
ASSUME ReplayConstants ==
    /\ \A sc \in Scenarios :
        /\ IsSeq(sc.run) /\ IsSeq(sc.traces)
        /\ \A x \in DOMAIN sc.traces : IsSeq(sc.traces[x])
    /\ IsSeq(JsonEntries)
    /\ \A table \in {ChemTable, AtomTable} :
        /\ IsSeq(table)
        /\ \A x, y \in DOMAIN table :
            /\ table[x].offset \in Nat
            /\ table[x].trigger = table[y].trigger /\ x < y => table[x].offset <= table[y].offset

VARIABLES
    run,      \* the tools of the run
    plan,     \* tool_sequence of the plan, <<>> without one
    by,       \* the predictor: "oracle", "mock", "full", "plan_only" or
              \* "transition_only"
    flow,     \* its workflow: "chemgraph", "atomagents" or "auto"
    step,     \* tools started so far
    pending,  \* the prediction that waits for its tool, or <<>>
    verdicts  \* history: the judged predictions

vars == <<learner, run, plan, by, flow, step, pending, verdicts>>

-------------------------------------------------------------------------------
(* plan_extractor.py                                                       *)

\* Adjacent mentions of one tool are one step of the plan.
Collapse(mentions) ==
    FoldLeft(LAMBDA acc, t : IF acc # <<>> /\ Last(acc) = t THEN acc ELSE Append(acc, t),
             <<>>, mentions)

\* A plan names at least two tools.
ExtractPlan(mentions) ==
    IF Cardinality(ToSet(mentions)) < 2 THEN <<>> ELSE Collapse(mentions)

\* find_tool(): the first place of the tool, 0 when the plan does not name it.
FindTool(t) == SelectInSeq(plan, LAMBDA u : u = t)

ToolAtOffset(at, offset) ==
    IF at + offset \in DOMAIN plan THEN {plan[at + offset]} ELSE {}

-------------------------------------------------------------------------------
(* resource_registry.py: a resource is [id, tool, offset, percent].        *)

\* register(): the resources of some tools, the first of each name.
Registered(specs, tools) ==
    Picked(specs, {x \in DOMAIN specs :
                      /\ specs[x].tool \in tools
                      /\ \A y \in 1..(x - 1) : specs[y].tool \in tools => specs[y].id # specs[x].id})

\* from_json(): entries with a comment are skipped.
JsonSpecs ==
    LET kept == Picked(JsonEntries, {x \in DOMAIN JsonEntries : ~JsonEntries[x].comment})
    IN  [x \in DOMAIN kept |-> [id |-> kept[x].id, tool |-> kept[x].tool,
                                offset |-> kept[x].offset, percent |-> 0]]

\* merged(from_json(), from_mock_predictor()).get(tool)
Registry(t) == Registered(JsonSpecs \o (ChemTable \o AtomTable), {t})

\* _copy_resource() with an offset.
CopyResources(specs, percent, offset) ==
    [x \in DOMAIN specs |-> [id |-> specs[x].id, tool |-> specs[x].tool,
                             offset |-> offset, percent |-> percent]]

-------------------------------------------------------------------------------
(* A prediction: the resources in order and the horizon.                   *)

Nothing == [resources |-> <<>>, horizon |-> 1]

Prediction(resources) ==
    [resources |-> resources,
     horizon |-> Min({resources[x].offset : x \in DOMAIN resources})]

\* The workflow of the first tool that one of the two has; ChemGraph's if
\* there is none.
FlowOf(tools, chem, atom) ==
    LET named == SelectSeq(tools, LAMBDA t : t \in chem \cup atom)
    IN  IF named # <<>> /\ named[1] \in atom THEN "atomagents" ELSE "chemgraph"

\* _infer_workflow() of the mock asks the tool that starts, then those before.
MockFlow(s) == FlowOf(<<run[s]>> \o SubSeq(run, 1, s - 1), ChemTools, AtomTools)

\* _infer_workflow() of the oracle asks in the order of the run.
OracleFlow(s) == FlowOf(SubSeq(run, 1, s), OracleChem, OracleAtom)

Table(f) == IF f = "atomagents" THEN AtomTable ELSE ChemTable

\* MockPredictor: what the table has for the tool; the tables of models are
\* empty.
MockPredict(s, told) ==
    LET table == Table(IF told = "auto" THEN MockFlow(s) ELSE told)
        row == Picked(table, {x \in DOMAIN table : table[x].trigger = run[s]})
    IN  IF row = <<>> THEN Nothing ELSE Prediction(row)

\* The oracle's resources are for the very next tool.
Pinned(specs) == CopyResources(specs, 100, 1)

\* OraclePredictor._load_trace(): the tool of a step; an event with its own
\* step overrides the count of the file.
ToolOfStep(trace, s) ==
    LET tools == {x \in DOMAIN trace : trace[x].kind = "tool"}
        count(x) == Cardinality({y \in tools : y <= x})
        at == {x \in tools : (IF trace[x].step # 0 THEN trace[x].step ELSE count(x)) = s}
    IN  IF at = {} THEN {} ELSE {trace[Max(at)].name}

\* _lookup_resource_for_consumer(): what any row of the table loads for the
\* tool, each resource once.
ResourcesFor(tools, table) == Pinned(Registered(table, tools))

\* OraclePredictor.predict(): the resources of the next step's tool.
OraclePredict(s) ==
    LET table == Table(IF flow = "auto" THEN OracleFlow(s) ELSE flow)
        found == ResourcesFor(ToolOfStep(traces[1], s + 1), table)
    IN  IF found = <<>> THEN Nothing ELSE [resources |-> found, horizon |-> 1]

\* _plan_confidence(): at least the default.
PlanConfidence(s, t, o) ==
    LET entries == SelectSeq(Top("tool", s, o, 10), LAMBDA e : e.target = t)
    IN  Max({PlanPercent} \cup {entries[x].percent : x \in DOMAIN entries})

\* A mistaken place: a tool outside the plan counts as its first step.
PlaceOrFirst(t) == Max({1, FindTool(t)})

\* The place of a tool in the plan; before the first step if it has none.
Place(t) == FindTool(t)

\* _predict_from_plan(): the next two tools of the plan.
FromPlan(t) ==
    LET at(o) == ToolAtOffset(Place(t), o)
        ahead(o) == IF at(o) = {} THEN <<>>
                    ELSE LET u == CHOOSE v \in at(o) : TRUE
                         IN  CopyResources(Registry(u), PlanConfidence(t, u, o), o)
    IN  ahead(1) \o ahead(2)

\* What the three likeliest followers of a tool at a distance need.
Followers(t, o) ==
    LET entries == Top("tool", t, o, 3)
        of(x) == IF x \in DOMAIN entries /\ entries[x].percent >= MinPercent
                 THEN CopyResources(Registry(entries[x].target), entries[x].percent, o)
                 ELSE <<>>
    IN  of(1) \o of(2) \o of(3)

FirstNonEmpty(a, b) == IF a # <<>> THEN a ELSE b

\* _predict_from_table(): tools one step ahead, else two.  Models have no
\* resources of their own in the registry.
FromTable(t) == FirstNonEmpty(Followers(t, 1), Followers(t, 2))

\* LearnedPredictor.predict(): the plan, else the table, else the mock.
LearnedPredict(s) ==
    LET planned == IF by \in {"full", "plan_only"} /\ plan # <<>> THEN FromPlan(run[s]) ELSE <<>>
        tabled == IF by \in {"full", "transition_only"} /\ counts # <<>>
                  THEN FromTable(run[s]) ELSE <<>>
        found == FirstNonEmpty(planned, tabled)
    IN  IF found # <<>> THEN Prediction(found)
        ELSE IF by = "full" THEN MockPredict(s, "auto")
        ELSE Nothing

Predict(s) ==
    CASE by = "oracle" -> OraclePredict(s)
      [] by = "mock" -> MockPredict(s, flow)
      [] OTHER -> LearnedPredict(s)

-------------------------------------------------------------------------------
Due(s) == pending # <<>> /\ s >= pending[1].expected

\* The next tool of the run starts: it judges the prediction that waits for it
\* and is predicted from.
ToolStarts ==
    LET s == step + 1
        p == Predict(s)
        first == p.resources[1]
    IN  /\ ~learning /\ step < Len(run)
        /\ step' = s
        /\ verdicts' = IF Due(s)
                       THEN Append(verdicts, [made |-> pending[1].made, at |-> s,
                                              hit |-> pending[1].consumer = run[s]])
                       ELSE verdicts
        /\ pending' = IF p.resources # <<>>
                      THEN << [made |-> s, expected |-> s + first.offset,
                               horizon |-> p.horizon, consumer |-> first.tool] >>
                      ELSE IF Due(s) THEN <<>> ELSE pending
        /\ UNCHANGED <<learner, run, plan, by, flow>>

Init ==
    /\ LearnInit
    /\ \E sc \in Scenarios :
        /\ traces = sc.traces /\ plan = ExtractPlan(sc.mentions) /\ run = sc.run
        /\ by = sc.by /\ flow = sc.flow
    /\ step = 0 /\ pending = <<>> /\ verdicts = <<>>

Next ==
    \/ LearnStep /\ UNCHANGED <<run, plan, by, flow, step, pending, verdicts>>
    \/ ToolStarts

Spec == Init /\ [][Next]_vars

-------------------------------------------------------------------------------
(* Properties.                                                             *)

Wrong == {v \in ToSet(verdicts) : ~v.hit}

Distinct(seq) == \A x, y \in DOMAIN seq : seq[x] = seq[y] => x = y

TypeOK ==
    /\ learning \in BOOLEAN /\ n \in 1..(Len(traces) + 1)
    /\ \A x \in DOMAIN counts : counts[x].offset \in 1..MaxOffset /\ counts[x].count > 0
    /\ step \in 0..Len(run) /\ Len(pending) <= 1

\* As far as a trace and the run both go, they have the same tools at the same
\* steps, and an event that tells its step tells the true one.
Records(trace) ==
    LET tools == {x \in DOMAIN trace : trace[x].kind = "tool"}
        count(x) == Cardinality({y \in tools : y <= x})
    IN  \A x \in tools : /\ trace[x].step \in {0, count(x)}
                         /\ count(x) \in DOMAIN run => trace[x].name = run[count(x)]

\* A run that begins as the trace goes, with no model call in between.
Repeats(trace) ==
    LET calls == Calls(trace)
    IN  \A x \in DOMAIN calls :
            calls[x].kind = "tool" /\ x \in DOMAIN run /\ calls[x].name = run[x]

\* oracle_predictor.py:238-246: the oracle is never wrong on the run it read,
\* also where its resources come from a rule that looks two steps ahead.
OracleRight == by = "oracle" /\ traces # <<>> /\ Records(traces[1]) => Wrong = {}

\* learned_predictor.py:192-196: a run that follows the plan, after at most
\* one tool the plan does not name, never diverges from a prediction taken
\* from the plan.
PlanRight ==
    by = "plan_only" /\ Distinct(run) /\ (plan = run \/ plan = Tail(run)) => Wrong = {}

\* A run that repeats, tool by tool, the runs the table was learned from never
\* diverges from it, as long as no tool comes twice.
TableRight ==
    by = "transition_only" /\ Distinct(run) /\ (\A x \in DOMAIN traces : Repeats(traces[x]))
        => Wrong = {}

\* chemgraph.py:957-973 judges a prediction by its first resource alone: none
\* of the others is due before it, whichever signal they come from, and the
\* horizon after which the checkpoint expires is that of the first.
FirstDueFirst == pending # <<>> => pending[1].expected = pending[1].made + pending[1].horizon

\* The transition table tells what the traces show, no more
\* (transition_learner.py:124-220).
TableExact == TypeOK /\ CountsExact /\ NoOverconfidence

\* No source of predictions is wrong about a run it knows - the oracle about its
\* trace, the plan about a run that follows it, the table about the runs it was
\* learned from - and the resource a prediction is judged by is the first due.
KnownRunsHit == OracleRight /\ PlanRight /\ TableRight /\ FirstDueFirst
===============================================================================
