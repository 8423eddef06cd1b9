------------------------------- MODULE AtomAgents -------------------------------
(***************************************************************************)
(* The AtomAgents adapter (runtime/adapters/atomagents.py): the hook after *)
(* each LLM response and the reply handler before each tool, composed with *)
(* DivergenceDetector and the tasks of the prefetch scheduler.             *)
(*                                                                         *)
(* A thread is a conversation.  Its last message names the tool that is    *)
(* about to run.  Before predicting and before judging, the adapter stamps *)
(* the loaded resources of the tool as consumed, task by task.             *)
(*                                                                         *)
(* Each tool consumes one resource, named by the tool.                     *)
(***************************************************************************)
EXTENDS DivergenceDetector, Sequences

CONSTANTS
    Messages,     \* LLM responses: structured tool calls, the name a JSON object
                  \* in the text gives, the names Python calls in it use, and
                  \* the TERMINATE they hold
    NotTools,     \* _PYTHON_BUILTINS, and the names without an underscore
    PlanTask,     \* "plan_task"
    PlanHorizon,  \* plan_extraction_horizon
    MaxTasks      \* bound on the tasks of a behaviour

ASSUME AtomAgentsConstants ==
    /\ PlanTask \in Tool /\ PlanHorizon \in Nat /\ MaxTasks \in Nat
    /\ \A m \in Messages : /\ m.structured \in Seq(Tool) /\ m.json \in Tool \cup {None}
                          /\ m.python \in Seq(Tool \cup NotTools)
                          /\ m.end \in {"none", "bare", "all"}

Task == 1..MaxTasks

VARIABLES
    plan,       \* _plan_context: the step whose response held the plan, 0 before
    windowOpen, \* _plan_window_open
    toolCalls,  \* _tool_call_count
    msg,        \* last message of the conversation, None when it was handled
    stage,      \* what the adapter does in a hook before it calls the detector
    task,       \* the scheduler's tasks, in the order they were created
    \* History
    closedAt,   \* step at which the planning window closed
    preloaded,  \* tasks of the named tools that were loaded when a response came
    orphan,     \* tasks registered for a checkpoint that had already diverged
    unstarted,  \* tasks cancelled before the executor had started them
    late,       \* tasks cancelled between a load's test for it and its assignment
    early       \* tasks stamped as used before they were loaded

planVars == <<plan, windowOpen, closedAt>>
taskVars == <<task, orphan, unstarted, late, early>>
aaVars == <<vars, planVars, toolCalls, msg, stage, taskVars, preloaded>>

-------------------------------------------------------------------------------
\* A stage of a hook: the response's step, the tools still to stamp, the tasks
\* of the snapshot still to look at, and the one at hand.
Stage(p, s, ts, todo) == [at |-> p, step |-> s, tools |-> ts, todo |-> todo, found |-> 0]

Ready == Stage("ready", 0, <<>>, {})

Active == {"in_progress", "completed"}
GivenUp == {"cancelled", "wasted"}

\* The task _resource_to_task names for the resource of a tool, 0 without one.
LatestOf(r) ==
    LET mine == {k \in DOMAIN task : task[k].tool = r}
    IN  IF mine = {} THEN 0 ELSE CHOOSE k \in mine : \A j \in mine : j <= k

\* _extract_text_tool_name(): what a JSON object names, whatever it is, before
\* the first Python call that may be one of a tool.
TextCall(m) ==
    IF m.json # None THEN <<m.json>>
    ELSE LET calls == {i \in DOMAIN m.python : m.python[i] \notin NotTools}
         IN  IF calls = {} THEN <<>>
             ELSE <<m.python[CHOOSE i \in calls : \A j \in calls : i <= j]>>

\* _extract_tool_calls_from_response(): a call in the text counts when there is
\* no structured one.
Calls(m) == IF m.structured # <<>> THEN m.structured ELSE TextCall(m)

\* _smart_terminate(): does the message end the conversation?
Terminates(m) ==
    /\ m.structured = <<>>
    /\ \/ m.end = "bare"
       \/ m.end = "all" /\ toolCalls > 0 /\ TextCall(m) = <<>>

\* A conversation whose last message was handled goes on to the next response.
LlmResponds(c, m) ==
    /\ stage[c] = Ready /\ msg[c] = None
    /\ Respond(c)
    /\ Calls(m) # <<>> <=> ~At(c, "idle")'
    /\ msg' = [msg EXCEPT ![c] = m]
    /\ stage' = [stage EXCEPT ![c] = Stage("extract", step + 1, Calls(m), {})]
    /\ preloaded' = [preloaded EXCEPT ![c] =
            {k \in DOMAIN task : /\ task[k].status = "completed" /\ LatestOf(task[k].tool) = k
                                 /\ \E i \in DOMAIN Calls(m) : Calls(m)[i] = task[k].tool}]
    /\ UNCHANGED <<planVars, toolCalls, taskVars>>

\* A plan is looked for until a real tool runs, or in the first responses.
Planning(c) ==
    plan = 0 /\ PlanHorizon > 0 /\ (windowOpen \/ stage[c].step <= PlanHorizon)

\* The test, outside _lock; the text holds a plan or does not.
LookForPlan(c) ==
    /\ stage[c].at = "extract"
    /\ \/ Planning(c) /\ stage' = [stage EXCEPT ![c].at = "keep"]
       \/ stage' = [stage EXCEPT ![c].at = "stamp", ![c].step = 0]
    /\ UNCHANGED <<vars, planVars, toolCalls, msg, taskVars, preloaded>>

KeepPlan(c) ==
    /\ stage[c].at = "keep"
    /\ plan' = stage[c].step
    /\ stage' = [stage EXCEPT ![c].at = "stamp", ![c].step = 0]
    /\ UNCHANGED <<vars, windowOpen, closedAt, toolCalls, msg, taskVars, preloaded>>

\* The reply handler, on a message that does not end the conversation: the
\* first tool it names is about to run.
ReplyHandler(c) ==
    /\ stage[c] = Ready /\ At(c, "idle") /\ msg[c] # None
    /\ ~Terminates(msg[c])
    /\ IF Calls(msg[c]) = <<>>
       THEN UNCHANGED <<vars, planVars, toolCalls, stage>>
       ELSE LET t == Calls(msg[c])[1]
            IN  /\ ToolFires(c, t)
                /\ toolCalls' = toolCalls + 1
                /\ windowOpen' = (windowOpen /\ t = PlanTask)
                /\ closedAt' = IF windowOpen /\ t # PlanTask THEN step ELSE closedAt
                /\ stage' = [stage EXCEPT ![c] = Stage("stamp", 0, <<t>>, {})]
                /\ UNCHANGED plan
    /\ msg' = [msg EXCEPT ![c] = None]
    /\ UNCHANGED <<taskVars, preloaded>>

-------------------------------------------------------------------------------
(* _stamp_consumed()                                                       *)

\* all_tasks(): the snapshot for the next tool.
Snapshot(c) ==
    LET s == stage[c]
    IN  /\ s.at = "stamp" /\ s.todo = {} /\ s.found = 0
        /\ stage' = [stage EXCEPT ![c] =
                IF s.tools = <<>> THEN Ready
                ELSE [s EXCEPT !.tools = Tail(s.tools),
                              !.todo = {k \in DOMAIN task : task[k].tool = Head(s.tools)}]]
        /\ UNCHANGED <<vars, planVars, toolCalls, msg, taskVars, preloaded>>

\* A mistaken test that stamps nothing.
ConsumableNever(k) == FALSE

Consumable(k) == task[k].status = "completed"

\* The tasks of the snapshot are looked at in the order of their creation.
LookAtTask(c) ==
    LET s == stage[c]
        k == CHOOSE i \in s.todo : \A j \in s.todo : i <= j
    IN  /\ s.at = "stamp" /\ s.todo # {} /\ s.found = 0
        /\ stage' = [stage EXCEPT ![c].todo = s.todo \ {k},
                                  ![c].found = IF Consumable(k) THEN k ELSE 0]
        /\ UNCHANGED <<vars, planVars, toolCalls, msg, taskVars, preloaded>>

\* on_resource_consumed(), first under _lock: the task of the resource is its
\* latest one, whatever was found loaded.
FindLatest(c) ==
    LET s == stage[c]
    IN  /\ s.at = "stamp" /\ s.found # 0
        /\ stage' = [stage EXCEPT ![c].at = "consume", ![c].found = LatestOf(task[s.found].tool)]
        /\ UNCHANGED <<vars, planVars, toolCalls, msg, taskVars, preloaded>>

\* The test, outside _lock, whether the task was given up.
TestLatest(c) ==
    LET s == stage[c]
    IN  /\ s.at = "consume"
        /\ stage' = [stage EXCEPT ![c] =
                IF task[s.found].status \in GivenUp THEN [s EXCEPT !.at = "stamp", !.found = 0]
                ELSE [s EXCEPT !.at = "mark"]]
        /\ UNCHANGED <<vars, planVars, toolCalls, msg, taskVars, preloaded>>

\* The assignment of USED, whatever became of the task since the test.
StampLatest(c) ==
    LET s == stage[c]
        k == s.found
    IN  /\ s.at = "mark"
        /\ task' = [task EXCEPT ![k].status = "used"]
        /\ early' = IF task[k].load # "ended" THEN early \cup {k} ELSE early
        /\ stage' = [stage EXCEPT ![c].at = "stamp", ![c].found = 0]
        /\ UNCHANGED <<vars, planVars, toolCalls, msg, orphan, unstarted, late, preloaded>>

-------------------------------------------------------------------------------
(* PrefetchScheduler.schedule(), cancel_all_pending() and the loads.       *)

\* schedule() skips a resource whose task is in flight or loaded.
Duplicate(r) == LatestOf(r) # 0 /\ task[LatestOf(r)].status \in Active

\* Under _lock the resource of the prediction is skipped as a duplicate or goes
\* on; the policy, or OBSERVE_ONLY mode, may skip it too.
Deduplicate(c) ==
    /\ stage[c] = Ready /\ At(c, "schedule")
    /\ \/ ScheduleResources(c) /\ UNCHANGED stage
       \/ /\ ~Duplicate(predicted[call[c].ckpt])
          /\ stage' = [stage EXCEPT ![c].at = "register"]
          /\ UNCHANGED vars
    /\ UNCHANGED <<planVars, toolCalls, msg, taskVars, preloaded>>

\* Under _lock again, the new task becomes the latest of its resource.
Register(c) ==
    LET k == call[c].ckpt
        i == Len(task) + 1
    IN  /\ stage[c].at = "register" /\ i <= MaxTasks
        /\ task' = Append(task, [tool |-> predicted[k], ckpt |-> k, status |-> "pending",
                                 load |-> "none"])
        /\ orphan' = IF status[k] = "diverged" THEN orphan \cup {i} ELSE orphan
        /\ stage' = [stage EXCEPT ![c].at = "start", ![c].found = i]
        /\ UNCHANGED <<vars, planVars, toolCalls, msg, unstarted, late, early, preloaded>>

\* executor.start() assigns IN_PROGRESS, whatever the status is by now, and
\* submits the load.
StartLoad(c) ==
    /\ stage[c].at = "start"
    /\ task' = [task EXCEPT ![stage[c].found].status = "in_progress",
                            ![stage[c].found].load = "running"]
    /\ ScheduleResources(c)
    /\ stage' = [stage EXCEPT ![c] = Ready]
    /\ UNCHANGED <<planVars, toolCalls, msg, orphan, unstarted, late, early, preloaded>>

\* cancel_all_pending(): the snapshot of the tasks, under _lock; those of other
\* checkpoints are passed over.
SnapshotToCancel(c) ==
    /\ stage[c] = Ready /\ At(c, "cancel")
    /\ stage' = [stage EXCEPT ![c] =
            Stage("sweep", 0, <<>>, {k \in DOMAIN task : task[k].ckpt = call[c].ckpt})]
    /\ UNCHANGED <<vars, planVars, toolCalls, msg, taskVars, preloaded>>

\* A mistaken test that passes over what is already loaded.
CancellableLoading(k) == task[k].status \in {"pending", "in_progress"}

Cancellable(k) == task[k].status \in {"pending"} \cup Active

\* The next task of the snapshot, unlocked: is it one to cancel?
SweepTask(c) ==
    LET s == stage[c]
        k == CHOOSE i \in s.todo : \A j \in s.todo : i <= j
    IN  /\ s.at = "sweep" /\ s.todo # {}
        /\ stage' = [stage EXCEPT ![c].todo = s.todo \ {k},
                                  ![c].at = IF Cancellable(k) THEN "sample" ELSE "sweep",
                                  ![c].found = IF Cancellable(k) THEN k ELSE 0]
        /\ UNCHANGED <<vars, planVars, toolCalls, msg, taskVars, preloaded>>

\* was_completed
SampleCompleted(c) ==
    /\ stage[c].at = "sample"
    /\ stage' = [stage EXCEPT ![c].at =
            IF task[stage[c].found].status = "completed" THEN "discard" ELSE "stop"]
    /\ UNCHANGED <<vars, planVars, toolCalls, msg, taskVars, preloaded>>

\* executor.cancel(): the load is told to stop, and CANCELLED assigned.
ExecutorCancel(c) ==
    LET s == stage[c]
        k == s.found
    IN  /\ s.at \in {"stop", "discard"}
        /\ task' = [task EXCEPT ![k].status = "cancelled"]
        /\ unstarted' = IF task[k].load = "none" THEN unstarted \cup {k} ELSE unstarted
        /\ late' = IF task[k].load = "settling" THEN late \cup {k} ELSE late
        /\ stage' = [stage EXCEPT ![c].at = IF s.at = "stop" THEN "sweep" ELSE "waste",
                                  ![c].found = IF s.at = "stop" THEN 0 ELSE k]
        /\ UNCHANGED <<vars, planVars, toolCalls, msg, orphan, early, preloaded>>

\* A task that was loaded when it was sampled is charged as wasted.
ChargeWasted(c) ==
    /\ stage[c].at = "waste"
    /\ task' = [task EXCEPT ![stage[c].found].status = "wasted"]
    /\ stage' = [stage EXCEPT ![c].at = "sweep", ![c].found = 0]
    /\ UNCHANGED <<vars, planVars, toolCalls, msg, orphan, unstarted, late, early, preloaded>>

\* The whole snapshot was looked at.
CancelReturns(c) ==
    /\ stage[c].at = "sweep" /\ stage[c].todo = {}
    /\ CancelPrefetches(c)
    /\ stage' = [stage EXCEPT ![c] = Ready]
    /\ UNCHANGED <<planVars, toolCalls, msg, taskVars, preloaded>>

\* A load is done and tests for a cancellation: it gives up, or goes on to
\* assign.  What was stamped meanwhile ends the simulated load, which tests for
\* IN_PROGRESS, and not those that test for CANCELLED.
LoadTests(k) ==
    /\ task[k].load = "running"
    /\ \/ task[k].status # "in_progress" /\ task' = [task EXCEPT ![k].load = "ended"]
       \/ task[k].status # "cancelled" /\ task' = [task EXCEPT ![k].load = "settling"]
    /\ UNCHANGED <<vars, planVars, toolCalls, msg, stage, orphan, unstarted, late, early, preloaded>>

LoadCompletes(k) ==
    /\ task[k].load = "settling"
    /\ task' = [task EXCEPT ![k].status = "completed", ![k].load = "ended"]
    /\ UNCHANGED <<vars, planVars, toolCalls, msg, stage, orphan, unstarted, late, early, preloaded>>

\* A load that fails is marked so without a test.
LoadFails(k) ==
    /\ task[k].load = "running"
    /\ task' = [task EXCEPT ![k].status = "failed", ![k].load = "ended"]
    /\ UNCHANGED <<vars, planVars, toolCalls, msg, stage, orphan, unstarted, late, early, preloaded>>

\* The detector's own steps.
DetectorStep(c) ==
    /\ stage[c] = Ready
    /\ \/ AskConservative(c) \/ PredictNothing(c)
       \/ \E t \in Tool, p \in Predictor : OnPrediction(c, t, p)
       \/ Select(c) \/ Tally(c) \/ CreateTracker(c) \/ Record(c)
       \/ Resolve(c) \/ EnterConservative(c)
    /\ UNCHANGED <<planVars, toolCalls, msg, stage, taskVars, preloaded>>

-------------------------------------------------------------------------------
AAInit ==
    /\ Init
    /\ plan = 0 /\ windowOpen = TRUE /\ closedAt = 0 /\ toolCalls = 0
    /\ msg = [c \in Thread |-> None]
    /\ stage = [c \in Thread |-> Ready]
    /\ task = <<>> /\ orphan = {} /\ unstarted = {} /\ late = {} /\ early = {}
    /\ preloaded = [c \in Thread |-> {}]

AANext ==
    \/ \E c \in Thread :
        \/ \E m \in Messages : LlmResponds(c, m)
        \/ LookForPlan(c) \/ KeepPlan(c) \/ ReplyHandler(c)
        \/ Snapshot(c) \/ LookAtTask(c)
        \/ FindLatest(c) \/ TestLatest(c) \/ StampLatest(c)
        \/ Deduplicate(c) \/ Register(c) \/ StartLoad(c)
        \/ SnapshotToCancel(c) \/ SweepTask(c) \/ SampleCompleted(c)
        \/ ExecutorCancel(c) \/ ChargeWasted(c) \/ CancelReturns(c)
        \/ DetectorStep(c)
    \/ \E k \in DOMAIN task : LoadTests(k) \/ LoadCompletes(k) \/ LoadFails(k)

AASpec == AAInit /\ [][AANext]_aaVars

-------------------------------------------------------------------------------
(* Properties.                                                             *)

AATypeOK ==
    /\ TypeOK
    /\ plan \in 0..MaxStep /\ closedAt \in 0..MaxStep /\ windowOpen \in BOOLEAN
    /\ toolCalls \in 0..MaxStep
    /\ msg \in [Thread -> Messages \cup {None}]
    /\ \A c \in Thread : stage[c].at \in
            {"ready", "extract", "keep", "stamp", "consume", "mark", "register", "start",
             "sweep", "sample", "stop", "discard", "waste"}
    /\ Len(task) <= MaxTasks
    /\ \A k \in DOMAIN task : task[k].status \in
            {"pending", "used", "failed"} \cup Active \cup GivenUp

\* atomagents.py:247-251: a load that was complete when the response came is
\* stamped before the response's own prefetches are scheduled, whatever the other
\* conversations stamp, cancel and register meanwhile: the dedup, which asks for
\* the latest task of the resource, never refuses the next load because of it.
ReArmed ==
    \A c \in Thread :
        stage[c] = Ready /\ call[c].pc \in {"ask", "predict", "schedule"} =>
            \A k \in preloaded[c] : LatestOf(task[k].tool) = k => task[k].status # "completed"

\* detector.py:6-7: when no hook is running, a prefetch of a diverged
\* checkpoint that is in flight or held was registered after the verdict, or
\* cancelled before the executor had started it, or cancelled when its load had
\* passed the last test for it, or stamped before it was loaded: no other way out
\* of a cancellation exists.
CancelCatchesStarted ==
    ~ablated /\ Quiet =>
        \A k \in DOMAIN task :
            task[k].status \in Active /\ status[task[k].ckpt] = "diverged" =>
                k \in orphan \cup unstarted \cup late \cup early

\* atomagents.py:215-221: the plan is the text of a response from the planning
\* phase, which ends when the first tool other than plan_task is about to run,
\* or of one of the first responses.
PlanFromPlanning ==
    plan # 0 /\ ~windowOpen => plan <= closedAt \/ plan <= PlanHorizon

\* The order of the hooks (atomagents.py:200-300) under two conversations: older
\* predictions are settled first, and the plan a prediction is made from is the
\* one of the planning phase.
HooksInOrder == AATypeOK /\ OldestFirst /\ PlanFromPlanning
===============================================================================
