--------------------------- MODULE DivergenceDetector ---------------------------
(***************************************************************************)
(* runtime/guard/detector.py with the CheckpointStore of                   *)
(* runtime/guard/checkpoint.py, called as the AtomAgents adapter calls     *)
(* them (runtime/adapters/atomagents.py).                                  *)
(*                                                                         *)
(* Each LLM response starts a step.  A response with tool calls predicts   *)
(* the tool that comes after them: a checkpoint is stored and queued, and  *)
(* prefetches are scheduled under it.  A tool about to run is compared     *)
(* with the queued predictions of earlier steps; a mismatch cancels the    *)
(* prefetches of the checkpoint and suspends predicting for a few steps.   *)
(*                                                                         *)
(* A thread is one conversation of the workflow.  An action is what a call *)
(* does under one acquisition of a lock, or one unlocked access to shared  *)
(* state.  Checkpoints are numbered in the order in which they are queued. *)
(***************************************************************************)
EXTENDS Integers, FiniteSets

CONSTANTS
    Thread,            \* threads that run the adapter's hooks
    Tool,              \* tool names
    ProperPrefix,      \* pairs <<p, t>>: the name p is a proper prefix of t
    Predictor,         \* predictor ids
    MaxStep,           \* bound on the step counter
    MaxCheckpoints,    \* bound on the checkpoints of a behaviour
    Horizon,           \* RuntimeConfig.max_horizon
    ConservativeSteps, \* RuntimeConfig.conservative_mode_steps
    AgePerHorizon,     \* 8, and
    AgeFloor,          \* 60: the literals of the age window
    Ablations,         \* values of disable_divergence_cancellation in the runs
    None

ASSUME DetectorConstants ==
    /\ MaxStep \in Nat /\ MaxCheckpoints \in Nat
    /\ Horizon \in Nat /\ ConservativeSteps \in Nat
    /\ AgePerHorizon \in Nat /\ AgeFloor \in Nat
    /\ Ablations \subseteq BOOLEAN
    /\ ProperPrefix \subseteq Tool \X Tool
    /\ None \notin Tool \cup Predictor

Checkpoint == 1..MaxCheckpoints

VARIABLES
    ablated,       \* RuntimeConfig.disable_divergence_cancellation
    step,          \* the adapter's step counter
    \* CheckpointStore
    nckpts,        \* len(_records)
    madeAt,        \* CheckpointRecord.step
    predicted,     \* consumer_tool of the prediction's first resource
    by,            \* predictor_id of the prediction
    status,        \* CheckpointRecord.status
    \* DivergenceDetector
    queue,         \* _pending_queue, in the order of the numbers
    until,         \* _conservative_until_step
    known,         \* predictors with an AccuracyTracker
    hits, misses,  \* their counts
    \* Threads: local variables and program counter
    call,
    \* The scheduler as the detector sees it
    outstanding,   \* checkpoints with prefetches that were not cancelled
    \* History
    judgedBy,      \* the tool a checkpoint was compared with
    judgedAt       \* the step of that tool

storeVars == <<nckpts, madeAt, predicted, by, status>>
accuracyVars == <<known, hits, misses>>
historyVars == <<judgedBy, judgedAt>>
vars == <<ablated, step, storeVars, queue, until, accuracyVars, call, outstanding, historyVars>>

-------------------------------------------------------------------------------
PC == {"idle", "ask", "predict", "schedule", "select", "tally", "create",
       "record", "resolve", "cancel", "conserve"}

\* A call's local variables: the step it read, the tool about to run and the
\* checkpoint at hand.
Frame(p, s, t, k) == [pc |-> p, step |-> s, tool |-> t, ckpt |-> k]

Idle == Frame("idle", 0, None, 0)

At(c, p) == call[c].pc = p

Goto(c, p) == call' = [call EXCEPT ![c].pc = p]

Return(c) == call' = [call EXCEPT ![c] = Idle]

\* The tool is the predicted one, or its name continues the predicted name.
Hit(k, t) == t = predicted[k]
Matches(k, t) == Hit(k, t) \/ <<predicted[k], t>> \in ProperPrefix

-------------------------------------------------------------------------------
(* LLM responses: _on_llm_response and on_prediction().                    *)

\* A response increments the step; without tool calls nothing follows.
Respond(c) ==
    /\ At(c, "idle")
    /\ step < MaxStep
    /\ step' = step + 1
    /\ \/ call' = [call EXCEPT ![c] = Frame("ask", step + 1, None, 0)]
       \/ UNCHANGED call
    /\ UNCHANGED <<ablated, storeVars, queue, until, accuracyVars, outstanding, historyVars>>

\* A mistaken test that lifts conservative mode one step early.
ConservativeBefore(s) == s < until

\* is_conservative().
Conservative(s) == s <= until

AskConservative(c) ==
    /\ At(c, "ask")
    /\ IF Conservative(call[c].step) THEN Return(c) ELSE Goto(c, "predict")
    /\ UNCHANGED <<ablated, step, storeVars, queue, until, accuracyVars, outstanding, historyVars>>

\* The predictor names no resource, or fails: no checkpoint.
PredictNothing(c) ==
    /\ At(c, "predict")
    /\ Return(c)
    /\ UNCHANGED <<ablated, step, storeVars, queue, until, accuracyVars, outstanding, historyVars>>

\* on_prediction(): the record is stored, then appended to the queue.
OnPrediction(c, t, p) ==
    /\ At(c, "predict")
    /\ nckpts < MaxCheckpoints
    /\ LET k == nckpts + 1
       IN  /\ nckpts' = k
           /\ madeAt' = [madeAt EXCEPT ![k] = call[c].step]
           /\ predicted' = [predicted EXCEPT ![k] = t]
           /\ by' = [by EXCEPT ![k] = p]
           /\ status' = [status EXCEPT ![k] = "pending"]
           /\ queue' = queue \cup {k}
           /\ call' = [call EXCEPT ![c] = Frame("schedule", call[c].step, None, k)]
    /\ UNCHANGED <<ablated, step, until, accuracyVars, outstanding, historyVars>>

\* The adapter schedules the prediction's resources under the checkpoint.
ScheduleResources(c) ==
    /\ At(c, "schedule")
    /\ outstanding' = outstanding \cup {call[c].ckpt}
    /\ Return(c)
    /\ UNCHANGED <<ablated, step, storeVars, queue, until, accuracyVars, historyVars>>

-------------------------------------------------------------------------------
(* Tools: _run_divergence_check and on_tool_about_to_execute().            *)

\* A tool is about to run; the adapter reads the step.
ToolFires(c, t) ==
    /\ At(c, "idle")
    /\ call' = [call EXCEPT ![c] = Frame("select", step, t, 0)]
    /\ UNCHANGED <<ablated, step, storeVars, queue, until, accuracyVars, outstanding, historyVars>>

\* The age beyond which a queued checkpoint is dropped.
MaxAge == IF Horizon * AgePerHorizon > AgeFloor THEN Horizon * AgePerHorizon ELSE AgeFloor

\* The queue without what is resolved or too old.
Fresh(s) == {k \in queue : status[k] = "pending" /\ s - madeAt[k] <= MaxAge}

\* A mistaken selection: predictions of the running step too.
MatchedNow(q, s, t) == {k \in q : madeAt[k] <= s /\ Matches(k, t)}

\* Queued predictions made before this step that the tool matches.
Matched(q, s, t) == {k \in q : madeAt[k] < s /\ Matches(k, t)}

\* A mistaken choice: the newest first.
Newest(q) == CHOOSE k \in q : \A j \in q : j <= k

\* matched[0]
Oldest(q) == CHOOSE k \in q : \A j \in q : k <= j

\* A mistaken selection that leaves the checkpoint in the queue.
TakenStays(q, k) == q

Taken(q, k) == q \ {k}

\* Under _lock: drop the stale checkpoints and take the first that matches.
\* A tool nobody predicted is answered "hit", whatever is queued.
Select(c) ==
    /\ At(c, "select")
    /\ LET s == call[c].step
           t == call[c].tool
           fresh == Fresh(s)
           matched == Matched(fresh, s, t)
       IN  IF matched = {}
           THEN /\ queue' = fresh
                /\ Return(c)
                /\ UNCHANGED historyVars
           ELSE LET k == Oldest(matched)
                IN  /\ queue' = Taken(fresh, k)
                    /\ call' = [call EXCEPT ![c].pc = "tally", ![c].ckpt = k]
                    /\ judgedBy' = [judgedBy EXCEPT ![k] = t]
                    /\ judgedAt' = [judgedAt EXCEPT ![k] = s]
    /\ UNCHANGED <<ablated, step, storeVars, until, accuracyVars, outstanding>>

\* A mistaken test that starts a new tracker at each verdict.
Untracked(c) == FALSE

\* The predictor has a tracker.
Tracked(c) == by[call[c].ckpt] \in known

\* The test for a tracker, outside _lock.
Tally(c) ==
    /\ At(c, "tally")
    /\ Goto(c, IF Tracked(c) THEN "record" ELSE "create")
    /\ UNCHANGED <<ablated, step, storeVars, queue, until, accuracyVars, outstanding, historyVars>>

\* A new tracker replaces whatever is there by now.
CreateTracker(c) ==
    /\ At(c, "create")
    /\ LET p == by[call[c].ckpt]
       IN  /\ known' = known \cup {p}
           /\ hits' = [hits EXCEPT ![p] = 0]
           /\ misses' = [misses EXCEPT ![p] = 0]
    /\ Goto(c, "record")
    /\ UNCHANGED <<ablated, step, storeVars, queue, until, outstanding, historyVars>>

\* AccuracyTracker.record() counts under the tracker's own lock.
Record(c) ==
    /\ At(c, "record")
    /\ LET p == by[call[c].ckpt]
       IN  IF Hit(call[c].ckpt, call[c].tool)
           THEN hits' = [hits EXCEPT ![p] = @ + 1] /\ UNCHANGED misses
           ELSE misses' = [misses EXCEPT ![p] = @ + 1] /\ UNCHANGED hits
    /\ Goto(c, "resolve")
    /\ UNCHANGED <<ablated, step, storeVars, queue, until, known, outstanding, historyVars>>

\* A mistaken policy: the ablation switch is ignored.
ActsAlways == TRUE

\* _choose_action(): INVALIDATE_ALL, or CONTINUE in the ablation.
Acts == ~ablated

Verdict(hit) == IF hit THEN "validated" ELSE "diverged"

\* CheckpointStore.resolve() with the verdict.
Resolve(c) ==
    /\ At(c, "resolve")
    /\ LET k == call[c].ckpt
           hit == Hit(k, call[c].tool)
       IN  /\ status' = [status EXCEPT ![k] = Verdict(hit)]
           /\ IF ~hit /\ Acts THEN Goto(c, "cancel") ELSE Return(c)
    /\ UNCHANGED <<ablated, step, nckpts, madeAt, predicted, by, queue, until, accuracyVars,
                   outstanding, historyVars>>

\* PrefetchScheduler.cancel_all_pending() for the checkpoint.
CancelPrefetches(c) ==
    /\ At(c, "cancel")
    /\ outstanding' = outstanding \ {call[c].ckpt}
    /\ Goto(c, "conserve")
    /\ UNCHANGED <<ablated, step, storeVars, queue, until, accuracyVars, historyVars>>

EnterConservative(c) ==
    /\ At(c, "conserve")
    /\ until' = call[c].step + ConservativeSteps
    /\ Return(c)
    /\ UNCHANGED <<ablated, step, storeVars, queue, accuracyVars, outstanding, historyVars>>

-------------------------------------------------------------------------------
Init ==
    /\ ablated \in Ablations
    /\ step = 0 /\ nckpts = 0 /\ queue = {} /\ until = 0
    /\ madeAt = [k \in Checkpoint |-> 0]
    /\ predicted = [k \in Checkpoint |-> None]
    /\ by = [k \in Checkpoint |-> None]
    /\ status = [k \in Checkpoint |-> "none"]
    /\ known = {} /\ outstanding = {}
    /\ hits = [p \in Predictor |-> 0]
    /\ misses = [p \in Predictor |-> 0]
    /\ call = [c \in Thread |-> Idle]
    /\ judgedBy = [k \in Checkpoint |-> None]
    /\ judgedAt = [k \in Checkpoint |-> 0]

Next == \E c \in Thread :
    \/ Respond(c)
    \/ AskConservative(c)
    \/ PredictNothing(c)
    \/ \E t \in Tool, p \in Predictor : OnPrediction(c, t, p)
    \/ ScheduleResources(c)
    \/ \E t \in Tool : ToolFires(c, t)
    \/ Select(c)
    \/ Tally(c) \/ CreateTracker(c) \/ Record(c)
    \/ Resolve(c) \/ CancelPrefetches(c) \/ EnterConservative(c)

Spec == Init /\ [][Next]_vars

-------------------------------------------------------------------------------
(* Properties.                                                             *)

TypeOK ==
    /\ ablated \in BOOLEAN
    /\ step \in 0..MaxStep /\ nckpts \in 0..MaxCheckpoints
    /\ madeAt \in [Checkpoint -> 0..MaxStep]
    /\ predicted \in [Checkpoint -> Tool \cup {None}]
    /\ by \in [Checkpoint -> Predictor \cup {None}]
    /\ status \in [Checkpoint -> {"none", "pending", "validated", "diverged"}]
    /\ queue \subseteq Checkpoint
    /\ until \in 0..(MaxStep + ConservativeSteps)
    /\ known \subseteq Predictor /\ outstanding \subseteq Checkpoint
    /\ hits \in [Predictor -> 0..MaxCheckpoints]
    /\ misses \in [Predictor -> 0..MaxCheckpoints]
    /\ call \in [Thread -> [pc : PC, step : 0..MaxStep, tool : Tool \cup {None},
                            ckpt : 0..MaxCheckpoints]]
    /\ judgedBy \in [Checkpoint -> Tool \cup {None}]
    /\ judgedAt \in [Checkpoint -> 0..MaxStep]

Quiet == \A c \in Thread : call[c].pc = "idle"

\* A prediction is compared with one tool only: whatever the threads do, a
\* checkpoint that was taken from the queue is never taken again.
JudgedOnce == [][\A k \in Checkpoint : judgedBy[k] # None =>
                    judgedBy'[k] = judgedBy[k] /\ judgedAt'[k] = judgedAt[k]]_vars

\* detector.py:163-177: the verdict stored for a prediction is that of the one
\* tool it was compared with, however the two are nested: validated by the tool
\* it names, diverged by another.
VerdictOfItsTool ==
    \A k \in Checkpoint :
        /\ status[k] = "validated" => judgedBy[k] = predicted[k]
        /\ status[k] = "diverged" => judgedBy[k] \notin {None, predicted[k]}

\* detector.py:129-133: a prediction is about what comes after the tools of its
\* own response, so it is settled in a later step than it was made in.
SettledLater == \A k \in Checkpoint : judgedBy[k] # None => madeAt[k] < judgedAt[k]

\* Of two queued predictions of the same tool the older is settled first, also
\* when several threads predict and fire tools.
OldestFirst ==
    \A j, k \in Checkpoint :
        /\ j < k /\ madeAt[j] <= madeAt[k]
        /\ predicted[j] = predicted[k]
        /\ judgedBy[k] # None
        => j \notin queue

\* The accuracy the runs report: between calls every verdict has been counted
\* exactly once for its predictor.
EveryVerdictCounted ==
    Quiet => \A p \in Predictor :
        /\ hits[p] = Cardinality({k \in Checkpoint : by[k] = p /\ status[k] = "validated"})
        /\ misses[p] = Cardinality({k \in Checkpoint : by[k] = p /\ status[k] = "diverged"})

\* A divergence silences the predictor: no checkpoint is made in the
\* conservative_mode_steps after the step of a diverging tool.
ConservativeWindow ==
    ~ablated =>
        \A j, k \in Checkpoint :
            status[k] = "diverged" =>
                madeAt[j] \notin (judgedAt[k] + 1)..(judgedAt[k] + ConservativeSteps)

\* Between calls no prefetch is left running for a diverged checkpoint
\* (detector.py:6-7).
DivergedReleased ==
    ~ablated /\ Quiet =>
        \A k \in Checkpoint : status[k] = "diverged" => k \notin outstanding

\* config.py:47-48: the ablation neither cancels prefetches in flight nor
\* enters conservative mode.
AblationInert ==
    [][ablated => outstanding \subseteq outstanding' /\ until' = until]_vars

\* A prediction is only settled within the window of detector.py:120-128.
SettledInWindow ==
    \A k \in Checkpoint : judgedBy[k] # None => judgedAt[k] - madeAt[k] <= MaxAge

\* The verdicts of the guard (detector.py:84-189): a prediction is settled in a
\* later step than it was made in and before it is too old, and its verdict is
\* that of the tool it was compared with.  Which tools it is compared with is
\* left open: those it does not name may or may not count.
VerdictSound == TypeOK /\ VerdictOfItsTool /\ SettledLater /\ SettledInWindow

\* What a divergence does (detector.py:176-211): the predictor is silent for the
\* conservative window and nothing the diverged prediction started runs on.
DivergenceActs == ConservativeWindow /\ DivergedReleased
===============================================================================
