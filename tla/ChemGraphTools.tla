----------------------------- MODULE ChemGraphTools -----------------------------
(***************************************************************************)
(* The prediction side of the ChemGraph adapter (adapters/chemgraph.py,    *)
(* on_tool_start): the one prediction that waits for its tool, the         *)
(* checkpoint store, the conservative window, and the prefetches it starts *)
(* and gives up.                                                           *)
(*                                                                         *)
(* The scheduler appears by its contract: ResourceSlots, which             *)
(* PrefetchScheduler is checked to implement for one calling thread.       *)
(* Loads end between any two calls into it.                                *)
(***************************************************************************)
EXTENDS Integers, Sequences

CONSTANTS
    Resource,           \* resource ids
    Tool,               \* tools, at least one
    Consumer,           \* Consumer[r]: the consumer_tool of r
    Predictions,        \* what the predictor may answer, unless nothing: resources in
                        \* order, the offset of the first, 0 when expected_at_step is
                        \* None, and the horizon
    ConservativeSteps,  \* conservative_mode_steps
    NSteps              \* bound: tool starts of a run

ASSUME ToolsConstants ==
    /\ Tool # {} /\ Consumer \in [Resource -> Tool]
    /\ \A p \in Predictions : /\ p.resources \in Seq(Resource) \ {<<>>}
                            /\ p.offset \in Nat /\ p.horizon \in Nat
    /\ ConservativeSteps \in Nat /\ NSteps \in Nat

Task == 0..(NSteps * NSteps)

VARIABLES
    observe,      \* mode = OBSERVE_ONLY
    ablated,      \* disable_divergence_cancellation
    step,         \* _step
    tool,         \* the tool of the call
    store,        \* _checkpoint_store: the CheckpointRecords, in the order made
    pendingCkpt,  \* _pending_checkpoint: an index of store, or 0
    until,        \* _conservative_until_step
    pc, todo,     \* position inside on_tool_start, and the resources still to do
    owner, slot,  \* the scheduler (ResourceSlots)
    ckptOf,       \* checkpoint_id of the task that owns the slot
    late          \* history: slots whose load delivered after they were given up

callback == <<observe, ablated, step, tool, store, pendingCkpt, until>>
toolVars == <<callback, pc, todo, owner, slot, ckptOf, late>>

Slots == INSTANCE ResourceSlots

-------------------------------------------------------------------------------
\* Unresolved predictions whose horizon has passed.
Lapsed(c, s) == c.status = "pending" /\ s > c.step + c.horizon + 1

\* CheckpointStore.expire_old()
ExpireOld(records, s) ==
    [i \in DOMAIN records |->
        IF Lapsed(records[i], s) THEN [records[i] EXCEPT !.status = "expired"] ELSE records[i]]

\* CheckpointStore.resolve(), with the step and the tool of the verdict.
Resolve(records, k, verdict, s, x) ==
    [records EXCEPT ![k].status = verdict, ![k].judgedAt = s, ![k].by = x]

Expected(c) == IF c.offset = 0 THEN 0 ELSE c.step + c.offset

\* A mistaken gate: the verdict comes one step after the predicted one.
DueAfterwards(s) == pendingCkpt # 0 /\ s > Expected(store[pendingCkpt])

\* Phase 1 judges the waiting prediction from the step it names on.
Due(s) == pendingCkpt # 0 /\ s >= Expected(store[pendingCkpt])

Window(s) == s + ConservativeSteps

\* Phase 1: the tool is compared with the consumer of the first resource.
ToolStarts(x) ==
    LET s == step + 1
        first == store[pendingCkpt].resources[1]
        verdict == IF x = Consumer[first] THEN "validated" ELSE "diverged"
        cancels == verdict = "diverged" /\ ~ablated
    IN  /\ pc = "idle" /\ step < NSteps
        /\ step' = s /\ tool' = x
        /\ IF Due(s)
           THEN /\ store' = ExpireOld(Resolve(store, pendingCkpt, verdict, s, x), s)
                /\ pendingCkpt' = 0
                /\ until' = IF cancels THEN Window(s) ELSE until
                /\ pc' = IF verdict = "validated" THEN "consume"
                         ELSE IF cancels THEN "cancel" ELSE "predict"
                /\ todo' = IF verdict = "validated" THEN <<first>> ELSE <<>>
           ELSE /\ pc' = "predict"
                /\ UNCHANGED <<store, pendingCkpt, until, todo>>
        /\ UNCHANGED <<observe, ablated, owner, slot, ckptOf, late>>

\* on_resource_consumed() of the first resource: without a task of it only an
\* event is emitted.
ConsumeFirst ==
    LET r == todo[1]
    IN  /\ pc = "consume"
        /\ IF slot[r] = "empty" THEN UNCHANGED <<owner, slot, late>>
           ELSE Slots!Release(r) /\ late' = late \ {r}
        /\ pc' = "predict" /\ todo' = <<>>
        /\ UNCHANGED <<callback, ckptOf>>

\* The checkpoint a divergence has just resolved.
Diverged == CHOOSE k \in DOMAIN store : store[k].status = "diverged" /\ store[k].judgedAt = step

\* A mistaken selection: only what has already been loaded.
ToCancelLoaded == {r \in Resource : slot[r] = "ready" /\ ckptOf[r] = Diverged}

\* cancel_all_pending(checkpoint_id): tasks of the checkpoint, in flight or
\* loaded.
ToCancel == {r \in Resource : slot[r] # "empty" /\ ckptOf[r] = Diverged}

CancelOne(r) ==
    /\ pc = "cancel" /\ r \in ToCancel
    /\ Slots!Release(r)
    /\ late' = late \ {r}
    /\ UNCHANGED <<callback, pc, todo, ckptOf>>

CancelsDone ==
    /\ pc = "cancel" /\ ToCancel = {}
    /\ pc' = "predict"
    /\ UNCHANGED <<callback, todo, owner, slot, ckptOf, late>>

Conservative == step <= until

\* Phase 2 in the conservative window, or when the predictor raises or has
\* nothing to say.
NoPrediction ==
    /\ pc = "predict"
    /\ pc' = "idle"
    /\ UNCHANGED <<callback, todo, owner, slot, ckptOf, late>>

\* Phase 2: a new checkpoint becomes the pending one, whichever was waiting.
Predict(p) ==
    /\ pc = "predict" /\ ~Conservative
    /\ store' = Append(store, [step |-> step, resources |-> p.resources, offset |-> p.offset,
                               horizon |-> p.horizon, status |-> "pending",
                               judgedAt |-> 0, by |-> tool])
    /\ pendingCkpt' = Len(store) + 1
    /\ pc' = IF observe THEN "idle" ELSE "schedule"
    /\ todo' = IF observe THEN <<>> ELSE p.resources
    /\ UNCHANGED <<observe, ablated, step, tool, until, owner, slot, ckptOf, late>>

\* Tasks are numbered in the order they are started.
NextTask == CHOOSE t \in Task : (\A q \in Resource : owner[q] < t)
                                /\ \E q \in Resource : owner[q] = t - 1

\* schedule() of the next resource: skipped when a task of it is in flight or
\* loaded, which keeps its older checkpoint, or when the policy says so.
ScheduleOne ==
    LET r == todo[1]
    IN  /\ pc = "schedule"
        /\ \/ UNCHANGED <<owner, slot, ckptOf, late>>
           \/ /\ slot[r] = "empty"
              /\ Slots!Claim(r) /\ owner'[r] = NextTask
              /\ ckptOf' = [ckptOf EXCEPT ![r] = Len(store)]
              /\ late' = late \ {r}
        /\ todo' = Tail(todo)
        /\ pc' = IF Len(todo) = 1 THEN "idle" ELSE pc
        /\ UNCHANGED callback

\* A load delivers, also when its task was given up; or it fails.
LoadEnds(r) ==
    /\ \/ Slots!Deliver(r) /\ late' = IF slot[r] = "empty" THEN late \cup {r} ELSE late
       \/ slot[r] = "claimed" /\ Slots!Release(r) /\ UNCHANGED late
    /\ UNCHANGED <<callback, pc, todo, ckptOf>>

-------------------------------------------------------------------------------
ToolsInit ==
    /\ observe \in BOOLEAN /\ ablated \in BOOLEAN
    /\ step = 0 /\ tool = CHOOSE x \in Tool : TRUE
    /\ store = <<>> /\ pendingCkpt = 0 /\ until = 0
    /\ pc = "idle" /\ todo = <<>>
    /\ Slots!Init
    /\ ckptOf = [r \in Resource |-> 0] /\ late = {}

ToolsNext ==
    \/ \E x \in Tool : ToolStarts(x)
    \/ ConsumeFirst \/ CancelsDone \/ NoPrediction \/ ScheduleOne
    \/ \E p \in Predictions : Predict(p)
    \/ \E r \in Resource : CancelOne(r) \/ LoadEnds(r)

ToolsSpec == ToolsInit /\ [][ToolsNext]_toolVars

-------------------------------------------------------------------------------
(* Properties.                                                             *)

Verdicts == {"validated", "diverged"}

ToolsTypeOK ==
    /\ observe \in BOOLEAN /\ ablated \in BOOLEAN
    /\ step \in 0..NSteps /\ tool \in Tool
    /\ pendingCkpt \in 0..Len(store) /\ until \in 0..(NSteps + ConservativeSteps)
    /\ \A i \in DOMAIN store : /\ store[i].status \in {"pending", "expired"} \cup Verdicts
                              /\ store[i].judgedAt \in 0..NSteps
    /\ pendingCkpt # 0 => store[pendingCkpt].status = "pending"
    /\ pc \in {"idle", "consume", "cancel", "predict", "schedule"}
    /\ todo \in Seq(Resource)
    /\ slot \in [Resource -> {"empty", "claimed", "ready"}]
    /\ ckptOf \in [Resource -> 0..Len(store)] /\ late \subseteq Resource

\* chemgraph.py:959-960: a prediction is judged by the tool of the step it
\* names (the next one when it names none), not by a tool in between.
JudgedWhenExpected ==
    \A i \in DOMAIN store :
        LET c == store[i]
        IN  c.status \in Verdicts =>
                /\ c.judgedAt = IF c.offset > 1 THEN Expected(c) ELSE c.step + 1
                /\ c.status = "validated" <=> c.by = Consumer[c.resources[1]]

\* A prediction about the very next tool gets its verdict from that tool,
\* whatever else is predicted, consumed or cancelled: no divergence is missed.
NextToolJudges ==
    \A i \in DOMAIN store :
        store[i].offset <= 1 /\ store[i].step < step => store[i].status \in Verdicts

\* chemgraph.py:990-995: when a call that saw a divergence has ended, nothing
\* that the diverged prediction started is held or in flight any more, apart
\* from a load that delivered although it had been cancelled.
DivergedReleased ==
    \A r \in Resource :
        pc = "idle" /\ slot[r] # "empty" /\ r \notin late /\ ~ablated =>
            store[ckptOf[r]].status # "diverged"

\* chemgraph.py:996-998: conservative_mode_steps tools after a divergence,
\* and in its own call, nothing is predicted.
ConservativeSilence ==
    \A i, j \in DOMAIN store :
        store[i].status = "diverged" /\ ~ablated =>
            store[j].step \notin store[i].judgedAt..(store[i].judgedAt + ConservativeSteps)

\* checkpoint.py:42-43: predictions that were superseded while they waited do
\* not outlive their horizon by more than a step once a verdict is given.
SupersededExpire ==
    \A i, j \in DOMAIN store :
        store[i].status = "pending" /\ store[j].status \in Verdicts =>
            store[j].judgedAt <= store[i].step + store[i].horizon + 1

\* The single pending prediction of the callback (chemgraph.py:952-1004) gets
\* its verdict from the right tool or none, and what was superseded expires.
JudgedRight == ToolsTypeOK /\ JudgedWhenExpected /\ NextToolJudges /\ SupersededExpire

\* What a divergence does (chemgraph.py:985-1003): it silences the predictor and
\* leaves nothing that it revoked held or in flight.
DivergenceActs == DivergedReleased /\ ConservativeSilence
===============================================================================
