----------------------------- MODULE GuardProofs -----------------------------
(***************************************************************************)
(* Theorems about DivergenceDetector: for every number of conversations,   *)
(* tools, predictors, steps and checkpoints, every age window and every    *)
(* relation of tool names; those that need it assume one conversation.     *)
(*                                                                         *)
(* Then theorems about AtomAgents: the adapter's hooks use the guard as    *)
(* DivergenceDetector specifies it, so what is proved of the guard holds   *)
(* there, and the properties of the composition, for every number of       *)
(* conversations, messages, tools and tasks.                               *)
(***************************************************************************)
EXTENDS AtomAgents, FiniteSetTheorems, SequenceTheorems, WellFoundedInduction, TLAPS

-------------------------------------------------------------------------------
(* The inductive invariant.                                                *)

\* A thread holds a checkpoint it has taken from the queue: to count the
\* comparison, to resolve it, to act on the divergence.
Counting == {"tally", "create", "record"}
Judging == Counting \cup {"resolve"}
Acting == {"cancel", "conserve"}

Holds(c, k, pcs) == call[c].pc \in pcs /\ call[c].ckpt = k

Held(k, pcs) == \E c \in Thread : Holds(c, k, pcs)

Judged(k) == judgedBy[k] # None

CallRecord == [pc : PC, step : 0..MaxStep, tool : Tool \cup {None}, ckpt : 0..MaxCheckpoints]

\* The variables other than the accuracy counts.
Typed ==
    /\ ablated \in BOOLEAN
    /\ step \in 0..MaxStep /\ nckpts \in 0..MaxCheckpoints
    /\ madeAt \in [Checkpoint -> 0..MaxStep]
    /\ predicted \in [Checkpoint -> Tool \cup {None}]
    /\ by \in [Checkpoint -> Predictor \cup {None}]
    /\ status \in [Checkpoint -> {"none", "pending", "validated", "diverged"}]
    /\ queue \subseteq Checkpoint
    /\ until \in 0..(MaxStep + ConservativeSteps)
    /\ known \subseteq Predictor /\ outstanding \subseteq Checkpoint
    /\ hits \in [Predictor -> Nat] /\ misses \in [Predictor -> Nat]
    /\ call \in [Thread -> CallRecord]
    /\ judgedBy \in [Checkpoint -> Tool \cup {None}]
    /\ judgedAt \in [Checkpoint -> 0..MaxStep]

\* Checkpoints that were not made yet are nowhere; those made have a prediction.
Numbered ==
    \A k \in Checkpoint :
        /\ k > nckpts => status[k] = "none" /\ k \notin queue /\ ~Judged(k) /\ k \notin outstanding
        /\ k <= nckpts => status[k] # "none" /\ predicted[k] \in Tool /\ by[k] \in Predictor

\* What is in the queue has not been judged.
QueueOpen == \A k \in queue : ~Judged(k)

\* A judged checkpoint was matched by its tool, in time, and is either held by
\* a thread or has the verdict its tool deserves.
JudgedWell ==
    \A k \in Checkpoint :
        /\ Judged(k) => /\ Matches(k, judgedBy[k])
                        /\ madeAt[k] < judgedAt[k] /\ judgedAt[k] - madeAt[k] <= MaxAge
                        /\ Held(k, Judging) \/ status[k] = Verdict(Hit(k, judgedBy[k]))
        /\ status[k] \in {"validated", "diverged"} =>
                Judged(k) /\ status[k] = Verdict(Hit(k, judgedBy[k]))

\* What the program counter of a thread says of its local variables.
FrameHolds(c) ==
    LET k == call[c].ckpt
    IN  /\ call[c].pc = "select" => call[c].tool \in Tool
        /\ call[c].pc = "schedule" => k \in 1..nckpts
        /\ call[c].pc \in Judging => /\ k \in 1..nckpts /\ status[k] = "pending"
                                     /\ Judged(k) /\ judgedBy[k] = call[c].tool
                                     /\ judgedAt[k] = call[c].step
        /\ call[c].pc \in Acting => /\ k \in 1..nckpts /\ status[k] = "diverged" /\ ~ablated
                                    /\ judgedAt[k] = call[c].step

Frames == \A c \in Thread : FrameHolds(c)

\* No two threads judge one checkpoint.
Exclusive ==
    \A c, d \in Thread :
        call[c].pc \in Judging /\ call[d].pc \in Judging /\ call[c].ckpt = call[d].ckpt => c = d

\* The checkpoints of a predictor whose comparison was recorded.
Recorded(p) == {k \in Checkpoint : by[k] = p /\ Judged(k) /\ ~Held(k, Counting)}
RecordedHits(p) == {k \in Recorded(p) : Hit(k, judgedBy[k])}
RecordedMisses(p) == {k \in Recorded(p) : ~Hit(k, judgedBy[k])}

\* The trackers never count more than what was recorded (they may lose some).
CountsBounded ==
    \A p \in Predictor : /\ hits[p] <= Cardinality(RecordedHits(p))
                         /\ misses[p] <= Cardinality(RecordedMisses(p))

\* A step that records no comparison.
RecordedKept ==
    \A p \in Predictor : /\ RecordedHits(p)' = RecordedHits(p)
                         /\ RecordedMisses(p)' = RecordedMisses(p)

IInv == /\ Typed /\ Numbered /\ QueueOpen /\ JudgedWell /\ Frames /\ Exclusive
        /\ CountsBounded /\ OldestFirst

-------------------------------------------------------------------------------
(* Lemmas about the operators of the model.                                *)

\* A nonempty set of natural numbers has a least element.
LEMMA LeastElement ==
  ASSUME NEW S \in SUBSET Nat, S # {}
  PROVE  \E k \in S : \A j \in S : k <= j
  <1> DEFINE R == OpToRel(<, Nat)
  <1>1. PICK k \in S : \A j \in S : <<j, k>> \notin R
    BY NatLessThanWellFounded, WFMin
  <1>2. \A j \in S : ~(j < k)
    BY <1>1 DEF OpToRel
  <1> QED BY <1>2

\* The choice of matched[0] is defined whenever something matched.
LEMMA OldestIsLeast ==
  ASSUME NEW S \in SUBSET Checkpoint, S # {}
  PROVE  Oldest(S) \in S /\ \A j \in S : Oldest(S) <= j
  <1>1. S \in SUBSET Nat
    BY DetectorConstants DEF Checkpoint
  <1>2. PICK k \in S : \A j \in S : k <= j
    BY <1>1, LeastElement
  <1> QED BY <1>2 DEF Oldest

\* Sets of checkpoints are finite and bounded, and one more counts one more.
LEMMA CountCheckpoints ==
  ASSUME NEW S \in SUBSET Checkpoint
  PROVE  IsFiniteSet(S) /\ Cardinality(S) \in 0..MaxCheckpoints
  <1>1. IsFiniteSet(Checkpoint) /\ Cardinality(Checkpoint) = MaxCheckpoints
    BY FS_Interval, DetectorConstants DEF Checkpoint
  <1>2. IsFiniteSet(S) /\ Cardinality(S) <= MaxCheckpoints
    BY <1>1, FS_Subset
  <1>3. Cardinality(S) \in Nat
    BY <1>2, FS_CardinalityType
  <1> QED BY <1>2, <1>3, DetectorConstants

LEMMA CountOneMore ==
  ASSUME NEW S \in SUBSET Checkpoint, NEW k, k \notin S
  PROVE  Cardinality(S \cup {k}) = Cardinality(S) + 1
  BY CountCheckpoints, FS_AddElement

\* The local variables of a thread under the updates the actions make.
LEMMA FrameType ==
  ASSUME NEW p \in PC, NEW s \in 0..MaxStep, NEW t \in Tool \cup {None}, NEW k \in 0..MaxCheckpoints
  PROVE  /\ Frame(p, s, t, k) \in CallRecord
         /\ Frame(p, s, t, k).pc = p /\ Frame(p, s, t, k).step = s
         /\ Frame(p, s, t, k).tool = t /\ Frame(p, s, t, k).ckpt = k
  BY DEF Frame, CallRecord

LEMMA IdleType == Idle \in CallRecord /\ Idle.pc = "idle"
  BY FrameType, DetectorConstants DEF Idle, PC

LEMMA CallNew ==
  ASSUME call \in [Thread -> CallRecord], NEW c \in Thread, NEW x \in CallRecord,
         call' = [call EXCEPT ![c] = x]
  PROVE  /\ call' \in [Thread -> CallRecord]
         /\ call'[c] = x
         /\ \A d \in Thread : d # c => call'[d] = call[d]
  BY DEF CallRecord

LEMMA CallReturn ==
  ASSUME call \in [Thread -> CallRecord], NEW c \in Thread, Return(c)
  PROVE  /\ call' \in [Thread -> CallRecord]
         /\ call'[c].pc = "idle"
         /\ \A d \in Thread : d # c => call'[d] = call[d]
  BY CallNew, IdleType DEF Return

LEMMA CallGoto ==
  ASSUME call \in [Thread -> CallRecord], NEW c \in Thread, NEW p \in PC, Goto(c, p)
  PROVE  /\ call' \in [Thread -> CallRecord]
         /\ call'[c].pc = p /\ call'[c].step = call[c].step
         /\ call'[c].tool = call[c].tool /\ call'[c].ckpt = call[c].ckpt
         /\ \A d \in Thread : d # c => call'[d] = call[d]
  <1> DEFINE x == [call[c] EXCEPT !.pc = p]
  <1>1. x \in CallRecord /\ x.pc = p /\ x.step = call[c].step /\ x.tool = call[c].tool
                         /\ x.ckpt = call[c].ckpt
    BY DEF CallRecord
  <1>2. call' = [call EXCEPT ![c] = x]
    BY DEF Goto
  <1> QED BY <1>1, <1>2, CallNew

LEMMA CallTake ==
  ASSUME call \in [Thread -> CallRecord], NEW c \in Thread, NEW k \in Checkpoint,
         call' = [call EXCEPT ![c].pc = "tally", ![c].ckpt = k]
  PROVE  /\ call' \in [Thread -> CallRecord]
         /\ call'[c].pc = "tally" /\ call'[c].step = call[c].step
         /\ call'[c].tool = call[c].tool /\ call'[c].ckpt = k
         /\ \A d \in Thread : d # c => call'[d] = call[d]
  <1> DEFINE x == [call[c] EXCEPT !.pc = "tally", !.ckpt = k]
  <1>1. x \in CallRecord /\ x.pc = "tally" /\ x.step = call[c].step /\ x.tool = call[c].tool
                         /\ x.ckpt = k
    <2>1. call[c] \in CallRecord /\ k \in 0..MaxCheckpoints
      BY DetectorConstants DEF Checkpoint
    <2> QED BY <2>1 DEF CallRecord, PC
  <1>2. call' = [call EXCEPT ![c] = x]
    OBVIOUS
  <1> QED BY <1>1, <1>2, CallNew

LEMMA CallFields ==
  ASSUME call \in [Thread -> CallRecord], NEW c \in Thread
  PROVE  /\ call[c].pc \in PC /\ call[c].step \in 0..MaxStep
         /\ call[c].tool \in Tool \cup {None} /\ call[c].ckpt \in 0..MaxCheckpoints
  BY DEF CallRecord

\* A step of thread c that holds nothing, before and after, holds what was held.
LEMMA HeldSame ==
  ASSUME NEW CONSTANT pcs, NEW CONSTANT c \in Thread, NEW CONSTANT k,
         \A d \in Thread : d # c => call'[d] = call[d],
         call[c].pc \notin pcs, call'[c].pc \notin pcs
  PROVE  Held(k, pcs)' <=> Held(k, pcs)
  BY DEF Held, Holds

\* ... and so does one that keeps its checkpoint in hand.
LEMMA HeldKept ==
  ASSUME NEW CONSTANT pcs, NEW CONSTANT c \in Thread, NEW CONSTANT k,
         \A d \in Thread : d # c => call'[d] = call[d],
         call[c].pc \in pcs, call'[c].pc \in pcs, call'[c].ckpt = call[c].ckpt
  PROVE  Held(k, pcs)' <=> Held(k, pcs)
  BY DEF Held, Holds

-------------------------------------------------------------------------------
(* IInv is an invariant.                                                   *)

LEMMA RecordedTypes ==
  ASSUME NEW p \in Predictor
  PROVE  /\ RecordedHits(p) \in SUBSET Checkpoint /\ RecordedMisses(p) \in SUBSET Checkpoint
         /\ Cardinality(RecordedHits(p)) \in 0..MaxCheckpoints
         /\ Cardinality(RecordedMisses(p)) \in 0..MaxCheckpoints
  <1>1. RecordedHits(p) \in SUBSET Checkpoint /\ RecordedMisses(p) \in SUBSET Checkpoint
    BY DEF RecordedHits, RecordedMisses, Recorded
  <1> QED BY <1>1, CountCheckpoints

LEMMA InitIInv == Init => IInv
  <1> SUFFICES ASSUME Init
               PROVE  IInv
    OBVIOUS
  <1>1. Typed
    BY IdleType, DetectorConstants DEF Init, Typed
  <1>2. Numbered /\ QueueOpen /\ JudgedWell /\ OldestFirst
    BY DetectorConstants DEF Init, Numbered, QueueOpen, JudgedWell, OldestFirst, Judged, Checkpoint
  <1>3. Frames /\ Exclusive
    BY IdleType DEF Init, Frames, FrameHolds, Exclusive, Judging, Counting, Acting
  <1>4. CountsBounded
    <2> SUFFICES ASSUME NEW p \in Predictor
                 PROVE  /\ hits[p] <= Cardinality(RecordedHits(p))
                        /\ misses[p] <= Cardinality(RecordedMisses(p))
      BY DEF CountsBounded
    <2>1. hits[p] = 0 /\ misses[p] = 0
      BY DEF Init
    <2> QED BY <2>1, RecordedTypes, DetectorConstants
  <1> QED BY <1>1, <1>2, <1>3, <1>4 DEF IInv

\* A step of a thread that holds no prediction to judge, before and after, and
\* changes nothing but its local variables, the step counter, the conservative
\* window and the prefetches outstanding.
LEMMA LocalStep ==
  ASSUME IInv, NEW c \in Thread,
         call' \in [Thread -> CallRecord],
         \A d \in Thread : d # c => call'[d] = call[d],
         call[c].pc \notin Judging, call'[c].pc \notin Judging,
         FrameHolds(c)',
         step' \in 0..MaxStep, until' \in 0..(MaxStep + ConservativeSteps),
         outstanding' \subseteq Checkpoint, \A k \in outstanding' : k <= nckpts,
         UNCHANGED <<ablated, storeVars, queue, accuracyVars, historyVars>>
  PROVE  IInv' /\ RecordedKept
  <1> USE DEF storeVars, accuracyVars, historyVars
  <1>1. Typed'
    BY DEF IInv, Typed
  <1>2. Numbered'
    BY DetectorConstants DEF IInv, Numbered, Typed, Judged, Checkpoint
  <1>3. QueueOpen' /\ OldestFirst'
    BY DEF IInv, QueueOpen, OldestFirst, Judged
  <1>4. \A k \in Checkpoint : /\ Held(k, Judging)' <=> Held(k, Judging)
                              /\ Held(k, Counting)' <=> Held(k, Counting)
    BY HeldSame DEF Judging
  <1>5. JudgedWell'
    BY <1>4 DEF IInv, JudgedWell, Judged, Matches, Hit, Verdict
  <1>6. Frames'
    <2>1. \A d \in Thread : d # c => FrameHolds(d)'
      BY DEF IInv, Frames, FrameHolds, Judged
    <2> QED BY <2>1 DEF Frames
  <1>7. Exclusive'
    BY DEF IInv, Exclusive
  <1>9. RecordedKept
    BY <1>4 DEF RecordedKept, RecordedHits, RecordedMisses, Recorded, Judged, Hit
  <1>8. CountsBounded'
    BY <1>9 DEF RecordedKept, IInv, CountsBounded
  <1> QED BY <1>1, <1>2, <1>3, <1>5, <1>6, <1>7, <1>8, <1>9 DEF IInv

LEMMA OutstandingMade ==
  ASSUME IInv
  PROVE  outstanding \subseteq Checkpoint /\ \A k \in outstanding : k <= nckpts
  <1>1. outstanding \subseteq Checkpoint /\ nckpts \in Nat /\ Checkpoint \subseteq Nat
    BY DetectorConstants DEF IInv, Typed, Checkpoint
  <1> QED BY <1>1 DEF IInv, Numbered

LEMMA RespondIInv ==
  ASSUME IInv, NEW c \in Thread, Respond(c)
  PROVE  IInv' /\ RecordedKept
  <1>0. /\ step' \in 0..MaxStep /\ step' = step + 1
        /\ until' \in 0..(MaxStep + ConservativeSteps)
        /\ outstanding' \subseteq Checkpoint /\ \A k \in outstanding' : k <= nckpts
        /\ UNCHANGED <<ablated, storeVars, queue, accuracyVars, historyVars>>
    BY OutstandingMade, DetectorConstants DEF Respond, IInv, Typed
  <1>1. CASE UNCHANGED call
    <2>1. call'[c].pc = "idle" /\ call[c].pc = "idle"
      BY <1>1 DEF Respond, At
    <2>2. FrameHolds(c)'
      BY <2>1 DEF FrameHolds, Judging, Counting, Acting
    <2>3. call' \in [Thread -> CallRecord] /\ \A d \in Thread : d # c => call'[d] = call[d]
      BY <1>1 DEF IInv, Typed
    <2>4. call[c].pc \notin Judging /\ call'[c].pc \notin Judging
      BY <2>1 DEF Judging, Counting
    <2> QED BY <1>0, <2>2, <2>3, <2>4, LocalStep
  <1>2. CASE call' = [call EXCEPT ![c] = Frame("ask", step + 1, None, 0)]
    <2>1. step' \in 0..MaxStep /\ 0 \in 0..MaxCheckpoints /\ "ask" \in PC /\ None \in Tool \cup {None}
      BY <1>0, DetectorConstants DEF PC
    <2>2. Frame("ask", step', None, 0) \in CallRecord /\ Frame("ask", step', None, 0).pc = "ask"
      BY <2>1, FrameType
    <2>3. /\ call' \in [Thread -> CallRecord] /\ call'[c].pc = "ask"
          /\ \A d \in Thread : d # c => call'[d] = call[d]
      BY <1>0, <1>2, <2>2, CallNew DEF IInv, Typed
    <2>4. FrameHolds(c)'
      BY <2>3 DEF FrameHolds, Judging, Counting, Acting
    <2>5. call[c].pc \notin Judging /\ call'[c].pc \notin Judging
      BY <2>3 DEF Respond, At, Judging, Counting
    <2> QED BY <1>0, <2>3, <2>4, <2>5, LocalStep
  <1> QED BY <1>1, <1>2 DEF Respond

\* The steps of a thread without a prediction in hand.
LEMMA IdleStepsIInv ==
  ASSUME IInv, NEW c \in Thread, AskConservative(c) \/ PredictNothing(c) \/ ScheduleResources(c)
  PROVE  IInv' /\ RecordedKept
  <1> USE DEF IInv, Typed
  <1>1. call[c].pc \in {"ask", "predict", "schedule"}
    BY DEF AskConservative, PredictNothing, ScheduleResources, At
  <1>2. /\ call' \in [Thread -> CallRecord] /\ call'[c].pc \in {"idle", "predict"}
        /\ \A d \in Thread : d # c => call'[d] = call[d]
    BY CallReturn, CallGoto DEF AskConservative, PredictNothing, ScheduleResources, PC
  <1>3. FrameHolds(c)' /\ call[c].pc \notin Judging /\ call'[c].pc \notin Judging
    BY <1>1, <1>2 DEF FrameHolds, Judging, Counting, Acting
  <1>4. outstanding' \subseteq Checkpoint /\ \A k \in outstanding' : k <= nckpts
    <2>1. \A k \in outstanding : k <= nckpts
      BY OutstandingMade
    <2>2. ScheduleResources(c) => call[c].ckpt \in 1..nckpts /\ 1..nckpts \subseteq Checkpoint
      BY DetectorConstants DEF Frames, FrameHolds, ScheduleResources, At, Checkpoint
    <2> QED BY <2>1, <2>2 DEF AskConservative, PredictNothing, ScheduleResources
  <1> QED BY <1>2, <1>3, <1>4, LocalStep DEF AskConservative, PredictNothing, ScheduleResources

LEMMA ToolFiresIInv ==
  ASSUME IInv, NEW c \in Thread, NEW t \in Tool, ToolFires(c, t)
  PROVE  IInv' /\ RecordedKept
  <1> USE DEF IInv, Typed
  <1> DEFINE f == Frame("select", step, t, 0)
  <1>1. f \in CallRecord /\ f.pc = "select" /\ f.tool = t
    <2>1. "select" \in PC /\ t \in Tool \cup {None} /\ 0 \in 0..MaxCheckpoints
      BY DetectorConstants DEF PC
    <2> QED BY <2>1, FrameType
  <1>2. /\ call' \in [Thread -> CallRecord] /\ call'[c] = f
        /\ \A d \in Thread : d # c => call'[d] = call[d]
    BY <1>1, CallNew DEF ToolFires
  <1>3. FrameHolds(c)' /\ call[c].pc \notin Judging /\ call'[c].pc \notin Judging
    BY <1>1, <1>2 DEF FrameHolds, Judging, Counting, Acting, ToolFires, At
  <1> QED BY <1>2, <1>3, OutstandingMade, LocalStep DEF ToolFires

\* Acting on a divergence.
LEMMA ActIInv ==
  ASSUME IInv, NEW c \in Thread, CancelPrefetches(c) \/ EnterConservative(c)
  PROVE  IInv' /\ RecordedKept
  <1> USE DEF IInv, Typed
  <1>1. call[c].pc \in Acting
    BY DEF CancelPrefetches, EnterConservative, At, Acting
  <1>2. /\ call' \in [Thread -> CallRecord]
        /\ \A d \in Thread : d # c => call'[d] = call[d]
        /\ \/ call'[c].pc = "idle"
           \/ call'[c].pc = "conserve" /\ call'[c].ckpt = call[c].ckpt /\ call'[c].step = call[c].step
    BY CallReturn, CallGoto DEF CancelPrefetches, EnterConservative, PC
  <1>3. FrameHolds(c)'
    BY <1>1, <1>2 DEF Frames, FrameHolds, Judging, Counting, Acting, CancelPrefetches,
                      EnterConservative, storeVars, historyVars
  <1>4. call[c].pc \notin Judging /\ call'[c].pc \notin Judging
    BY <1>1, <1>2 DEF Judging, Counting, Acting
  <1>5. outstanding' \subseteq Checkpoint /\ \A k \in outstanding' : k <= nckpts
    BY OutstandingMade DEF CancelPrefetches, EnterConservative
  <1>6. until' \in 0..(MaxStep + ConservativeSteps)
    BY CallFields, DetectorConstants DEF CancelPrefetches, EnterConservative
  <1> QED BY <1>2, <1>3, <1>4, <1>5, <1>6, LocalStep DEF CancelPrefetches, EnterConservative

\* A new checkpoint: what is known of the others does not change.
LEMMA OnPredictionIInv ==
  ASSUME IInv, NEW c \in Thread, NEW t \in Tool, NEW p \in Predictor, OnPrediction(c, t, p)
  PROVE  IInv' /\ RecordedKept
  <1> USE DEF IInv, Typed
  <1> DEFINE n == nckpts + 1
  <1>1. n \in Checkpoint /\ nckpts' = n /\ n \in 0..MaxCheckpoints
    BY DetectorConstants DEF OnPrediction, Checkpoint
  <1>2. \A k \in Checkpoint : k # n => (k > nckpts' <=> k > nckpts) /\ (k <= nckpts' <=> k <= nckpts)
    BY <1>1, DetectorConstants DEF Checkpoint
  <1>3. /\ n = nckpts + 1
        /\ madeAt' = [madeAt EXCEPT ![n] = call[c].step]
        /\ predicted' = [predicted EXCEPT ![n] = t]
        /\ by' = [by EXCEPT ![n] = p]
        /\ status' = [status EXCEPT ![n] = "pending"]
        /\ queue' = queue \cup {n}
        /\ UNCHANGED <<ablated, step, until, accuracyVars, outstanding, historyVars>>
    BY DEF OnPrediction
  <1>4. status[n] = "none" /\ n \notin queue /\ ~Judged(n) /\ n \notin outstanding
    BY <1>1, DetectorConstants DEF Numbered, Checkpoint
  <1> HIDE DEF n
  <1>5. /\ call' \in [Thread -> CallRecord] /\ call'[c].pc = "schedule" /\ call'[c].ckpt = n
        /\ \A d \in Thread : d # c => call'[d] = call[d]
    <2> DEFINE g == Frame("schedule", call[c].step, None, n)
    <2>1. "schedule" \in PC /\ None \in Tool \cup {None} /\ call[c].step \in 0..MaxStep
      BY CallFields DEF PC
    <2>2. g \in CallRecord /\ g.pc = "schedule" /\ g.ckpt = n
      BY <1>1, <2>1 DEF Frame, CallRecord
    <2>3. call' = [call EXCEPT ![c] = g]
      BY DEF OnPrediction, n
    <2> HIDE DEF g
    <2> QED BY <2>2, <2>3, CallNew
  <1>6. call[c].pc \notin Judging /\ call'[c].pc \notin Judging
    BY <1>5 DEF OnPrediction, At, Judging, Counting
  <1>7. Typed'
    BY <1>1, <1>3, <1>5, CallFields DEF accuracyVars, historyVars
  <1>8. Numbered' /\ QueueOpen'
    BY <1>1, <1>2, <1>3, <1>4, DetectorConstants
       DEF Numbered, QueueOpen, Judged, historyVars, Checkpoint
  <1>9. \A k \in Checkpoint : /\ Held(k, Judging)' <=> Held(k, Judging)
                              /\ Held(k, Counting)' <=> Held(k, Counting)
    BY <1>5, <1>6, HeldSame DEF Judging
  <1>10. JudgedWell'
    BY <1>3, <1>4, <1>9 DEF JudgedWell, Judged, Matches, Hit, Verdict, historyVars
  <1>11. Frames'
    <2>1. ASSUME NEW d \in Thread, d # c
          PROVE  FrameHolds(d)'
      <3>1. call'[d] = call[d] /\ FrameHolds(d)
        BY <1>5, <2>1 DEF Frames
      <3>2. call[d].ckpt \in 1..nckpts => /\ call[d].ckpt \in 1..nckpts' /\ call[d].ckpt \in Checkpoint
                                          /\ call[d].ckpt # n
        <4>1. nckpts \in Nat /\ n = nckpts + 1 /\ nckpts' = n /\ n <= MaxCheckpoints /\ MaxCheckpoints \in Nat
          BY <1>1, <1>3, DetectorConstants DEF Checkpoint
        <4> HIDE DEF n
        <4> QED BY <4>1 DEF Checkpoint
      <3>3. \A k \in Checkpoint : k # n => status'[k] = status[k]
        BY <1>3
      <3> QED BY <1>3, <3>1, <3>2, <3>3 DEF FrameHolds, Judged, historyVars
    <2>2. FrameHolds(c)'
      BY <1>1, <1>5, DetectorConstants DEF FrameHolds, Judging, Counting, Acting, Checkpoint
    <2> QED BY <2>1, <2>2 DEF Frames
  <1>12. Exclusive'
    BY <1>5, <1>6 DEF Exclusive
  <1>15. RecordedKept
    BY <1>3, <1>4, <1>9 DEF RecordedKept, RecordedHits, RecordedMisses, Recorded, Judged,
       Hit, historyVars
  <1>13. CountsBounded'
    BY <1>3, <1>15 DEF RecordedKept, CountsBounded, accuracyVars
  <1>14. OldestFirst'
    <2> SUFFICES ASSUME NEW j \in Checkpoint, NEW k \in Checkpoint, j < k,
                        (madeAt[j] <= madeAt[k])', (predicted[j] = predicted[k])',
                        (judgedBy[k] # None)'
                 PROVE  j \notin queue'
      BY DEF OldestFirst
    <2>1. k # n /\ judgedBy[k] # None
      BY <1>3, <1>4 DEF Judged, historyVars
    <2>2. k <= nckpts
      BY <2>1, DetectorConstants DEF Numbered, Judged, Checkpoint
    <2>3. j # n
      BY <1>3, <2>2, DetectorConstants DEF Checkpoint
    <2>4. j \notin queue
      BY <1>3, <2>1, <2>3 DEF OldestFirst
    <2> QED BY <1>3, <2>3, <2>4
  <1> QED BY <1>7, <1>8, <1>10, <1>11, <1>12, <1>13, <1>14, <1>15

\* The thread takes the oldest prediction its tool matches, or none.
LEMMA SelectIInv ==
  ASSUME IInv, NEW c \in Thread, Select(c)
  PROVE  IInv' /\ RecordedKept
  <1> USE DEF IInv, Typed
  <1> DEFINE s == call[c].step
             t == call[c].tool
             fresh == Fresh(s)
             matched == Matched(fresh, s, t)
  <1>1. t \in Tool /\ t # None /\ s \in 0..MaxStep /\ call[c].pc = "select"
    BY CallFields, DetectorConstants DEF Select, At, Frames, FrameHolds
  <1>2. /\ fresh \subseteq queue
        /\ \A j \in fresh : status[j] = "pending" /\ s - madeAt[j] <= MaxAge
        /\ \A j \in queue : status[j] = "pending" /\ s - madeAt[j] <= MaxAge => j \in fresh
    BY DEF Fresh
  <1>3. \A j \in fresh : j \in matched <=> madeAt[j] < s /\ Matches(j, t)
    BY DEF Matched
  <1>4. matched \subseteq fresh
    BY DEF Matched
  <1>5. UNCHANGED <<ablated, step, storeVars, until, accuracyVars, outstanding>>
    BY DEF Select
  <1> HIDE DEF fresh, matched
  <1>6. CASE matched = {}
    <2>1. queue' = fresh /\ Return(c) /\ UNCHANGED historyVars
      BY <1>6 DEF Select, fresh, matched
    <2>2. /\ call' \in [Thread -> CallRecord] /\ call'[c].pc = "idle"
          /\ \A d \in Thread : d # c => call'[d] = call[d]
      BY <2>1, CallReturn
    <2>3. call[c].pc \notin Judging /\ call'[c].pc \notin Judging
      BY <1>1, <2>2 DEF Judging, Counting
    <2>4. \A j \in Checkpoint : /\ Held(j, Judging)' <=> Held(j, Judging)
                                /\ Held(j, Counting)' <=> Held(j, Counting)
      BY <2>2, <2>3, HeldSame DEF Judging
    <2>5. Typed'
      BY <1>2, <1>5, <2>1, <2>2 DEF storeVars, accuracyVars, historyVars
    <2>6. Numbered' /\ QueueOpen' /\ OldestFirst'
      BY <1>2, <1>5, <2>1
         DEF Numbered, QueueOpen, OldestFirst, Judged, storeVars, historyVars
    <2>7. JudgedWell'
      BY <1>5, <2>1, <2>4 DEF JudgedWell, Judged, Matches, Hit, Verdict, storeVars, historyVars
    <2>8. Frames'
      BY <1>5, <2>1, <2>2 DEF Frames, FrameHolds, Judged, Judging, Counting, Acting, storeVars, historyVars
    <2>9. Exclusive'
      BY <2>2, <2>3 DEF Exclusive
    <2>11. RecordedKept
      BY <1>5, <2>1, <2>4 DEF RecordedKept, RecordedHits, RecordedMisses, Recorded, Judged,
         Hit, storeVars, historyVars
    <2>10. CountsBounded'
      BY <1>5, <2>11 DEF RecordedKept, CountsBounded, accuracyVars
    <2> QED BY <2>5, <2>6, <2>7, <2>8, <2>9, <2>10, <2>11
  <1>7. CASE matched # {}
    <2>1. PICK k \in Checkpoint : /\ k = Oldest(matched) /\ k \in matched
                                  /\ \A j \in matched : k <= j
      BY <1>2, <1>4, <1>7, OldestIsLeast
    <2>2. /\ k \in Checkpoint /\ k \in fresh /\ k \in queue /\ ~Judged(k) /\ status[k] = "pending"
          /\ madeAt[k] < s /\ s - madeAt[k] <= MaxAge /\ Matches(k, t)
      BY <1>2, <1>3, <1>4, <2>1 DEF QueueOpen
    <2>3. k <= nckpts /\ k \in 1..nckpts
      BY <2>2, DetectorConstants DEF Numbered, Checkpoint
    <2>4. /\ queue' = fresh \ {k}
          /\ call' = [call EXCEPT ![c].pc = "tally", ![c].ckpt = k]
          /\ judgedBy' = [judgedBy EXCEPT ![k] = t]
          /\ judgedAt' = [judgedAt EXCEPT ![k] = s]
      BY <1>7, <2>1 DEF Select, Taken, fresh, matched
    <2>5. /\ call' \in [Thread -> CallRecord] /\ call'[c].pc = "tally" /\ call'[c].step = s
          /\ call'[c].tool = t /\ call'[c].ckpt = k
          /\ \A d \in Thread : d # c => call'[d] = call[d]
      BY <2>2, <2>4, CallTake
    <2>6. \A d \in Thread : call[d].pc \in Judging => call[d].ckpt # k
      BY <2>2 DEF Frames, FrameHolds
    <2>7. \A j \in Checkpoint : j # k => /\ Held(j, Judging)' <=> Held(j, Judging)
                                         /\ Held(j, Counting)' <=> Held(j, Counting)
      BY <1>1, <2>5 DEF Held, Holds, Judging, Counting
    <2>8. Held(k, Judging)' /\ Held(k, Counting)'
      BY <2>5 DEF Held, Holds, Judging, Counting
    <2>9. Typed'
      BY <1>1, <1>2, <1>5, <2>2, <2>4, <2>5 DEF storeVars, accuracyVars
    <2>10. Numbered' /\ QueueOpen'
      BY <1>2, <1>5, <2>2, <2>3, <2>4 DEF Numbered, QueueOpen, Judged, storeVars
    <2>11. JudgedWell'
      BY <1>1, <1>5, <2>2, <2>4, <2>7, <2>8
         DEF JudgedWell, Judged, Matches, Hit, Verdict, storeVars
    <2>12. Frames'
      <3>1. \A d \in Thread : d # c => FrameHolds(d)'
        BY <1>5, <2>2, <2>4, <2>5, <2>6
           DEF Frames, FrameHolds, Judged, Judging, Counting, Acting, storeVars
      <3>2. FrameHolds(c)'
        BY <1>1, <1>5, <2>2, <2>3, <2>4, <2>5
           DEF FrameHolds, Judged, Judging, Counting, Acting, storeVars
      <3> QED BY <3>1, <3>2 DEF Frames
    <2>13. Exclusive'
      BY <2>5, <2>6 DEF Exclusive
    <2>16. RecordedKept
      BY <1>5, <2>2, <2>4, <2>7, <2>8 DEF RecordedKept, RecordedHits, RecordedMisses,
         Recorded, Judged, Hit, storeVars
    <2>14. CountsBounded'
      BY <1>5, <2>16 DEF RecordedKept, CountsBounded, accuracyVars
    <2>15. OldestFirst'
      <3> SUFFICES ASSUME NEW i \in Checkpoint, NEW j \in Checkpoint, i < j,
                          madeAt[i] <= madeAt[j], predicted[i] = predicted[j],
                          judgedBy'[j] # None
                   PROVE  i \notin queue'
        BY <1>5 DEF OldestFirst, storeVars
      <3>1. CASE j # k
        BY <1>2, <2>4, <3>1 DEF OldestFirst
      <3>2. CASE j = k
        <4>1. i \in fresh => i \in matched
          <5>1. Matches(i, t)
            BY <2>2, <3>2 DEF Matches, Hit
          <5>2. madeAt[i] \in 0..MaxStep /\ madeAt[k] \in 0..MaxStep
            OBVIOUS
          <5>3. madeAt[i] < s
            BY <1>1, <2>2, <3>2, <5>2, DetectorConstants
          <5> QED BY <1>3, <5>1, <5>3
        <4>2. i \notin fresh
          BY <2>1, <3>2, <4>1, DetectorConstants DEF Checkpoint
        <4> QED BY <2>4, <4>2
      <3> QED BY <3>1, <3>2
    <2> QED BY <2>9, <2>10, <2>11, <2>12, <2>13, <2>14, <2>15, <2>16
  <1> QED BY <1>6, <1>7

\* The thread that compares holds its checkpoint alone.
LEMMA InHand ==
  ASSUME IInv, NEW c \in Thread, call[c].pc \in Judging
  PROVE  LET k == call[c].ckpt
         IN  /\ k \in Checkpoint /\ k \in 1..nckpts
             /\ status[k] = "pending" /\ Judged(k) /\ judgedBy[k] = call[c].tool
             /\ judgedAt[k] = call[c].step /\ by[k] \in Predictor
             /\ \A d \in Thread : d # c /\ call[d].pc \in Judging => call[d].ckpt # k
  <1>1. FrameHolds(c)
    BY DEF IInv, Frames
  <1>2. call[c].ckpt \in Checkpoint /\ call[c].ckpt \in 1..nckpts
    BY <1>1, DetectorConstants DEF FrameHolds, IInv, Typed, Checkpoint
  <1>3. by[call[c].ckpt] \in Predictor
    BY <1>2, DetectorConstants DEF IInv, Typed, Numbered, Checkpoint
  <1> QED BY <1>1, <1>2, <1>3 DEF FrameHolds, IInv, Exclusive

\* Counting a comparison records it: count and recorded set grow together.
LEMMA RecordCounts ==
  ASSUME IInv, NEW c \in Thread, Record(c), NEW p \in Predictor
  PROVE  \/ /\ hits'[p] = hits[p] /\ misses'[p] = misses[p]
            /\ RecordedHits(p)' = RecordedHits(p) /\ RecordedMisses(p)' = RecordedMisses(p)
         \/ /\ hits'[p] = hits[p] + 1 /\ misses'[p] = misses[p]
            /\ Cardinality(RecordedHits(p)') = Cardinality(RecordedHits(p)) + 1
            /\ RecordedMisses(p)' = RecordedMisses(p)
         \/ /\ hits'[p] = hits[p] /\ misses'[p] = misses[p] + 1
            /\ RecordedHits(p)' = RecordedHits(p)
            /\ Cardinality(RecordedMisses(p)') = Cardinality(RecordedMisses(p)) + 1
  <1> USE DEF IInv, Typed
  <1>1. call[c].pc = "record" /\ call[c].pc \in Counting /\ call[c].pc \in Judging
    BY DEF Record, At, Judging, Counting
  <1>2. PICK k \in Checkpoint : k = call[c].ckpt
    BY <1>1, InHand
  <1>3. /\ judgedBy[k] = call[c].tool /\ Judged(k) /\ by[k] \in Predictor
        /\ \A d \in Thread : d # c /\ call[d].pc \in Judging => call[d].ckpt # k
    BY <1>1, <1>2, InHand
  <1>4. /\ call'[c].pc = "resolve" /\ call'[c].ckpt = k
        /\ \A d \in Thread : d # c => call'[d] = call[d]
    BY <1>2, CallGoto DEF Record, PC
  <1>5. UNCHANGED <<storeVars, historyVars>>
    BY DEF Record
  <1>6. \A j \in Checkpoint : j # k => (Held(j, Counting)' <=> Held(j, Counting))
    BY <1>2, <1>4 DEF Held, Holds, Counting
  <1>7. ~Held(k, Counting)' /\ Held(k, Counting)
    BY <1>1, <1>2, <1>3, <1>4 DEF Held, Holds, Judging, Counting
  <1>8. k \notin RecordedHits(p) /\ k \notin RecordedMisses(p)
    BY <1>7 DEF RecordedHits, RecordedMisses, Recorded
  <1>9. /\ Cardinality(RecordedHits(p) \cup {k}) = Cardinality(RecordedHits(p)) + 1
        /\ Cardinality(RecordedMisses(p) \cup {k}) = Cardinality(RecordedMisses(p)) + 1
    BY <1>8, RecordedTypes, CountOneMore
  <1>10. CASE by[k] # p
    <2>1. RecordedHits(p)' = RecordedHits(p) /\ RecordedMisses(p)' = RecordedMisses(p)
      BY <1>5, <1>6, <1>10
         DEF RecordedHits, RecordedMisses, Recorded, Judged, Hit, storeVars, historyVars
    <2>2. hits'[p] = hits[p] /\ misses'[p] = misses[p]
      BY <1>2, <1>3, <1>10 DEF Record
    <2> QED BY <2>1, <2>2
  <1>11. CASE by[k] = p /\ Hit(k, judgedBy[k])
    <2>1. RecordedHits(p)' = RecordedHits(p) \cup {k} /\ RecordedMisses(p)' = RecordedMisses(p)
      BY <1>3, <1>5, <1>6, <1>7, <1>11
         DEF RecordedHits, RecordedMisses, Recorded, Judged, Hit, storeVars, historyVars
    <2>2. hits'[p] = hits[p] + 1 /\ misses'[p] = misses[p]
      BY <1>2, <1>3, <1>11 DEF Record
    <2> QED BY <1>9, <2>1, <2>2
  <1>12. CASE by[k] = p /\ ~Hit(k, judgedBy[k])
    <2>1. RecordedMisses(p)' = RecordedMisses(p) \cup {k} /\ RecordedHits(p)' = RecordedHits(p)
      BY <1>3, <1>5, <1>6, <1>7, <1>12
         DEF RecordedHits, RecordedMisses, Recorded, Judged, Hit, storeVars, historyVars
    <2>2. hits'[p] = hits[p] /\ misses'[p] = misses[p] + 1
      BY <1>2, <1>3, <1>12 DEF Record
    <2> QED BY <1>9, <2>1, <2>2
  <1> QED BY <1>10, <1>11, <1>12

\* The comparison is counted by the predictor's tracker, which is made first
\* when the thread found none; the comparison in hand is not recorded before.
LEMMA TrackerIInv ==
  ASSUME IInv, NEW c \in Thread, Tally(c) \/ CreateTracker(c) \/ Record(c)
  PROVE  IInv' /\ (~Record(c) => RecordedKept)
  <1> USE DEF IInv, Typed
  <1>1. call[c].pc \in Counting /\ call[c].pc \in Judging
    BY DEF Tally, CreateTracker, Record, At, Judging, Counting
  <1>2. PICK k \in Checkpoint : k = call[c].ckpt
    BY <1>1, InHand
  <1>3. /\ k \in 1..nckpts /\ status[k] = "pending" /\ Judged(k) /\ judgedBy[k] = call[c].tool
        /\ judgedAt[k] = call[c].step
    BY <1>1, <1>2, InHand
  <1>4. by[k] \in Predictor
    BY <1>1, <1>2, InHand
  <1>5. /\ call' \in [Thread -> CallRecord]
        /\ call'[c].pc \in Judging /\ (~Record(c) => call'[c].pc \in Counting)
        /\ (Record(c) => call'[c].pc = "resolve")
        /\ call'[c].step = call[c].step /\ call'[c].tool = call[c].tool /\ call'[c].ckpt = k
        /\ \A d \in Thread : d # c => call'[d] = call[d]
    <2>1. {"create", "record", "resolve"} \subseteq PC
      BY DEF PC
    <2> QED BY <1>2, <2>1, CallGoto DEF Tally, CreateTracker, Record, Judging, Counting, At
  <1>6. /\ UNCHANGED <<ablated, step, storeVars, queue, until, outstanding, historyVars>>
        /\ known' \subseteq Predictor
        /\ hits' \in [Predictor -> Nat] /\ misses' \in [Predictor -> Nat]
    BY <1>2, <1>4 DEF Tally, CreateTracker, Record, accuracyVars
  <1>7. Typed' /\ Numbered' /\ QueueOpen' /\ OldestFirst'
    BY <1>5, <1>6 DEF Numbered, QueueOpen, OldestFirst, Judged, storeVars, historyVars
  <1>8. \A j \in Checkpoint : Held(j, Judging)' <=> Held(j, Judging)
    BY <1>1, <1>2, <1>5, HeldKept
  <1>9. JudgedWell'
    BY <1>6, <1>8 DEF JudgedWell, Judged, Matches, Hit, Verdict, storeVars, historyVars
  <1>10. Frames'
    <2>1. FrameHolds(c)'
      BY <1>3, <1>5, <1>6
         DEF FrameHolds, Judged, Judging, Counting, Acting, storeVars, historyVars
    <2>2. \A d \in Thread : d # c => FrameHolds(d)'
      BY <1>5, <1>6 DEF Frames, FrameHolds, Judged, storeVars, historyVars
    <2> QED BY <2>1, <2>2 DEF Frames
  <1>11. Exclusive'
    BY <1>1, <1>2, <1>5 DEF Exclusive
  <1>12. ASSUME ~Record(c)
         PROVE  RecordedKept
    <2>1. \A j \in Checkpoint : Held(j, Counting)' <=> Held(j, Counting)
      BY <1>1, <1>2, <1>5, <1>12, HeldKept
    <2> QED BY <1>6, <2>1
            DEF RecordedKept, RecordedHits, RecordedMisses, Recorded, Judged, Hit, storeVars, historyVars
  <1>13. CountsBounded'
    <2> SUFFICES ASSUME NEW p \in Predictor
                 PROVE  /\ hits'[p] <= Cardinality(RecordedHits(p)')
                        /\ misses'[p] <= Cardinality(RecordedMisses(p)')
      BY DEF CountsBounded
    <2>1. /\ hits[p] <= Cardinality(RecordedHits(p)) /\ misses[p] <= Cardinality(RecordedMisses(p))
          /\ hits[p] \in Nat /\ misses[p] \in Nat
      BY DEF CountsBounded
    <2>2. Cardinality(RecordedHits(p)) \in Nat /\ Cardinality(RecordedMisses(p)) \in Nat
      BY RecordedTypes, DetectorConstants
    <2> HIDE DEF IInv, Typed
    <2>3. CASE ~Record(c)
      <3>1. RecordedHits(p)' = RecordedHits(p) /\ RecordedMisses(p)' = RecordedMisses(p)
        BY <1>12, <2>3 DEF RecordedKept
      <3>2. hits'[p] \in {0, hits[p]} /\ misses'[p] \in {0, misses[p]}
        BY <2>3 DEF Tally, CreateTracker, accuracyVars, IInv, Typed
      <3> QED BY <2>1, <2>2, <3>1, <3>2
    <2>4. CASE Record(c)
      BY <2>1, <2>2, <2>4, RecordCounts
    <2> QED BY <2>3, <2>4
  <1> QED BY <1>7, <1>9, <1>10, <1>11, <1>12, <1>13

\* The verdict that is stored is the one the tool deserves.
LEMMA ResolveIInv ==
  ASSUME IInv, NEW c \in Thread, Resolve(c)
  PROVE  IInv' /\ RecordedKept
  <1> USE DEF IInv, Typed
  <1>1. call[c].pc = "resolve" /\ call[c].pc \in Judging
    BY DEF Resolve, At, Judging
  <1>2. PICK k \in Checkpoint : k = call[c].ckpt
    BY <1>1, InHand
  <1>3. /\ k \in 1..nckpts /\ status[k] = "pending" /\ Judged(k) /\ judgedBy[k] = call[c].tool
        /\ judgedAt[k] = call[c].step
    BY <1>1, <1>2, InHand
  <1>4. /\ status' = [status EXCEPT ![k] = Verdict(Hit(k, judgedBy[k]))]
        /\ UNCHANGED <<ablated, step, nckpts, madeAt, predicted, by, queue, until, accuracyVars,
                       outstanding, historyVars>>
    BY <1>2, <1>3 DEF Resolve
  <1>5. /\ call' \in [Thread -> CallRecord]
        /\ \A d \in Thread : d # c => call'[d] = call[d]
        /\ \/ call'[c].pc = "idle"
           \/ /\ call'[c].pc = "cancel" /\ call'[c].ckpt = k /\ call'[c].step = call[c].step
              /\ ~ablated /\ ~Hit(k, judgedBy[k])
    <2>1. CASE Return(c)
      BY <2>1, CallReturn
    <2>2. CASE Goto(c, "cancel") /\ ~Hit(k, judgedBy[k]) /\ Acts
      <3>1. "cancel" \in PC
        BY DEF PC
      <3> QED BY <1>2, <2>2, <3>1, CallGoto DEF Acts
    <2> QED BY <1>2, <1>3, <2>1, <2>2 DEF Resolve
  <1>6. call'[c].pc \notin Judging
    BY <1>5 DEF Judging, Counting
  <1>7. Verdict(Hit(k, judgedBy[k])) \in {"validated", "diverged"}
    BY DEF Verdict
  <1>8. Typed' /\ Numbered' /\ QueueOpen' /\ OldestFirst'
    BY <1>3, <1>4, <1>5, <1>7, DetectorConstants
       DEF Numbered, QueueOpen, OldestFirst, Judged, accuracyVars, historyVars, Checkpoint
  <1>9. \A j \in Checkpoint : j # k => (Held(j, Judging)' <=> Held(j, Judging))
    BY <1>2, <1>5, <1>6 DEF Held, Holds
  <1>10. \A j \in Checkpoint : Held(j, Counting)' <=> Held(j, Counting)
    BY <1>1, <1>5, <1>6, HeldSame DEF Judging, Counting
  <1>11. JudgedWell'
    BY <1>3, <1>4, <1>9 DEF JudgedWell, Judged, Matches, Hit, Verdict, historyVars
  <1>12. \A d \in Thread : d # c /\ call[d].pc \in Judging => call[d].ckpt # k
    BY <1>1, <1>2 DEF Exclusive
  <1>13. Frames'
    <2>1. FrameHolds(c)'
      <3>1. CASE call'[c].pc = "idle"
        BY <3>1 DEF FrameHolds, Judging, Counting, Acting
      <3>2. CASE call'[c].pc = "cancel"
        <4>1. call'[c].pc \in Acting /\ call'[c].pc \notin Judging \cup {"select", "schedule"}
          BY <3>2 DEF Judging, Counting, Acting
        <4>2. status'[k] = "diverged" /\ judgedAt'[k] = call'[c].step /\ ~ablated' /\ k \in 1..nckpts'
          BY <1>3, <1>4, <1>5, <3>2 DEF Verdict, historyVars
        <4> QED BY <1>5, <3>2, <4>1, <4>2 DEF FrameHolds
      <3> QED BY <1>5, <3>1, <3>2
    <2>2. ASSUME NEW d \in Thread, d # c
          PROVE  FrameHolds(d)'
      <3>1. call'[d] = call[d] /\ FrameHolds(d)
        BY <1>5, <2>2 DEF Frames
      <3>2. call[d].pc \in Judging \cup Acting => call[d].ckpt # k /\ call[d].ckpt \in Checkpoint
        BY <1>3, <1>12, <2>2, <3>1, DetectorConstants DEF FrameHolds, Checkpoint
      <3> QED BY <1>4, <3>1, <3>2 DEF FrameHolds, Judged, historyVars
    <2> QED BY <2>1, <2>2 DEF Frames
  <1>14. Exclusive'
    BY <1>5, <1>6 DEF Exclusive
  <1>16. RecordedKept
    BY <1>4, <1>10 DEF RecordedKept, RecordedHits, RecordedMisses, Recorded, Judged, Hit,
       historyVars
  <1>15. CountsBounded'
    BY <1>4, <1>16 DEF RecordedKept, CountsBounded, accuracyVars
  <1> QED BY <1>8, <1>11, <1>13, <1>14, <1>15, <1>16

LEMMA StutterIInv == IInv /\ UNCHANGED vars => IInv'
  <1> SUFFICES ASSUME IInv, UNCHANGED vars
               PROVE  IInv'
    OBVIOUS
  <1> USE DEF vars, storeVars, accuracyVars, historyVars
  <1>1. Typed' /\ Numbered' /\ QueueOpen' /\ OldestFirst' /\ Exclusive'
    BY DEF IInv, Typed, Numbered, QueueOpen, OldestFirst, Exclusive, Judged
  <1>2. JudgedWell' /\ Frames'
    BY DEF IInv, JudgedWell, Frames, FrameHolds, Judged, Matches, Hit, Verdict, Held, Holds
  <1>3. CountsBounded'
    BY DEF IInv, CountsBounded, RecordedHits, RecordedMisses, Recorded, Judged, Hit, Held, Holds
  <1> QED BY <1>1, <1>2, <1>3 DEF IInv

LEMMA NextIInv == IInv /\ [Next]_vars => IInv'
  <1> SUFFICES ASSUME IInv, [Next]_vars
               PROVE  IInv'
    OBVIOUS
  <1>1. CASE Next
    BY <1>1, RespondIInv, IdleStepsIInv, OnPredictionIInv, ToolFiresIInv, SelectIInv, TrackerIInv,
       ResolveIInv, ActIInv DEF Next
  <1> QED BY <1>1, StutterIInv

\* Every reachable state of the guard satisfies the inductive invariant.
THEOREM Inductive == Spec => []IInv
  <1> QED BY InitIInv, NextIInv, PTL DEF Spec

-------------------------------------------------------------------------------
(* Theorems for every number of conversations.                             *)

LEMMA SoundVerdicts == IInv => VerdictSound
  <1> SUFFICES ASSUME IInv
               PROVE  VerdictSound
    OBVIOUS
  <1> USE DEF IInv
  <1>1. TypeOK
    <2> SUFFICES ASSUME NEW p \in Predictor
                 PROVE  hits[p] \in 0..MaxCheckpoints /\ misses[p] \in 0..MaxCheckpoints
      BY DEF Typed, TypeOK, CallRecord
    <2>1. hits[p] \in Nat /\ misses[p] \in Nat
      BY DEF Typed
    <2> QED BY <2>1, RecordedTypes, DetectorConstants DEF CountsBounded
  <1>2. VerdictOfItsTool
    BY DetectorConstants DEF VerdictOfItsTool, JudgedWell, Judged, Matches, Hit, Verdict
  <1>3. SettledLater /\ SettledInWindow
    BY DEF SettledLater, SettledInWindow, JudgedWell, Judged
  <1> QED BY <1>1, <1>2, <1>3 DEF VerdictSound

\* The verdicts of the guard, for every number of conversations whose hooks
\* interleave: a prediction is settled only by the tool it names or one that
\* continues its name, in a later step, within the age window, and the stored
\* verdict is the one of that tool (detector.py:119-189).
THEOREM Verdicts == Spec => []VerdictSound
  <1> QED BY Inductive, SoundVerdicts, PTL

\* Of two predictions of the same tool that are queued, the older is settled
\* first (detector.py:134-158, matched[0]).
THEOREM OldestSettledFirst == Spec => []OldestFirst
  <1>1. IInv => OldestFirst
    BY DEF IInv
  <1> QED BY <1>1, Inductive, PTL

\* A step judges no checkpoint that was judged before: it was in the queue.
LEMMA JudgedStays ==
  ASSUME IInv, [Next]_vars, NEW k \in Checkpoint, judgedBy[k] # None
  PROVE  judgedBy'[k] = judgedBy[k] /\ judgedAt'[k] = judgedAt[k]
  <1>1. CASE UNCHANGED historyVars
    BY <1>1 DEF historyVars
  <1>2. ASSUME NEW c \in Thread, Select(c)
        PROVE  judgedBy'[k] = judgedBy[k] /\ judgedAt'[k] = judgedAt[k]
    <2> DEFINE s == call[c].step
               matched == Matched(Fresh(s), s, call[c].tool)
    <2>1. CASE matched = {}
      BY <1>1, <1>2, <2>1 DEF Select
    <2>2. CASE matched # {}
      <3>1. matched \subseteq queue /\ matched \in SUBSET Checkpoint
        BY DEF Matched, Fresh, IInv, Typed
      <3> HIDE DEF matched
      <3>2. Oldest(matched) \in queue
        BY <2>2, <3>1, OldestIsLeast
      <3>3. Oldest(matched) # k
        BY <3>2 DEF IInv, QueueOpen, Judged
      <3>4. /\ judgedBy' = [judgedBy EXCEPT ![Oldest(matched)] = call[c].tool]
            /\ judgedAt' = [judgedAt EXCEPT ![Oldest(matched)] = s]
        BY <1>2, <2>2 DEF Select, matched
      <3> QED BY <3>3, <3>4 DEF IInv, Typed
    <2> QED BY <2>1, <2>2
  <1> QED BY <1>1, <1>2
          DEF Next, vars, Respond, AskConservative, PredictNothing, OnPrediction, ScheduleResources,
              ToolFires, Tally, CreateTracker, Record, Resolve, CancelPrefetches, EnterConservative

\* A prediction is compared with one tool only, however many threads fire tools
\* at the same time: _lock covers the selection (detector.py:119-158).
THEOREM ComparedOnce == Spec => JudgedOnce
  <1>1. IInv /\ [Next]_vars =>
            [\A k \in Checkpoint : judgedBy[k] # None =>
                judgedBy'[k] = judgedBy[k] /\ judgedAt'[k] = judgedAt[k]]_vars
    BY JudgedStays
  <1> QED BY <1>1, Inductive, PTL DEF Spec, JudgedOnce

\* disable_divergence_cancellation leaves prefetches in flight alone and never
\* enters the conservative window (config.py:47-48).
THEOREM AblationIsInert == Spec => AblationInert
  <1>1. IInv /\ [Next]_vars => [ablated => outstanding \subseteq outstanding' /\ until' = until]_vars
    <2> SUFFICES ASSUME IInv, Next, ablated
                 PROVE  outstanding \subseteq outstanding' /\ until' = until
      OBVIOUS
    <2>1. \A c \in Thread : call[c].pc \notin Acting
      BY DEF IInv, Frames, FrameHolds
    <2>2. \A c \in Thread : ~CancelPrefetches(c) /\ ~EnterConservative(c)
      BY <2>1 DEF CancelPrefetches, EnterConservative, At, Acting
    <2> QED BY <2>2
            DEF Next, Respond, AskConservative, PredictNothing, OnPrediction, ScheduleResources,
                ToolFires, Select, Tally, CreateTracker, Record, Resolve
  <1> QED BY <1>1, Inductive, PTL DEF Spec, AblationInert

-------------------------------------------------------------------------------
(* One conversation.                                                       *)

Serial == \A c, d \in Thread : c = d

\* The steps of checkpoints and calls are steps of the run; the one call that
\* runs is about the current step.
StepsPassed ==
    /\ \A k \in Checkpoint : madeAt[k] <= step /\ judgedAt[k] <= step
    /\ \A c \in Thread : call[c].pc # "idle" => call[c].step = step

\* The counts are exact, and a predictor without a tracker has none.
CountsExact ==
    \A p \in Predictor : /\ hits[p] = Cardinality(RecordedHits(p))
                         /\ misses[p] = Cardinality(RecordedMisses(p))
                         /\ p \notin known => hits[p] = 0 /\ misses[p] = 0

\* A tracker is made when there is none, and counts when there is one.
TrackersKnown ==
    \A c \in Thread : /\ call[c].pc = "create" => by[call[c].ckpt] \notin known
                      /\ call[c].pc = "record" => by[call[c].ckpt] \in known

\* The conservative window has been entered for every divergence but one that
\* is being acted on, and a prediction is made outside it.
Silenced ==
    /\ ~ablated => \A k \in Checkpoint :
            status[k] = "diverged" /\ ~Held(k, Acting) => judgedAt[k] + ConservativeSteps <= until
    /\ \A c \in Thread : call[c].pc = "predict" => until < call[c].step

\* Prefetches of a diverged checkpoint are outstanding only until the call
\* cancels them; a call schedules for a checkpoint that is still pending.
Released ==
    /\ ~ablated => \A k \in outstanding : status[k] = "diverged" => Held(k, {"cancel"})
    /\ \A c \in Thread : call[c].pc = "schedule" => status[call[c].ckpt] = "pending"

SerialInv == StepsPassed /\ CountsExact /\ TrackersKnown /\ Silenced /\ Released /\ ConservativeWindow


\* What the thread holds is all that is held.
LEMMA OnlyThread ==
  ASSUME Serial, NEW CONSTANT c \in Thread, NEW CONSTANT k, NEW CONSTANT pcs
  PROVE  Held(k, pcs) <=> Holds(c, k, pcs)
  BY DEF Serial, Held

LEMMA InitSerialInv ==
  ASSUME Init
  PROVE  SerialInv
  <1>1. IInv
    BY InitIInv
  <1>2. \A c \in Thread : call[c].pc = "idle"
    BY IdleType DEF Init
  <1>3. StepsPassed /\ Silenced /\ Released /\ ConservativeWindow
    BY <1>2 DEF Init, StepsPassed, Silenced, Released, ConservativeWindow
  <1>4. CountsExact
    <2>1. ASSUME NEW p \in Predictor
          PROVE  RecordedHits(p) = {} /\ RecordedMisses(p) = {} /\ hits[p] = 0 /\ misses[p] = 0
      BY DEF Init, RecordedHits, RecordedMisses, Recorded, Judged
    <2> QED BY <2>1, FS_EmptySet DEF CountsExact
  <1>5. TrackersKnown
    BY <1>2 DEF TrackersKnown
  <1> QED BY <1>3, <1>4, <1>5 DEF SerialInv

\* A step that neither makes nor judges a prediction.
LEMMA SerialLocal ==
  ASSUME Serial, IInv, SerialInv, NEW c \in Thread, RecordedKept,
         UNCHANGED <<ablated, storeVars, accuracyVars, historyVars>>,
         step' \in 0..MaxStep, step <= step',
         call'[c].pc # "idle" => call'[c].step = step',
         call'[c].pc \notin {"create", "record"},
         call'[c].pc = "predict" => until' < call'[c].step,
         call'[c].pc # "schedule",
         ~ablated => \A k \in Checkpoint :
            status[k] = "diverged" /\ ~Holds(c, k, Acting)' => judgedAt[k] + ConservativeSteps <= until',
         ~ablated => \A k \in outstanding' : status[k] = "diverged" => Holds(c, k, {"cancel"})'
  PROVE  SerialInv'
  <1> USE DEF storeVars, accuracyVars, historyVars
  <1>1. \A d \in Thread : d = c
    BY DEF Serial
  <1>2. StepsPassed'
    <2>1. \A k \in Checkpoint : madeAt[k] \in Nat /\ judgedAt[k] \in Nat /\ step \in Nat
      BY DetectorConstants DEF IInv, Typed
    <2>2. \A k \in Checkpoint : madeAt[k] <= step' /\ judgedAt[k] <= step'
      BY <2>1, DetectorConstants DEF SerialInv, StepsPassed
    <2> QED BY <1>1, <2>2 DEF StepsPassed
  <1>3. CountsExact' /\ TrackersKnown'
    BY <1>1 DEF SerialInv, CountsExact, TrackersKnown, RecordedKept
  <1>4. Silenced'
    BY <1>1, OnlyThread DEF Silenced, Held
  <1>5. Released'
    BY <1>1 DEF Released, Held
  <1>6. ConservativeWindow'
    BY DEF SerialInv, ConservativeWindow
  <1> QED BY <1>2, <1>3, <1>4, <1>5, <1>6 DEF SerialInv

\* Responses, and tools about to run.
LEMMA BeginSerialInv ==
  ASSUME Serial, IInv, SerialInv, NEW c \in Thread,
         Respond(c) \/ \E t \in Tool : ToolFires(c, t)
  PROVE  SerialInv'
  <1> USE DEF IInv, Typed
  <1>1. call[c].pc = "idle" /\ call \in [Thread -> CallRecord]
    BY DEF Respond, ToolFires, At
  <1>2. RecordedKept
    BY RespondIInv, ToolFiresIInv
  <1>3. \/ call'[c].pc = "idle"
        \/ call'[c].pc \in {"ask", "select"} /\ call'[c].step = step'
    BY <1>1 DEF Respond, ToolFires, Frame
  <1>4. step' \in 0..MaxStep /\ step <= step'
    BY DetectorConstants DEF Respond, ToolFires
  <1>5. UNCHANGED <<ablated, storeVars, accuracyVars, historyVars, until, outstanding>>
    BY DEF Respond, ToolFires
  <1>6. \A k : ~Holds(c, k, Acting) /\ ~Holds(c, k, {"cancel"})
    BY <1>1 DEF Holds, Acting
  <1>7. \A k \in Checkpoint : ~Held(k, Acting) /\ ~Held(k, {"cancel"})
    BY <1>6, OnlyThread
  <1>8. ~ablated => /\ \A k \in Checkpoint :
                          status[k] = "diverged" => judgedAt[k] + ConservativeSteps <= until'
                    /\ \A k \in outstanding' : status[k] # "diverged"
    BY <1>5, <1>7 DEF SerialInv, Silenced, Released
  <1> HIDE DEF IInv, Typed
  <1> QED BY <1>2, <1>3, <1>4, <1>5, <1>8, SerialLocal

\* The steps of a response's hook that make no prediction.
LEMMA HookSerialInv ==
  ASSUME Serial, IInv, SerialInv, NEW c \in Thread,
         AskConservative(c) \/ PredictNothing(c) \/ ScheduleResources(c)
  PROVE  SerialInv'
  <1> USE DEF IInv, Typed
  <1>1. call[c].pc \in {"ask", "predict", "schedule"} /\ call \in [Thread -> CallRecord]
    BY DEF AskConservative, PredictNothing, ScheduleResources, At
  <1>2. RecordedKept
    BY IdleStepsIInv
  <1>3. UNCHANGED <<ablated, step, storeVars, accuracyVars, historyVars, until>>
    BY DEF AskConservative, PredictNothing, ScheduleResources
  <1>4. \/ call'[c].pc = "idle"
        \/ call'[c].pc = "predict" /\ call'[c].step = step' /\ until' < call'[c].step
    <2>1. CASE Return(c)
      BY <1>1, <2>1, CallReturn
    <2>2. CASE Goto(c, "predict") /\ ~Conservative(call[c].step)
      <3>1. call'[c].pc = "predict" /\ call'[c].step = call[c].step
        BY <1>1, <2>2, CallGoto DEF PC
      <3>2. call[c].step = step /\ call[c].step \in Nat /\ until \in Nat
        BY <1>1, CallFields, DetectorConstants DEF SerialInv, StepsPassed
      <3> QED BY <1>3, <2>2, <3>1, <3>2 DEF Conservative
    <2> QED BY <2>1, <2>2 DEF AskConservative, PredictNothing, ScheduleResources
  <1>5. \A k : ~Holds(c, k, Acting) /\ ~Holds(c, k, {"cancel"})
    BY <1>1 DEF Holds, Acting
  <1>6. \A k \in Checkpoint : ~Held(k, Acting) /\ ~Held(k, {"cancel"})
    BY <1>5, OnlyThread
  <1>7. \A k \in outstanding' : k \in outstanding \/ status[k] = "pending"
    BY DEF AskConservative, PredictNothing, ScheduleResources, At, SerialInv, Released
  <1>8. ~ablated => /\ \A k \in Checkpoint :
                          status[k] = "diverged" => judgedAt[k] + ConservativeSteps <= until'
                    /\ \A k \in outstanding' : status[k] # "diverged"
    BY <1>3, <1>6, <1>7 DEF SerialInv, Silenced, Released
  <1>9. step' \in 0..MaxStep /\ step <= step'
    BY <1>3, DetectorConstants
  <1> HIDE DEF IInv, Typed
  <1> QED BY <1>2, <1>3, <1>4, <1>8, <1>9, SerialLocal

\* Acting on a divergence: cancelled, then silent.
LEMMA ActSerialInv ==
  ASSUME Serial, IInv, SerialInv, NEW c \in Thread, CancelPrefetches(c) \/ EnterConservative(c)
  PROVE  SerialInv'
  <1> USE DEF IInv, Typed
  <1>1. call[c].pc \in Acting /\ call \in [Thread -> CallRecord] /\ step \in 0..MaxStep
        /\ call[c].step = step
    BY DEF CancelPrefetches, EnterConservative, At, Acting, SerialInv, StepsPassed
  <1>2. RecordedKept
    BY ActIInv
  <1>3. UNCHANGED <<ablated, step, storeVars, accuracyVars, historyVars>>
    BY DEF CancelPrefetches, EnterConservative
  <1>4. CASE CancelPrefetches(c)
    <2>1. /\ call[c].pc = "cancel" /\ call'[c].pc = "conserve" /\ call'[c].ckpt = call[c].ckpt
          /\ call'[c].step = call[c].step
      BY <1>1, <1>4, CallGoto DEF CancelPrefetches, At, PC
    <2>2. UNCHANGED until /\ outstanding' = outstanding \ {call[c].ckpt}
      BY <1>4 DEF CancelPrefetches
    <2>3. \A k \in Checkpoint : /\ Held(k, Acting) <=> k = call[c].ckpt
                                /\ Held(k, {"cancel"}) <=> k = call[c].ckpt
      BY <2>1, OnlyThread DEF Holds, Acting
    <2>4. \A k : Holds(c, k, Acting)' <=> k = call[c].ckpt
      BY <2>1 DEF Holds, Acting
    <2>5. ~ablated => \A k \in Checkpoint :
            status[k] = "diverged" /\ ~Holds(c, k, Acting)' => judgedAt[k] + ConservativeSteps <= until'
      BY <2>2, <2>3, <2>4 DEF SerialInv, Silenced
    <2>6. ~ablated => \A k \in outstanding' : status[k] # "diverged"
      BY <2>2, <2>3 DEF SerialInv, Released
    <2>7. step' \in 0..MaxStep /\ step <= step'
      BY <1>1, <1>3, DetectorConstants
    <2> HIDE DEF IInv, Typed
    <2> QED BY <1>1, <1>2, <1>3, <2>1, <2>5, <2>6, <2>7, SerialLocal
  <1>5. CASE EnterConservative(c)
    <2>1. call[c].pc = "conserve" /\ call'[c].pc = "idle"
      BY <1>1, <1>5, CallReturn DEF EnterConservative, At
    <2>2. until' = step + ConservativeSteps /\ UNCHANGED outstanding
      BY <1>1, <1>5 DEF EnterConservative
    <2>3. \A k \in Checkpoint : ~Held(k, {"cancel"})
      BY <2>1, OnlyThread DEF Holds
    <2>4. \A k \in Checkpoint : judgedAt[k] + ConservativeSteps <= until'
      <3>1. \A k \in Checkpoint : judgedAt[k] <= step /\ judgedAt[k] \in 0..MaxStep
        BY DEF SerialInv, StepsPassed
      <3> QED BY <1>1, <2>2, <3>1, DetectorConstants
    <2>5. ~ablated => \A k \in outstanding' : status[k] # "diverged"
      BY <2>2, <2>3 DEF SerialInv, Released
    <2>6. step' \in 0..MaxStep /\ step <= step'
      BY <1>1, <1>3, DetectorConstants
    <2> HIDE DEF IInv, Typed
    <2> QED BY <1>2, <1>3, <2>1, <2>4, <2>5, <2>6, SerialLocal
  <1> QED BY <1>4, <1>5

\* A prediction is made outside every conservative window.
LEMMA PredictSerialInv ==
  ASSUME Serial, IInv, SerialInv, NEW c \in Thread, NEW t \in Tool, NEW p \in Predictor,
         OnPrediction(c, t, p)
  PROVE  SerialInv'
  <1> USE DEF IInv, Typed
  <1>1. \A d \in Thread : d = c
    BY DEF Serial
  <1>2. PICK n \in Checkpoint : n = nckpts + 1
    BY DetectorConstants DEF OnPrediction, Checkpoint
  <1>3. /\ madeAt' = [madeAt EXCEPT ![n] = call[c].step]
        /\ status' = [status EXCEPT ![n] = "pending"]
        /\ UNCHANGED <<ablated, step, until, accuracyVars, outstanding, historyVars>>
    BY <1>2 DEF OnPrediction
  <1>4. /\ status[n] = "none" /\ ~Judged(n) /\ n \notin outstanding
    BY <1>2, DetectorConstants DEF Numbered, Checkpoint
  <1>5. call[c].pc = "predict" /\ call[c].step = step /\ until < step
    BY DEF OnPrediction, At, SerialInv, StepsPassed, Silenced
  <1>6. call'[c].pc = "schedule" /\ call'[c].step = step /\ call'[c].ckpt = n
    BY <1>2, <1>5 DEF OnPrediction, Frame
  <1>7. \A k \in Checkpoint : /\ ~Held(k, Acting) /\ ~Held(k, {"cancel"})
                              /\ ~Held(k, Acting)'
    <2>1. \A k : ~Holds(c, k, Acting) /\ ~Holds(c, k, {"cancel"}) /\ ~Holds(c, k, Acting)'
      BY <1>5, <1>6 DEF Holds, Acting
    <2> QED BY <1>1, <2>1 DEF Held
  <1>8. StepsPassed'
    BY <1>1, <1>3, <1>5, <1>6 DEF SerialInv, StepsPassed, historyVars
  <1>9. CountsExact'
    <2>1. RecordedKept
      BY OnPredictionIInv
    <2> QED BY <1>3, <2>1 DEF SerialInv, CountsExact, RecordedKept, accuracyVars
  <1>10. Silenced'
    BY <1>1, <1>3, <1>4, <1>6, <1>7 DEF SerialInv, Silenced, historyVars
  <1>11. Released'
    BY <1>1, <1>3, <1>4, <1>6, <1>7 DEF SerialInv, Released
  <1>12. ConservativeWindow'
    <2>1. ~ablated => \A k \in Checkpoint :
            status[k] = "diverged" => judgedAt[k] + ConservativeSteps < step
      <3>1. \A k \in Checkpoint : judgedAt[k] \in Nat /\ until \in Nat /\ step \in Nat
        BY DetectorConstants
      <3> QED BY <1>5, <1>7, <3>1, DetectorConstants DEF SerialInv, Silenced
    <2>2. ~ablated => \A k \in Checkpoint :
            status[k] = "diverged" =>
                step \notin (judgedAt[k] + 1)..(judgedAt[k] + ConservativeSteps)
      BY <2>1, DetectorConstants
    <2>3. \A k \in Checkpoint : status'[k] = "diverged" => status[k] = "diverged"
      BY <1>3
    <2>4. \A j \in Checkpoint : madeAt'[j] = IF j = n THEN step ELSE madeAt[j]
      BY <1>3, <1>5
    <2> QED BY <1>3, <2>2, <2>3, <2>4 DEF SerialInv, ConservativeWindow, historyVars
  <1>13. TrackersKnown'
    BY <1>1, <1>6 DEF TrackersKnown
  <1> QED BY <1>8, <1>9, <1>10, <1>11, <1>12, <1>13 DEF SerialInv

\* Taking a prediction from the queue changes no verdict.
LEMMA SelectSerialInv ==
  ASSUME Serial, IInv, SerialInv, NEW c \in Thread, Select(c)
  PROVE  SerialInv'
  <1> USE DEF IInv, Typed
  <1>1. \A d \in Thread : d = c
    BY DEF Serial
  <1>2. call[c].pc = "select" /\ call[c].step = step /\ step \in 0..MaxStep
    BY DEF Select, At, SerialInv, StepsPassed
  <1>3. UNCHANGED <<ablated, step, storeVars, until, accuracyVars, outstanding>>
    BY DEF Select
  <1>4. RecordedKept
    BY SelectIInv
  <1>5. /\ call'[c].pc \in {"idle", "tally"} /\ (call'[c].pc = "tally" => call'[c].step = step)
        /\ \A k \in Checkpoint : judgedAt'[k] # judgedAt[k] => ~Judged(k) /\ judgedAt'[k] = step
    <2> DEFINE matched == Matched(Fresh(step), step, call[c].tool)
    <2>1. CASE matched = {}
      <3>1. Return(c) /\ UNCHANGED historyVars
        BY <1>2, <2>1 DEF Select
      <3> QED BY <3>1, CallReturn DEF historyVars
    <2>2. CASE matched # {}
      <3>1. matched \subseteq queue /\ matched \in SUBSET Checkpoint
        BY DEF Matched, Fresh
      <3>2. PICK k \in Checkpoint : k = Oldest(matched) /\ ~Judged(k)
        BY <2>2, <3>1, OldestIsLeast DEF QueueOpen
      <3>3. /\ call' = [call EXCEPT ![c].pc = "tally", ![c].ckpt = k]
            /\ judgedAt' = [judgedAt EXCEPT ![k] = step]
        BY <1>2, <2>2, <3>2 DEF Select
      <3>4. call'[c].pc = "tally" /\ call'[c].step = step
        BY <1>2, <3>3, CallTake
      <3> QED BY <3>2, <3>3, <3>4
    <2> QED BY <2>1, <2>2
  <1>6. \A k \in Checkpoint : status[k] = "diverged" => judgedAt'[k] = judgedAt[k]
    BY <1>5 DEF JudgedWell
  <1>7. \A k \in Checkpoint : /\ ~Held(k, Acting) /\ ~Held(k, {"cancel"})
    <2>1. \A k : ~Holds(c, k, Acting) /\ ~Holds(c, k, {"cancel"})
      BY <1>2 DEF Holds, Acting
    <2> QED BY <1>1, <2>1 DEF Held
  <1>8. StepsPassed'
    BY <1>1, <1>2, <1>3, <1>5, DetectorConstants DEF SerialInv, StepsPassed, storeVars
  <1>9. CountsExact' /\ TrackersKnown'
    BY <1>1, <1>3, <1>4, <1>5 DEF SerialInv, CountsExact, TrackersKnown, RecordedKept, accuracyVars
  <1>10. Silenced'
    BY <1>1, <1>3, <1>5, <1>6, <1>7 DEF SerialInv, Silenced, storeVars
  <1>11. Released'
    BY <1>1, <1>3, <1>5, <1>7 DEF SerialInv, Released, storeVars
  <1>12. ConservativeWindow'
    BY <1>3, <1>6 DEF SerialInv, ConservativeWindow, storeVars
  <1> QED BY <1>8, <1>9, <1>10, <1>11, <1>12 DEF SerialInv

\* The tracker counts exactly what is recorded: a new one is made only for a
\* predictor that has none.
LEMMA TrackerSerialInv ==
  ASSUME Serial, IInv, SerialInv, NEW c \in Thread, Tally(c) \/ CreateTracker(c) \/ Record(c)
  PROVE  SerialInv'
  <1> USE DEF IInv, Typed
  <1>1. \A d \in Thread : d = c
    BY DEF Serial
  <1>2. call[c].pc \in Counting /\ call[c].pc # "idle" /\ call[c].step = step
    BY DEF Tally, CreateTracker, Record, At, Counting, SerialInv, StepsPassed
  <1>3. UNCHANGED <<ablated, step, storeVars, until, outstanding, historyVars>>
    BY DEF Tally, CreateTracker, Record
  <1>4. /\ call'[c].pc \in {"create", "record", "resolve"}
        /\ call'[c].step = step /\ call'[c].ckpt = call[c].ckpt
        /\ call'[c].pc = "create" => Tally(c) /\ ~Tracked(c)
        /\ call'[c].pc = "record" => (Tally(c) /\ Tracked(c)) \/ CreateTracker(c)
    <2>1. {"create", "record", "resolve"} \subseteq PC
      BY DEF PC
    <2> QED BY <1>2, <2>1, CallGoto DEF Tally, CreateTracker, Record
  <1>5. \A k \in Checkpoint : ~Held(k, Acting) /\ ~Held(k, {"cancel"})
    <2>1. \A k : ~Holds(c, k, Acting) /\ ~Holds(c, k, {"cancel"})
      BY <1>2 DEF Holds, Acting, Counting
    <2> QED BY <1>1, <2>1 DEF Held
  <1>6. StepsPassed'
    BY <1>1, <1>3, <1>4 DEF SerialInv, StepsPassed, storeVars, historyVars
  <1>7. Silenced' /\ Released' /\ ConservativeWindow'
    BY <1>1, <1>3, <1>4, <1>5
       DEF SerialInv, Silenced, Released, ConservativeWindow, storeVars, historyVars
  <1>8. CountsExact'
    <2>1. ASSUME NEW p \in Predictor
          PROVE  /\ hits'[p] = Cardinality(RecordedHits(p)') /\ misses'[p] = Cardinality(RecordedMisses(p)')
                 /\ p \notin known' => hits'[p] = 0 /\ misses'[p] = 0
      <3>1. /\ hits[p] = Cardinality(RecordedHits(p)) /\ misses[p] = Cardinality(RecordedMisses(p))
            /\ p \notin known => hits[p] = 0 /\ misses[p] = 0
        BY DEF SerialInv, CountsExact
      <3>2. CASE Tally(c)
        <4>1. RecordedKept
          BY <3>2, TrackerIInv DEF Tally, Record, At
        <4> QED BY <3>1, <3>2, <4>1 DEF Tally, RecordedKept, accuracyVars
      <3>3. CASE CreateTracker(c)
        <4>1. RecordedKept
          BY <3>3, TrackerIInv DEF CreateTracker, Record, At
        <4>2. by[call[c].ckpt] \notin known
          BY <3>3 DEF CreateTracker, At, SerialInv, TrackersKnown
        <4>3. hits'[p] = hits[p] /\ misses'[p] = misses[p]
          BY <3>1, <3>3, <4>2 DEF CreateTracker
        <4> QED BY <3>1, <3>3, <4>1, <4>3 DEF CreateTracker, RecordedKept
      <3>4. CASE Record(c)
        <4>1. known' = known /\ (call[c].pc = "record")
          BY <3>4 DEF Record, At
        <4>2. p \notin known => hits'[p] = hits[p] /\ misses'[p] = misses[p]
          <5>1. by[call[c].ckpt] \in known
            BY <4>1 DEF SerialInv, TrackersKnown
          <5> QED BY <3>4, <5>1 DEF Record
        <4>3. hits'[p] = Cardinality(RecordedHits(p)') /\ misses'[p] = Cardinality(RecordedMisses(p)')
          <5> HIDE DEF IInv, Typed
          <5> QED BY <3>1, <3>4, RecordCounts
        <4> QED BY <3>1, <4>1, <4>2, <4>3
      <3> QED BY <3>2, <3>3, <3>4
    <2> QED BY <2>1 DEF CountsExact
  <1>9. TrackersKnown'
    BY <1>1, <1>3, <1>4 DEF TrackersKnown, Tally, CreateTracker, Tracked, accuracyVars, storeVars
  <1> QED BY <1>6, <1>7, <1>8, <1>9 DEF SerialInv

\* A divergence is stored by the only call there is, about the current step.
LEMMA ResolveSerialInv ==
  ASSUME Serial, IInv, SerialInv, NEW c \in Thread, Resolve(c)
  PROVE  SerialInv'
  <1> USE DEF IInv, Typed
  <1>1. \A d \in Thread : d = c
    BY DEF Serial
  <1>2. call[c].pc = "resolve" /\ call[c].pc \in Judging /\ call[c].step = step
    BY DEF Resolve, At, Judging, SerialInv, StepsPassed
  <1>3. PICK k \in Checkpoint : k = call[c].ckpt
    BY <1>2, InHand
  <1>4. /\ judgedAt[k] = step /\ status[k] = "pending" /\ judgedBy[k] = call[c].tool
    BY <1>2, <1>3, InHand
  <1>5. /\ status' = [status EXCEPT ![k] = Verdict(Hit(k, call[c].tool))]
        /\ UNCHANGED <<ablated, step, madeAt, by, until, accuracyVars, outstanding, historyVars>>
    BY <1>3 DEF Resolve
  <1>6. \/ call'[c].pc = "idle" /\ (~ablated => status'[k] # "diverged")
        \/ call'[c].pc = "cancel" /\ call'[c].step = step /\ call'[c].ckpt = k
    <2>1. CASE ~Hit(k, call[c].tool) /\ Acts
      <3>1. Goto(c, "cancel")
        BY <1>3, <2>1 DEF Resolve
      <3> QED BY <1>2, <1>3, <3>1, CallGoto DEF PC
    <2>2. CASE Hit(k, call[c].tool) \/ ~Acts
      <3>1. Return(c)
        BY <1>3, <2>2 DEF Resolve
      <3>2. ~ablated => status'[k] = "validated"
        BY <1>5, <2>2 DEF Acts, Verdict
      <3> QED BY <3>1, <3>2, CallReturn
    <2> QED BY <2>1, <2>2
  <1>7. \A j \in Checkpoint : ~Held(j, Acting) /\ ~Held(j, {"cancel"})
    <2>1. \A j : ~Holds(c, j, Acting) /\ ~Holds(c, j, {"cancel"})
      BY <1>2 DEF Holds, Acting
    <2> QED BY <1>1, <2>1 DEF Held
  <1>8. ~ablated /\ status'[k] = "diverged" => Held(k, Acting)' /\ Held(k, {"cancel"})'
    BY <1>5, <1>6 DEF Held, Holds, Acting
  <1>9. \A j \in Checkpoint : j # k => status'[j] = status[j]
    BY <1>5
  <1>10. StepsPassed'
    BY <1>1, <1>5, <1>6 DEF SerialInv, StepsPassed, historyVars
  <1>11. CountsExact'
    <2>1. RecordedKept
      BY ResolveIInv
    <2> QED BY <1>5, <2>1 DEF SerialInv, CountsExact, RecordedKept, accuracyVars
  <1>12. Silenced'
    BY <1>1, <1>5, <1>6, <1>7, <1>8, <1>9 DEF SerialInv, Silenced, historyVars
  <1>13. Released'
    BY <1>1, <1>5, <1>6, <1>7, <1>8, <1>9 DEF SerialInv, Released
  <1>14. ConservativeWindow'
    <2>1. \A j \in Checkpoint : madeAt[j] \in Nat /\ step \in Nat /\ madeAt[j] <= step
      BY DetectorConstants DEF SerialInv, StepsPassed
    <2>2. \A j \in Checkpoint : madeAt[j] \notin (judgedAt[k] + 1)..(judgedAt[k] + ConservativeSteps)
      BY <1>4, <2>1, DetectorConstants
    <2> QED BY <1>5, <1>9, <2>2 DEF SerialInv, ConservativeWindow, historyVars
  <1>15. TrackersKnown'
    BY <1>1, <1>6 DEF TrackersKnown
  <1> QED BY <1>10, <1>11, <1>12, <1>13, <1>14, <1>15 DEF SerialInv

LEMMA NextSerialInv ==
  ASSUME Serial, IInv, SerialInv, [Next]_vars
  PROVE  SerialInv'
  <1>1. CASE Next
    BY <1>1, BeginSerialInv, HookSerialInv, ActSerialInv, PredictSerialInv, SelectSerialInv,
       TrackerSerialInv, ResolveSerialInv DEF Next
  <1>2. CASE UNCHANGED vars
    <2> USE <1>2 DEF vars, storeVars, accuracyVars, historyVars
    <2>1. StepsPassed' /\ ConservativeWindow'
      BY DEF SerialInv, StepsPassed, ConservativeWindow
    <2>2. RecordedKept
      BY DEF RecordedKept, RecordedHits, RecordedMisses, Recorded, Judged, Hit, Held, Holds
    <2>4. CountsExact' /\ TrackersKnown'
      BY <2>2 DEF SerialInv, CountsExact, TrackersKnown, RecordedKept
    <2>3. Silenced' /\ Released'
      BY DEF SerialInv, Silenced, Released, Held, Holds
    <2> QED BY <2>1, <2>3, <2>4 DEF SerialInv
  <1> QED BY <1>1, <1>2

\* With one conversation, SerialInv holds as well.
THEOREM SerialInductive == Serial => (Spec => []SerialInv)
  <1> SUFFICES ASSUME Serial
               PROVE  Spec => []SerialInv
    OBVIOUS
  <1>1. IInv /\ SerialInv /\ [Next]_vars => SerialInv'
    BY NextSerialInv
  <1> QED BY <1>1, InitSerialInv, Inductive, PTL DEF Spec

LEMMA CountsWhenQuiet == IInv /\ CountsExact => EveryVerdictCounted
  <1> SUFFICES ASSUME IInv, CountsExact, Quiet, NEW p \in Predictor
               PROVE  /\ hits[p] = Cardinality({k \in Checkpoint : by[k] = p /\ status[k] = "validated"})
                      /\ misses[p] = Cardinality({k \in Checkpoint : by[k] = p /\ status[k] = "diverged"})
    BY DEF EveryVerdictCounted
  <1>1. \A k \in Checkpoint : ~Held(k, Judging) /\ ~Held(k, Counting)
    BY DEF Quiet, Held, Holds, Judging, Counting
  <1>2. RecordedHits(p) = {k \in Checkpoint : by[k] = p /\ status[k] = "validated"}
    BY <1>1 DEF RecordedHits, Recorded, IInv, JudgedWell, Verdict
  <1>3. RecordedMisses(p) = {k \in Checkpoint : by[k] = p /\ status[k] = "diverged"}
    BY <1>1 DEF RecordedMisses, Recorded, IInv, JudgedWell, Verdict
  <1> QED BY <1>2, <1>3 DEF CountsExact

\* With one conversation the accuracy the runs report is exact: whenever no
\* hook runs, every stored verdict has been counted once for its predictor.
THEOREM VerdictsCounted == Serial => (Spec => []EveryVerdictCounted)
  <1> SUFFICES ASSUME Serial
               PROVE  Spec => []EveryVerdictCounted
    OBVIOUS
  <1>1. IInv /\ SerialInv => EveryVerdictCounted
    BY CountsWhenQuiet DEF SerialInv
  <1> QED BY <1>1, Inductive, SerialInductive, PTL

\* With one conversation a divergence does what detector.py:176-211 says:
\* nothing is predicted for conservative_mode_steps, and when the hook has ended
\* no prefetch of the diverged checkpoint is outstanding.
THEOREM DivergencesAct == Serial => (Spec => []DivergenceActs)
  <1> SUFFICES ASSUME Serial
               PROVE  Spec => []DivergenceActs
    OBVIOUS
  <1>1. ASSUME SerialInv
        PROVE  DivergenceActs
    <2>1. DivergedReleased
      BY <1>1 DEF SerialInv, Released, DivergedReleased, Quiet, Held, Holds
    <2> QED BY <1>1, <2>1 DEF SerialInv, DivergenceActs
  <1> QED BY <1>1, SerialInductive, PTL

-------------------------------------------------------------------------------
(* AtomAgents: the hooks of the adapter upon the guard.                    *)

-------------------------------------------------------------------------------
(* The inductive invariant of the composition.                             *)

TaskStatus == {"pending", "used", "failed"} \cup Active \cup GivenUp

LoadPhase == {"none", "running", "settling", "ended"}

TaskRecord == [tool : Tool, ckpt : Checkpoint, status : TaskStatus, load : LoadPhase]

\* The stages in which a hook stamps, and in which it cancels.
Stamps == {"stamp", "consume", "mark"}
Sweeping == {"sweep", "sample", "stop", "discard", "waste"}

StagePhase == {"ready", "extract", "keep", "register", "start"} \cup Stamps \cup Sweeping

StageRecord == [at : StagePhase, step : 0..MaxStep,
                tools : Seq(Tool), todo : SUBSET Nat, found : Nat]

AATyped ==
    /\ plan \in 0..MaxStep /\ closedAt \in 0..MaxStep /\ windowOpen \in BOOLEAN
    /\ toolCalls \in Nat
    /\ msg \in [Thread -> Messages \cup {None}]
    /\ stage \in [Thread -> StageRecord]
    /\ task \in Seq(TaskRecord) /\ Len(task) <= MaxTasks
    /\ preloaded \in [Thread -> SUBSET Nat]

\* The tasks a hook refers to exist.
TasksExist ==
    \A c \in Thread : /\ stage[c].todo \subseteq DOMAIN task
                      /\ stage[c].found # 0 => stage[c].found \in DOMAIN task
                      /\ preloaded[c] \subseteq DOMAIN task

\* Every call of a tool has used up one message.
Unanswered == {c \in Thread : msg[c] # None}

CallsBounded == IsFiniteSet(Unanswered) /\ toolCalls + Cardinality(Unanswered) <= step

\* A plan that is kept, or about to be, is from the planning phase or from the
\* first responses.
PlanTimely ==
    /\ plan <= step /\ PlanFromPlanning
    /\ \A c \in Thread :
        /\ stage[c].step <= step
        /\ stage[c].at = "keep" /\ ~windowOpen =>
                stage[c].step <= closedAt \/ stage[c].step <= PlanHorizon

\* What a stage of a hook says of the guard's call and of the task at hand.
HookHolds(c, x) ==
    /\ x.at \in {"consume", "mark", "start", "sample", "stop", "discard", "waste"} => x.found # 0
    /\ x.at \in {"register", "start"} => call[c].pc = "schedule"
    /\ x.at \in Sweeping => call[c].pc = "cancel"
    /\ x.at = "start" => task[x.found].load = "none"
    /\ x.at \in {"discard", "waste"} => task[x.found].load = "ended"

\* A task is started by one hook only.
Hooks ==
    /\ \A c \in Thread : HookHolds(c, stage[c])
    /\ \A c, d \in Thread :
        stage[c].at = "start" /\ stage[d].at = "start" /\ stage[c].found = stage[d].found => c = d

\* How far the load of a task with a given status has come; the exceptions are
\* the tasks stamped early, cancelled before they were started, and cancelled
\* too late.
TaskHolds(k) ==
    LET x == task[k]
    IN  /\ x.status = "pending" => x.load = "none"
        /\ x.status = "in_progress" => x.load \in {"running", "settling"}
        /\ x.status \in {"completed", "failed", "wasted"} => x.load = "ended"
        /\ x.status = "used" => x.load = "ended" \/ k \in early
        /\ x.status = "cancelled" /\ x.load = "none" => k \in unstarted
        /\ x.status = "cancelled" /\ x.load = "settling" => k \in late

Loads == \A k \in DOMAIN task : TaskHolds(k)

\* A task that will not be loaded, whatever happens: its load sees that it was
\* cancelled, or has ended without it.
Caught(k) ==
    \/ task[k].status = "cancelled" /\ task[k].load \in {"running", "ended"}
    \/ task[k].status \in {"used", "failed", "wasted"} /\ task[k].load = "ended"

Escaped(k) == k \in orphan \cup unstarted \cup late \cup early

\* A cancellation in this stage still has to come to task k.
HandledBy(x, k) ==
    \/ x.at = "ready"
    \/ x.at \in Sweeping /\ k \in x.todo
    \/ x.at \in {"sample", "stop", "discard"} /\ x.found = k

BeingCancelled(k) ==
    \E c \in Thread : Holds(c, task[k].ckpt, {"cancel"}) /\ HandledBy(stage[c], k)

Settled(k) == Caught(k) \/ Escaped(k) \/ BeingCancelled(k)

\* A prefetch of a diverged checkpoint is caught, is about to be cancelled, or
\* escaped in one of the four ways.
Escapes ==
    ~ablated => \A k \in DOMAIN task : status[task[k].ckpt] = "diverged" => Settled(k)

\* The load of a preloaded task is over.
PreloadsLoaded == \A c \in Thread : \A k \in preloaded[c] : task[k].load = "ended"

\* The hook of a thread still has to come to task k.
StampedBy(x, k) ==
    \/ x.at \in Stamps /\ k \in x.todo
    \/ \E i \in DOMAIN x.tools : x.tools[i] = task[k].tool
    \/ x.at = "stamp" /\ x.found # 0 /\ task[x.found].tool = task[k].tool
    \/ x.at \in {"consume", "mark"} /\ x.found = k

ToStamp(c, k) == StampedBy(stage[c], k)

Predicting == {"ask", "predict", "schedule"}

\* The dedup asks for task k, and it is loaded.
Blocks(k) == task[k].status = "completed" /\ LatestOf(task[k].tool) = k

\* Until the hook of a response has come to them, its preloaded tasks may block
\* the next load; not afterwards.
Stamping ==
    \A c \in Thread : call[c].pc \in Predicting =>
        \A k \in preloaded[c] : Blocks(k) => ToStamp(c, k)

AAInv == /\ AATyped /\ TasksExist /\ CallsBounded /\ PlanTimely
         /\ Hooks /\ Loads /\ Escapes /\ PreloadsLoaded /\ Stamping

-------------------------------------------------------------------------------
(* Lemmas about the operators.                                             *)

\* A nonempty set of numbers up to n has a greatest element.
LEMMA GreatestElement ==
  ASSUME NEW n \in Nat, NEW S \in SUBSET (1..n), S # {}
  PROVE  \E k \in S : \A j \in S : j <= k
  <1> DEFINE T == {n - x : x \in S}
  <1>1. T \in SUBSET Nat /\ T # {}
    <2>1. \A x \in S : n - x \in Nat
      OBVIOUS
    <2> QED BY <2>1
  <1>2. PICK m \in T : \A j \in T : m <= j
    BY <1>1, LeastElement
  <1>3. PICK k \in S : m = n - k
    BY <1>2
  <1>4. \A j \in S : n - k <= n - j
    BY <1>2, <1>3
  <1>5. \A j \in S : j <= k
    BY <1>4
  <1> QED BY <1>5

\* LatestOf: the greatest number among the tasks of a resource.
LEMMA LatestOfTasks ==
  ASSUME task \in Seq(TaskRecord), NEW k \in DOMAIN task
  PROVE  LET l == LatestOf(task[k].tool)
         IN  /\ l \in DOMAIN task /\ l # 0 /\ task[l].tool = task[k].tool
             /\ \A j \in DOMAIN task : task[j].tool = task[k].tool => j <= l
  <1> DEFINE mine == {j \in DOMAIN task : task[j].tool = task[k].tool}
  <1>1. mine \in SUBSET (1..Len(task)) /\ mine # {} /\ Len(task) \in Nat
    OBVIOUS
  <1>2. PICK m \in mine : \A j \in mine : j <= m
    BY <1>1, GreatestElement
  <1>3. LatestOf(task[k].tool) = CHOOSE i \in mine : \A j \in mine : j <= i
    BY <1>1 DEF LatestOf
  <1>4. LatestOf(task[k].tool) \in mine /\ \A j \in mine : j <= LatestOf(task[k].tool)
    BY <1>2, <1>3
  <1> QED BY <1>1, <1>4

LEMMA TaskFields ==
  ASSUME task \in Seq(TaskRecord), NEW k \in DOMAIN task
  PROVE  /\ task[k] \in TaskRecord /\ task[k].tool \in Tool /\ task[k].ckpt \in Checkpoint
         /\ task[k].status \in TaskStatus /\ task[k].load \in LoadPhase
         /\ k \in Nat /\ k # 0 /\ k \in 1..Len(task)
  <1>1. task[k] \in TaskRecord /\ k \in 1..Len(task) /\ Len(task) \in Nat
    OBVIOUS
  <1>2. k \in Nat /\ k # 0
    BY <1>1
  <1> QED BY <1>1, <1>2 DEF TaskRecord

\* The calls of a message name tools.
LEMMA CallsType ==
  ASSUME NEW m \in Messages
  PROVE  Calls(m) \in Seq(Tool)
  <1>1. /\ m.structured \in Seq(Tool) /\ m.json \in Tool \cup {None}
        /\ m.python \in Seq(Tool \cup NotTools)
    BY AtomAgentsConstants
  <1>2. TextCall(m) \in Seq(Tool)
    <2> DEFINE calls == {i \in DOMAIN m.python : m.python[i] \notin NotTools}
    <2>1. CASE m.json # None
      BY <1>1, <2>1 DEF TextCall
    <2>2. CASE m.json = None /\ calls = {}
      BY <2>2 DEF TextCall
    <2>3. CASE m.json = None /\ calls # {}
      <3>1. calls \in SUBSET Nat
        BY <1>1
      <3> DEFINE f == CHOOSE i \in calls : \A j \in calls : i <= j
      <3>2. TextCall(m) = <<m.python[f]>>
        BY <2>3 DEF TextCall
      <3>3. \A i \in calls : m.python[i] \in Tool
        BY <1>1
      <3> HIDE DEF calls
      <3>4. f \in calls
        BY <2>3, <3>1, LeastElement
      <3> QED BY <3>2, <3>3, <3>4
    <2> QED BY <2>1, <2>2, <2>3
  <1> QED BY <1>1, <1>2 DEF Calls

LEMMA StageNew ==
  ASSUME stage \in [Thread -> StageRecord], NEW c \in Thread, NEW x \in StageRecord,
         stage' = [stage EXCEPT ![c] = x]
  PROVE  /\ stage' \in [Thread -> StageRecord]
         /\ stage'[c] = x
         /\ \A d \in Thread : d # c => stage'[d] = stage[d]
  BY DEF StageRecord

LEMMA StageFields ==
  ASSUME stage \in [Thread -> StageRecord], NEW c \in Thread
  PROVE  /\ stage[c].step \in 0..MaxStep /\ stage[c].tools \in Seq(Tool)
         /\ stage[c].todo \in SUBSET Nat /\ stage[c].found \in Nat
         /\ stage[c].at \in StagePhase
  BY DEF StageRecord

LEMMA StageTwice ==
  ASSUME stage \in [Thread -> StageRecord], NEW c \in Thread, NEW todo, NEW found,
         stage' = [stage EXCEPT ![c].todo = todo, ![c].found = found]
  PROVE  stage' = [stage EXCEPT ![c] = [stage[c] EXCEPT !.todo = todo, !.found = found]]
  BY DEF StageRecord

LEMMA StageType ==
  ASSUME NEW p \in StagePhase, NEW s \in 0..MaxStep,
         NEW ts \in Seq(Tool), NEW todo \in SUBSET Nat
  PROVE  LET x == Stage(p, s, ts, todo)
         IN  /\ x \in StageRecord /\ x.at = p /\ x.step = s /\ x.tools = ts
             /\ x.todo = todo /\ x.found = 0
  BY DEF Stage, StageRecord

LEMMA ReadyType ==
  /\ Ready \in StageRecord /\ Ready.at = "ready" /\ Ready.step = 0 /\ Ready.tools = <<>>
  /\ Ready.todo = {} /\ Ready.found = 0
  BY DetectorConstants DEF Ready, Stage, StageRecord, StagePhase

-------------------------------------------------------------------------------
(* The adapter uses the guard as DivergenceDetector specifies it.          *)

LEMMA GuardStep ==
  ASSUME AATyped, [AANext]_aaVars
  PROVE  [Next]_vars
  <1>1. ASSUME NEW c \in Thread, NEW m \in Messages, LlmResponds(c, m)
        PROVE  Next
    BY <1>1 DEF LlmResponds, Next
  <1>2. ASSUME NEW c \in Thread, ReplyHandler(c)
        PROVE  [Next]_vars
    <2> DEFINE t == Calls(msg[c])[1]
    <2>1. CASE Calls(msg[c]) = <<>>
      BY <1>2, <2>1 DEF ReplyHandler
    <2>2. CASE Calls(msg[c]) # <<>>
      <3>1. msg[c] \in Messages
        BY <1>2 DEF ReplyHandler, AATyped
      <3>2. t \in Tool
        BY <2>2, <3>1, CallsType
      <3>3. ToolFires(c, t)
        BY <1>2, <2>2 DEF ReplyHandler
      <3> QED BY <3>2, <3>3 DEF Next
    <2> QED BY <2>1, <2>2
  <1>3. ASSUME NEW c \in Thread,
               Deduplicate(c) \/ StartLoad(c) \/ CancelReturns(c) \/ DetectorStep(c)
        PROVE  [Next]_vars
    BY <1>3 DEF Deduplicate, StartLoad, CancelReturns, DetectorStep, Next
  <1>4. ASSUME NEW c \in Thread,
               \/ LookForPlan(c) \/ KeepPlan(c) \/ Snapshot(c) \/ LookAtTask(c)
               \/ FindLatest(c) \/ TestLatest(c) \/ StampLatest(c) \/ Register(c)
               \/ SnapshotToCancel(c) \/ SweepTask(c) \/ SampleCompleted(c)
               \/ ExecutorCancel(c) \/ ChargeWasted(c)
        PROVE  UNCHANGED vars
    BY <1>4 DEF LookForPlan, KeepPlan, Snapshot, LookAtTask, FindLatest, TestLatest, StampLatest,
                Register, SnapshotToCancel, SweepTask, SampleCompleted, ExecutorCancel, ChargeWasted
  <1>5. ASSUME NEW k \in DOMAIN task, LoadTests(k) \/ LoadCompletes(k) \/ LoadFails(k)
        PROVE  UNCHANGED vars
    BY <1>5 DEF LoadTests, LoadCompletes, LoadFails
  <1>6. CASE UNCHANGED aaVars
    BY <1>6 DEF aaVars
  <1> QED BY <1>1, <1>2, <1>3, <1>4, <1>5, <1>6 DEF AANext

LEMMA AAInitAAInv == AAInit => AAInv
  <1> SUFFICES ASSUME AAInit
               PROVE  AAInv
    OBVIOUS
  <1> USE DEF AAInit
  <1>1. AATyped
    BY ReadyType, DetectorConstants, AtomAgentsConstants DEF AATyped
  <1>2. TasksExist
    BY ReadyType DEF TasksExist
  <1>3. CallsBounded
    <2>1. Unanswered = {}
      BY DEF Unanswered
    <2> QED BY <2>1, FS_EmptySet DEF CallsBounded, Init
  <1>4. PlanTimely
    BY ReadyType DEF PlanTimely, PlanFromPlanning, Init
  <1>5. Loads /\ Escapes /\ PreloadsLoaded /\ Stamping
    BY DEF Loads, Escapes, PreloadsLoaded, Stamping
  <1>6. Hooks
    BY ReadyType DEF Hooks, HookHolds, Sweeping
  <1> QED BY <1>1, <1>2, <1>3, <1>4, <1>5, <1>6 DEF AAInv

-------------------------------------------------------------------------------
(* AAInv is an invariant.                                                  *)

\* A step of a hook before it calls the guard.
LEMMA StageStep ==
  ASSUME AAInv, NEW c \in Thread, NEW x \in StageRecord,
         stage' = [stage EXCEPT ![c] = x],
         x.todo \subseteq DOMAIN task, x.found # 0 => x.found \in DOMAIN task,
         x.step <= step, plan' \in 0..MaxStep, plan' <= step, PlanFromPlanning',
         x.at = "keep" /\ ~windowOpen => x.step <= closedAt \/ x.step <= PlanHorizon,
         HookHolds(c, x), x.at # "start",
         \A k \in preloaded[c] : Blocks(k) /\ ToStamp(c, k) => StampedBy(x, k),
         \A k \in DOMAIN task :
            Holds(c, task[k].ckpt, {"cancel"}) /\ HandledBy(stage[c], k) =>
                HandledBy(x, k) \/ Caught(k) \/ Escaped(k),
         UNCHANGED vars, UNCHANGED closedAt, UNCHANGED windowOpen, UNCHANGED toolCalls,
         UNCHANGED msg, UNCHANGED taskVars, UNCHANGED preloaded
  PROVE  AAInv'
  <1> USE DEF vars, taskVars, storeVars, AAInv
  <1>1. /\ stage' \in [Thread -> StageRecord] /\ stage'[c] = x
        /\ \A d \in Thread : d # c => stage'[d] = stage[d]
    BY StageNew DEF AATyped
  <1>2. AATyped'
    BY <1>1 DEF AATyped
  <1>3. TasksExist'
    BY <1>1 DEF TasksExist
  <1>4. CallsBounded'
    BY DEF CallsBounded, Unanswered
  <1>5. PlanTimely'
    BY <1>1 DEF PlanTimely
  <1>6. Loads' /\ PreloadsLoaded'
    BY DEF Loads, TaskHolds, PreloadsLoaded
  <1>7. Stamping'
    <2> SUFFICES ASSUME NEW d \in Thread, call[d].pc \in Predicting, NEW k \in preloaded[d], Blocks(k)'
                 PROVE  ToStamp(d, k)'
      BY DEF Stamping
    <2>1. Blocks(k)
      BY DEF Blocks, LatestOf
    <2>2. ToStamp(d, k)
      BY <2>1 DEF Stamping
    <2>3. StampedBy(x, k)' <=> StampedBy(x, k)
      BY DEF StampedBy
    <2>4. CASE d = c
      <3>1. StampedBy(x, k)
        BY <2>1, <2>2, <2>4
      <3> QED BY <1>1, <2>3, <2>4, <3>1 DEF ToStamp, StampedBy
    <2>5. CASE d # c
      BY <1>1, <2>2, <2>5 DEF ToStamp, StampedBy
    <2> QED BY <2>4, <2>5
  <1>8. Hooks'
    <2>1. \A d \in Thread : HookHolds(d, stage[d])' <=> HookHolds(d, stage'[d])
      BY DEF HookHolds
    <2>2. \A d \in Thread : HookHolds(d, stage'[d])
      BY <1>1 DEF Hooks
    <2> QED BY <1>1, <2>1, <2>2 DEF Hooks
  <1>9. Escapes'
    <2> SUFFICES ASSUME ~ablated, NEW k \in DOMAIN task, status[task[k].ckpt] = "diverged"
                 PROVE  Settled(k)'
      BY DEF Escapes
    <2>1. Settled(k)
      BY DEF Escapes
    <2>2. (Caught(k)' <=> Caught(k)) /\ (Escaped(k)' <=> Escaped(k))
      BY DEF Caught, Escaped
    <2>3. ASSUME NEW d \in Thread, Holds(d, task[k].ckpt, {"cancel"}), HandledBy(stage[d], k)
          PROVE  Settled(k)'
      <3>1. Holds(d, task[k].ckpt, {"cancel"})'
        BY <2>3 DEF Holds
      <3>2. HandledBy(stage'[d], k) \/ Caught(k) \/ Escaped(k)
        BY <1>1, <2>3
      <3> QED BY <2>2, <3>1, <3>2 DEF Settled, BeingCancelled, HandledBy
    <2> QED BY <2>1, <2>2, <2>3 DEF Settled, BeingCancelled
  <1> QED BY <1>2, <1>3, <1>4, <1>5, <1>6, <1>7, <1>8, <1>9

LEMMA PlanStepsAAInv ==
  ASSUME IInv, AAInv, NEW c \in Thread, LookForPlan(c) \/ KeepPlan(c)
  PROVE  AAInv'
  <1> USE DEF AAInv
  <1>1. /\ stage \in [Thread -> StageRecord] /\ plan \in 0..MaxStep /\ plan <= step
        /\ stage[c].step <= step /\ PlanFromPlanning
    BY DEF AATyped, PlanTimely
  <1>2. stage[c].todo \subseteq DOMAIN task /\ (stage[c].found # 0 => stage[c].found \in DOMAIN task)
    BY DEF TasksExist
  <1>3. stage[c] \in StageRecord /\ 0 \in 0..MaxStep /\ stage[c].step \in 0..MaxStep
    BY <1>1, StageFields, DetectorConstants
  <1> DEFINE keep == [stage[c] EXCEPT !.at = "keep"]
             stamp == [stage[c] EXCEPT !.at = "stamp", !.step = 0]
  <1>4. /\ keep \in StageRecord /\ keep.at = "keep" /\ keep.step = stage[c].step
        /\ keep.tools = stage[c].tools /\ keep.todo = stage[c].todo /\ keep.found = stage[c].found
    BY <1>3 DEF StageRecord, StagePhase
  <1>5. /\ stamp \in StageRecord /\ stamp.at = "stamp" /\ stamp.step = 0
        /\ stamp.tools = stage[c].tools /\ stamp.todo = stage[c].todo /\ stamp.found = stage[c].found
    BY <1>3 DEF StageRecord, StagePhase, Stamps
  <1>6. 0 <= step
    BY DetectorConstants DEF IInv, Typed
  <1> HIDE DEF keep, stamp
  <1>12. stage[c].at \in {"extract", "keep"}
    BY DEF LookForPlan, KeepPlan
  <1>11. \A k : ToStamp(c, k) => StampedBy(stamp, k) /\ StampedBy(keep, k)
    BY <1>4, <1>5, <1>12 DEF ToStamp, StampedBy, Stamps
  <1>13. \A k : ~HandledBy(stage[c], k)
    BY <1>12 DEF HandledBy, Sweeping
  <1>14. /\ HookHolds(c, keep) /\ HookHolds(c, stamp)
         /\ keep.at # "start" /\ stamp.at # "start" /\ stamp.at # "keep"
    BY <1>4, <1>5 DEF HookHolds, Sweeping
  <1>7. CASE LookForPlan(c) /\ stage' = [stage EXCEPT ![c] = keep]
    <2>1. Planning(c)
      <3>1. stage'[c].at = "keep"
        BY <1>1, <1>4, <1>7, StageNew
      <3>2. stage'[c].at # "keep" \/ Planning(c)
        BY <1>1, <1>3, <1>7 DEF LookForPlan, StageRecord
      <3> QED BY <3>1, <3>2
    <2>2. UNCHANGED <<vars, planVars, toolCalls, msg, taskVars, preloaded>>
      BY <1>7 DEF LookForPlan
    <2>3. ~windowOpen => stage[c].step <= PlanHorizon
      BY <2>1 DEF Planning
    <2>4. PlanFromPlanning' /\ UNCHANGED plan
      BY <1>1, <2>2 DEF PlanFromPlanning, planVars
    <2> QED BY <1>1, <1>2, <1>4, <1>7, <1>11, <1>13, <1>14, <2>2, <2>3, <2>4, StageStep DEF planVars
  <1>8. CASE LookForPlan(c) /\ stage' = [stage EXCEPT ![c] = stamp]
    <2>1. UNCHANGED <<vars, planVars, toolCalls, msg, taskVars, preloaded>>
      BY <1>8 DEF LookForPlan
    <2>2. PlanFromPlanning' /\ UNCHANGED plan
      BY <1>1, <2>1 DEF PlanFromPlanning, planVars
    <2> QED BY <1>1, <1>2, <1>5, <1>6, <1>8, <1>11, <1>13, <1>14, <2>1, <2>2, StageStep DEF planVars
  <1>9. CASE KeepPlan(c)
    <2>1. /\ stage' = [stage EXCEPT ![c] = stamp] /\ plan' = stage[c].step /\ stage[c].at = "keep"
          /\ UNCHANGED <<vars, windowOpen, closedAt, toolCalls, msg, taskVars, preloaded>>
      BY <1>9 DEF KeepPlan, stamp
    <2>2. PlanFromPlanning'
      <3>1. plan' # 0 /\ ~windowOpen' => stage[c].step <= closedAt \/ stage[c].step <= PlanHorizon
        BY <2>1 DEF PlanTimely
      <3> QED BY <2>1, <3>1 DEF PlanFromPlanning
    <2> QED BY <1>1, <1>2, <1>3, <1>5, <1>6, <1>11, <1>13, <1>14, <2>1, <2>2, StageStep
  <1>10. LookForPlan(c) => \/ stage' = [stage EXCEPT ![c] = keep]
                           \/ stage' = [stage EXCEPT ![c] = stamp]
    BY DEF LookForPlan, keep, stamp
  <1> QED BY <1>7, <1>8, <1>9, <1>10

\* all_tasks(), and one task of the snapshot.
LEMMA StampStepsAAInv ==
  ASSUME IInv, AAInv, NEW c \in Thread, Snapshot(c) \/ LookAtTask(c)
  PROVE  AAInv'
  <1> USE DEF AAInv
  <1> DEFINE s == stage[c]
  <1>1. /\ stage \in [Thread -> StageRecord] /\ s \in StageRecord /\ task \in Seq(TaskRecord)
        /\ plan \in 0..MaxStep /\ plan <= step /\ s.step <= step /\ PlanFromPlanning /\ step \in 0..MaxStep
        /\ s.todo \subseteq DOMAIN task /\ (s.found # 0 => s.found \in DOMAIN task)
        /\ s.tools \in Seq(Tool) /\ s.found \in Nat /\ DOMAIN task \subseteq Nat
        /\ preloaded[c] \subseteq DOMAIN task
    <2>1. stage \in [Thread -> StageRecord] /\ task \in Seq(TaskRecord)
      BY DEF AATyped
    <2>2. DOMAIN task \subseteq Nat
      BY <2>1
    <2>3. step \in 0..MaxStep
      BY DEF IInv, Typed
    <2> QED BY <2>1, <2>2, <2>3, StageFields DEF AATyped, PlanTimely, TasksExist
  <1>2. UNCHANGED <<vars, planVars, toolCalls, msg, taskVars, preloaded>>
    BY DEF Snapshot, LookAtTask
  <1>3. PlanFromPlanning'
    BY <1>1, <1>2 DEF PlanFromPlanning, planVars
  <1>7. stage[c].at = "stamp" /\ \A k : ~HandledBy(stage[c], k)
    BY DEF Snapshot, LookAtTask, HandledBy, Sweeping
  <1>4. CASE Snapshot(c) /\ s.tools = <<>>
    <2>1. stage' = [stage EXCEPT ![c] = Ready] /\ s.todo = {} /\ s.found = 0
      BY <1>4 DEF Snapshot
    <2>2. \A k : ~ToStamp(c, k)
      BY <1>4, <1>7, <2>1 DEF ToStamp, StampedBy
    <2>4. HookHolds(c, Ready) /\ Ready.at # "start"
      BY ReadyType DEF HookHolds, Sweeping
    <2>3. Ready.step <= step /\ Ready.todo \subseteq DOMAIN task
      BY <1>1, ReadyType, DetectorConstants
    <2> QED BY <1>1, <1>2, <1>3, <1>7, <2>1, <2>2, <2>3, <2>4, ReadyType, StageStep DEF planVars
  <1>5. CASE Snapshot(c) /\ s.tools # <<>>
    <2> DEFINE mine == {k \in DOMAIN task : task[k].tool = Head(s.tools)}
               x == [s EXCEPT !.tools = Tail(s.tools), !.todo = mine]
    <2>1. stage' = [stage EXCEPT ![c] = x] /\ s.todo = {} /\ s.found = 0 /\ s.at = "stamp"
      BY <1>5 DEF Snapshot
    <2>2. Tail(s.tools) \in Seq(Tool) /\ mine \in SUBSET Nat /\ mine \subseteq DOMAIN task
      BY <1>1, <1>5
    <2>3. /\ x \in StageRecord /\ x.tools = Tail(s.tools) /\ x.todo = mine /\ x.found = 0
          /\ x.at = "stamp" /\ x.step = s.step
      BY <1>1, <2>1, <2>2 DEF StageRecord
    <2>4. ASSUME NEW k \in preloaded[c], ToStamp(c, k)
          PROVE  StampedBy(x, k)
      <3>1. PICK i \in DOMAIN s.tools : s.tools[i] = task[k].tool
        BY <2>1, <2>4 DEF ToStamp, StampedBy
      <3>2. CASE i = 1
        <4>1. task[k].tool = Head(s.tools) /\ k \in DOMAIN task
          BY <1>1, <1>5, <2>4, <3>1, <3>2
        <4>2. k \in mine
          BY <4>1
        <4> QED BY <2>3, <4>2 DEF StampedBy, Stamps
      <3>3. CASE i # 1
        <4>1. i - 1 \in DOMAIN Tail(s.tools) /\ Tail(s.tools)[i - 1] = s.tools[i]
          BY <1>1, <1>5, <3>1, <3>3
        <4>2. i - 1 \in DOMAIN x.tools /\ x.tools[i - 1] = task[k].tool
          BY <2>3, <3>1, <4>1
        <4> QED BY <4>2 DEF StampedBy
      <3> QED BY <3>2, <3>3
    <2>5. HookHolds(c, x) /\ x.at # "start"
      BY <2>3 DEF HookHolds, Sweeping
    <2> HIDE DEF x, mine
    <2> QED BY <1>1, <1>2, <1>3, <1>7, <2>1, <2>2, <2>3, <2>4, <2>5, StageStep DEF planVars
  <1>6. CASE LookAtTask(c)
    <2> DEFINE k == CHOOSE i \in s.todo : \A j \in s.todo : i <= j
               f == IF Consumable(k) THEN k ELSE 0
               x == [s EXCEPT !.todo = s.todo \ {k}, !.found = f]
    <2>1. /\ stage' = [stage EXCEPT ![c].todo = s.todo \ {k}, ![c].found = f]
          /\ s.at = "stamp" /\ s.todo # {} /\ s.found = 0
      BY <1>6 DEF LookAtTask
    <2>2. stage' = [stage EXCEPT ![c] = x]
      <3> HIDE DEF k, f
      <3> QED BY <1>1, <2>1, StageTwice
    <2>3. k \in s.todo
      <3>1. s.todo \in SUBSET Nat
        BY <1>1
      <3> QED BY <2>1, <3>1, LeastElement
    <2> HIDE DEF k
    <2>4. k \in DOMAIN task /\ k \in Nat /\ f \in Nat /\ (f # 0 => f = k)
      BY <1>1, <2>3
    <2>5. /\ x \in StageRecord /\ x.tools = s.tools /\ x.todo = s.todo \ {k} /\ x.found = f
          /\ x.at = "stamp" /\ x.step = s.step
      BY <1>1, <2>1, <2>4 DEF StageRecord
    <2>6. ASSUME NEW i \in preloaded[c], Blocks(i), ToStamp(c, i)
          PROVE  StampedBy(x, i)
      <3>1. CASE i = k
        <4>1. f = k /\ k # 0
          BY <1>1, <2>4, <2>6, <3>1 DEF Consumable, Blocks
        <4> QED BY <2>5, <3>1, <4>1 DEF StampedBy
      <3>2. CASE i # k
        BY <2>1, <2>5, <2>6, <3>2 DEF ToStamp, StampedBy, Stamps
      <3> QED BY <3>1, <3>2
    <2>7. x.todo \subseteq DOMAIN task /\ (x.found # 0 => x.found \in DOMAIN task)
      BY <1>1, <2>4, <2>5
    <2>8. HookHolds(c, x) /\ x.at # "start"
      BY <2>5 DEF HookHolds, Sweeping
    <2> HIDE DEF x, f
    <2> QED BY <1>1, <1>2, <1>3, <1>7, <2>2, <2>5, <2>6, <2>7, <2>8, StageStep DEF planVars
  <1> QED BY <1>4, <1>5, <1>6

\* on_resource_consumed() finds the latest task of the resource and tests it.
LEMMA ConsumeStepsAAInv ==
  ASSUME IInv, AAInv, NEW c \in Thread, FindLatest(c) \/ TestLatest(c)
  PROVE  AAInv'
  <1> USE DEF AAInv
  <1> DEFINE s == stage[c]
             f == s.found
  <1>1. /\ stage \in [Thread -> StageRecord] /\ s \in StageRecord /\ task \in Seq(TaskRecord)
        /\ plan \in 0..MaxStep /\ plan <= step /\ s.step <= step /\ PlanFromPlanning
        /\ s.todo \subseteq DOMAIN task /\ f \in Nat
        /\ preloaded[c] \subseteq DOMAIN task
    BY StageFields DEF AATyped, PlanTimely, TasksExist
  <1>2. UNCHANGED <<vars, planVars, toolCalls, msg, taskVars, preloaded>>
    BY DEF FindLatest, TestLatest
  <1>3. PlanFromPlanning'
    BY <1>1, <1>2 DEF PlanFromPlanning, planVars
  <1>4. f # 0 /\ f \in DOMAIN task
    <2>1. f # 0
      BY DEF FindLatest, TestLatest, Hooks, HookHolds
    <2> QED BY <2>1 DEF TasksExist
  <1>5. stage[c].at \in {"stamp", "consume"} /\ \A k : ~HandledBy(stage[c], k)
    BY DEF FindLatest, TestLatest, HandledBy, Sweeping
  <1>6. CASE FindLatest(c)
    <2>1. PICK l \in DOMAIN task : l = LatestOf(task[f].tool) /\ l # 0
      BY <1>1, <1>4, LatestOfTasks
    <2> DEFINE x == [s EXCEPT !.at = "consume", !.found = l]
    <2>2. /\ x \in StageRecord /\ x.tools = s.tools /\ x.todo = s.todo /\ x.found = l
          /\ x.at = "consume" /\ x.step = s.step
      <3>1. l \in Nat /\ "consume" \in StagePhase
        BY <1>1, <2>1 DEF StagePhase, Stamps
      <3> QED BY <1>1, <3>1 DEF StageRecord
    <2>3. stage' = [stage EXCEPT ![c] = x] /\ s.at = "stamp"
      BY <1>6, <2>1 DEF FindLatest
    <2>4. ASSUME NEW k \in preloaded[c], Blocks(k), ToStamp(c, k)
          PROVE  StampedBy(x, k)
      <3>1. CASE task[f].tool = task[k].tool
        BY <2>1, <2>2, <2>4, <3>1 DEF StampedBy, Blocks
      <3>2. CASE task[f].tool # task[k].tool
        BY <2>2, <2>3, <2>4, <3>2 DEF ToStamp, StampedBy, Stamps
      <3> QED BY <3>1, <3>2
    <2>5. HookHolds(c, x)
      BY <2>1, <2>2 DEF HookHolds, Sweeping
    <2> HIDE DEF x
    <2> QED BY <1>1, <1>2, <1>3, <1>5, <2>1, <2>2, <2>3, <2>4, <2>5, StageStep DEF planVars
  <1>7. CASE TestLatest(c) /\ task[f].status \in GivenUp
    <2> DEFINE x == [s EXCEPT !.at = "stamp", !.found = 0]
    <2>1. /\ x \in StageRecord /\ x.tools = s.tools /\ x.todo = s.todo /\ x.found = 0
          /\ x.at = "stamp" /\ x.step = s.step
      BY <1>1 DEF StageRecord, StagePhase, Stamps
    <2>2. stage' = [stage EXCEPT ![c] = x] /\ s.at = "consume"
      BY <1>7 DEF TestLatest
    <2>3. ASSUME NEW k \in preloaded[c], Blocks(k), ToStamp(c, k)
          PROVE  StampedBy(x, k)
      <3>1. k # f
        BY <1>7, <2>3 DEF Blocks, GivenUp
      <3> QED BY <2>1, <2>2, <2>3, <3>1 DEF ToStamp, StampedBy, Stamps
    <2>4. HookHolds(c, x)
      BY <2>1 DEF HookHolds, Sweeping
    <2> HIDE DEF x
    <2> QED BY <1>1, <1>2, <1>3, <1>5, <2>1, <2>2, <2>3, <2>4, StageStep DEF planVars
  <1>8. CASE TestLatest(c) /\ task[f].status \notin GivenUp
    <2> DEFINE x == [s EXCEPT !.at = "mark"]
    <2>1. /\ x \in StageRecord /\ x.tools = s.tools /\ x.todo = s.todo /\ x.found = f
          /\ x.at = "mark" /\ x.step = s.step
      BY <1>1 DEF StageRecord, StagePhase, Stamps
    <2>2. stage' = [stage EXCEPT ![c] = x] /\ s.at = "consume"
      BY <1>8 DEF TestLatest
    <2>3. \A k : ToStamp(c, k) => StampedBy(x, k)
      BY <2>1, <2>2 DEF ToStamp, StampedBy, Stamps
    <2>4. HookHolds(c, x)
      BY <1>4, <2>1 DEF HookHolds, Sweeping
    <2> HIDE DEF x
    <2> QED BY <1>1, <1>2, <1>3, <1>4, <1>5, <2>1, <2>2, <2>3, <2>4, StageStep DEF planVars
  <1> QED BY <1>6, <1>7, <1>8

\* The steps of a cancellation that look at the tasks only, and the dedup that
\* lets a resource pass.
LEMMA SweepStepsAAInv ==
  ASSUME IInv, AAInv, NEW c \in Thread,
         \/ SnapshotToCancel(c) \/ SweepTask(c) \/ SampleCompleted(c)
         \/ Deduplicate(c) /\ ~ScheduleResources(c)
  PROVE  AAInv'
  <1> USE DEF AAInv
  <1> DEFINE s == stage[c]
             f == s.found
  <1>1. /\ stage \in [Thread -> StageRecord] /\ s \in StageRecord /\ task \in Seq(TaskRecord)
        /\ plan \in 0..MaxStep /\ plan <= step /\ s.step <= step /\ PlanFromPlanning
        /\ s.todo \subseteq DOMAIN task /\ f \in Nat /\ (f # 0 => f \in DOMAIN task)
        /\ preloaded[c] \subseteq DOMAIN task /\ DOMAIN task \subseteq Nat
        /\ step \in 0..MaxStep
    <2>1. stage \in [Thread -> StageRecord] /\ task \in Seq(TaskRecord)
      BY DEF AATyped
    <2>2. DOMAIN task \subseteq Nat
      BY <2>1
    <2>3. step \in 0..MaxStep
      BY DEF IInv, Typed
    <2> QED BY <2>1, <2>2, <2>3, StageFields DEF AATyped, PlanTimely, TasksExist
  <1>2. UNCHANGED <<vars, planVars, toolCalls, msg, taskVars, preloaded>>
    BY DEF SnapshotToCancel, SweepTask, SampleCompleted, Deduplicate
  <1>3. PlanFromPlanning'
    BY <1>1, <1>2 DEF PlanFromPlanning, planVars
  <1>4. CASE SnapshotToCancel(c)
    <2> DEFINE mine == {k \in DOMAIN task : task[k].ckpt = call[c].ckpt}
               x == Stage("sweep", 0, <<>>, mine)
    <2>1. stage' = [stage EXCEPT ![c] = x] /\ s = Ready /\ call[c].pc = "cancel"
      BY <1>4 DEF SnapshotToCancel, At
    <2>2. mine \subseteq DOMAIN task /\ mine \in SUBSET Nat
      BY <1>1
    <2>3. /\ x \in StageRecord /\ x.at = "sweep" /\ x.step = 0 /\ x.tools = <<>>
          /\ x.todo = mine /\ x.found = 0
      <3>1. "sweep" \in StagePhase /\ 0 \in 0..MaxStep /\ <<>> \in Seq(Tool)
        BY DetectorConstants DEF StagePhase, Sweeping
      <3>2. mine \in SUBSET Nat
        BY <2>2
      <3> HIDE DEF mine
      <3> QED BY <3>1, <3>2 DEF Stage, StageRecord
    <2>4. \A k : ~ToStamp(c, k)
      BY <2>1, ReadyType DEF ToStamp, StampedBy
    <2>5. \A k \in DOMAIN task : Holds(c, task[k].ckpt, {"cancel"}) => k \in mine
      BY DEF Holds
    <2>6. HookHolds(c, x)
      BY <2>1, <2>3 DEF HookHolds
    <2>7. \A k \in mine : HandledBy(x, k)
      BY <2>3 DEF HandledBy, Sweeping
    <2>8. x.step <= step
      BY <1>1, <2>3, DetectorConstants
    <2> HIDE DEF x, s, mine
    <2> QED BY <1>1, <1>2, <1>3, <2>1, <2>2, <2>3, <2>4, <2>5, <2>6, <2>7, <2>8, StageStep DEF planVars
  <1>5. CASE SweepTask(c)
    <2> DEFINE k == CHOOSE i \in s.todo : \A j \in s.todo : i <= j
               p == IF Cancellable(k) THEN "sample" ELSE "sweep"
               g == IF Cancellable(k) THEN k ELSE 0
               x == [s EXCEPT !.todo = s.todo \ {k}, !.at = p, !.found = g]
    <2>1. s.at = "sweep" /\ s.todo # {} /\ call[c].pc = "cancel"
      BY <1>5 DEF SweepTask, Hooks, HookHolds, Sweeping
    <2>2. k \in s.todo
      <3>1. s.todo \in SUBSET Nat
        BY <1>1
      <3> QED BY <2>1, <3>1, LeastElement
    <2>3. stage' = [stage EXCEPT ![c] = x]
      <3>1. stage' = [stage EXCEPT ![c].todo = s.todo \ {k}, ![c].at = p, ![c].found = g]
        BY <1>5 DEF SweepTask
      <3> HIDE DEF k, p, g
      <3> QED BY <1>1, <3>1 DEF StageRecord
    <2> HIDE DEF k
    <2>4. k \in DOMAIN task /\ k \in Nat /\ k # 0
      <3>1. k \in DOMAIN task
        BY <1>1, <2>2
      <3> QED BY <1>1, <3>1, TaskFields
    <2>5. /\ x \in StageRecord /\ x.tools = s.tools /\ x.todo = s.todo \ {k} /\ x.found = g
          /\ x.at = p /\ x.step = s.step /\ p \in {"sample", "sweep"} /\ g \in {0, k}
      BY <1>1, <2>4 DEF StageRecord, StagePhase, Sweeping
    <2>6. \A j : ToStamp(c, j) => StampedBy(x, j)
      BY <2>1, <2>5 DEF ToStamp, StampedBy, Stamps
    <2>7. HookHolds(c, x)
      BY <2>1, <2>4, <2>5 DEF HookHolds
    <2>8. ASSUME NEW j \in DOMAIN task, HandledBy(s, j)
          PROVE  HandledBy(x, j) \/ Caught(j) \/ Escaped(j)
      <3>1. j \in s.todo
        BY <2>1, <2>8 DEF HandledBy
      <3>2. CASE j # k
        BY <2>5, <3>1, <3>2 DEF HandledBy, Sweeping
      <3>3. CASE j = k /\ Cancellable(k)
        BY <2>5, <3>3 DEF HandledBy
      <3>4. CASE j = k /\ ~Cancellable(k)
        <4>1. task[k].status \in {"used", "failed", "cancelled", "wasted"} /\ task[k].load \in LoadPhase
          BY <1>1, <2>4, <3>4, TaskFields DEF Cancellable, TaskStatus, Active, GivenUp
        <4>2. TaskHolds(k)
          BY <2>4 DEF Loads
        <4> QED BY <3>4, <4>1, <4>2 DEF TaskHolds, Caught, Escaped, LoadPhase
      <3> QED BY <3>2, <3>3, <3>4
    <2>9. x.todo \subseteq DOMAIN task /\ (x.found # 0 => x.found \in DOMAIN task)
          /\ x.at # "start" /\ x.at # "keep"
      BY <1>1, <2>4, <2>5
    <2> HIDE DEF x, s, p, g
    <2> QED BY <1>1, <1>2, <1>3, <2>3, <2>5, <2>6, <2>7, <2>8, <2>9, StageStep DEF planVars, s
  <1>6. CASE SampleCompleted(c)
    <2> DEFINE p == IF task[f].status = "completed" THEN "discard" ELSE "stop"
               x == [s EXCEPT !.at = p]
    <2>1. s.at = "sample" /\ stage' = [stage EXCEPT ![c] = x]
      BY <1>6 DEF SampleCompleted
    <2>2. f # 0 /\ f \in DOMAIN task /\ call[c].pc = "cancel"
      <3>1. f # 0 /\ call[c].pc = "cancel"
        BY <2>1 DEF Hooks, HookHolds, Sweeping
      <3> QED BY <1>1, <3>1
    <2>3. p = "discard" => task[f].load = "ended"
      BY <2>2 DEF Loads, TaskHolds
    <2>4. p \in {"discard", "stop"}
      OBVIOUS
    <2> HIDE DEF p
    <2>5. /\ x \in StageRecord /\ x.tools = s.tools /\ x.todo = s.todo /\ x.found = f
          /\ x.at = p /\ x.step = s.step
      BY <1>1, <2>4 DEF StageRecord, StagePhase, Sweeping
    <2>6. \A j : ToStamp(c, j) => StampedBy(x, j)
      BY <2>1, <2>5 DEF ToStamp, StampedBy, Stamps
    <2>7. HookHolds(c, x)
      BY <2>2, <2>3, <2>4, <2>5 DEF HookHolds
    <2>8. \A j : HandledBy(s, j) => HandledBy(x, j)
      BY <2>1, <2>4, <2>5 DEF HandledBy, Sweeping
    <2> HIDE DEF x, s
    <2> QED BY <1>1, <1>2, <1>3, <2>1, <2>2, <2>4, <2>5, <2>6, <2>7, <2>8, StageStep DEF planVars, s
  <1>7. CASE Deduplicate(c) /\ ~ScheduleResources(c)
    <2> DEFINE x == [s EXCEPT !.at = "register"]
    <2>1. stage' = [stage EXCEPT ![c] = x] /\ s = Ready /\ call[c].pc = "schedule"
      BY <1>7 DEF Deduplicate, At
    <2>2. /\ x \in StageRecord /\ x.tools = s.tools /\ x.todo = s.todo /\ x.found = s.found
          /\ x.at = "register" /\ x.step = s.step
      BY <1>1 DEF StageRecord, StagePhase
    <2>3. \A k : ~ToStamp(c, k)
      BY <2>1, ReadyType DEF ToStamp, StampedBy, Stamps
    <2>4. HookHolds(c, x) /\ \A k : ~Holds(c, k, {"cancel"})
      BY <2>1, <2>2 DEF HookHolds, Holds, Sweeping
    <2> HIDE DEF x, s
    <2> QED BY <1>1, <1>2, <1>3, <2>1, <2>2, <2>3, <2>4, StageStep DEF planVars
  <1> QED BY <1>4, <1>5, <1>6, <1>7

\* A step that changes what became of the tasks, not what they load.
SameTasks ==
    /\ DOMAIN task' = DOMAIN task
    /\ \A k \in DOMAIN task : task'[k].tool = task[k].tool /\ task'[k].ckpt = task[k].ckpt

LEMMA LatestSame ==
  ASSUME SameTasks
  PROVE  \A k \in DOMAIN task : LatestOf(task[k].tool)' = LatestOf(task[k].tool)
  <1> SUFFICES ASSUME NEW CONSTANT t
               PROVE  LatestOf(t)' = LatestOf(t)
    BY DEF SameTasks
  <1> DEFINE mine == {k \in DOMAIN task : task[k].tool = t}
             Greatest(S) == IF S = {} THEN 0 ELSE CHOOSE k \in S : \A j \in S : j <= k
  <1>1. mine' = mine
    BY DEF SameTasks
  <1>2. LatestOf(t) = Greatest(mine) /\ LatestOf(t)' = Greatest(mine')
    BY DEF LatestOf
  <1> HIDE DEF mine, Greatest
  <1> QED BY <1>1, <1>2

\* One task gets a new status; its load may go on.
LEMMA TaskNew ==
  ASSUME task \in Seq(TaskRecord), NEW k \in DOMAIN task, NEW x \in TaskRecord,
         task' = [task EXCEPT ![k] = x], x.tool = task[k].tool, x.ckpt = task[k].ckpt
  PROVE  /\ task' \in Seq(TaskRecord) /\ Len(task') = Len(task) /\ SameTasks
         /\ task'[k] = x
         /\ \A j \in DOMAIN task : j # k => task'[j] = task[j]
  BY DEF SameTasks

\* What every step keeps that only changes what became of one task.
LEMMA TaskStep ==
  ASSUME AAInv, NEW k \in DOMAIN task, NEW x \in TaskRecord,
         task' = [task EXCEPT ![k] = x], x.tool = task[k].tool, x.ckpt = task[k].ckpt,
         task[k].load = "ended" =>
            x.load = "ended" /\ (x.status = "completed" => task[k].status = "completed"),
         TaskHolds(k)', orphan' = orphan,
         unstarted \subseteq unstarted', late \subseteq late', early \subseteq early',
         stage' \in [Thread -> StageRecord],
         \A d \in Thread : /\ stage'[d].todo \subseteq stage[d].todo
                           /\ stage'[d].found \in {0, stage[d].found}
                           /\ stage'[d].step <= step
                           /\ stage'[d].at = "keep" => stage'[d] = stage[d],
         UNCHANGED planVars, UNCHANGED toolCalls, UNCHANGED msg, UNCHANGED preloaded,
         UNCHANGED <<ablated, step, status>>
  PROVE  /\ AATyped' /\ TasksExist' /\ CallsBounded' /\ PlanTimely'
         /\ SameTasks /\ Loads' /\ PreloadsLoaded'
         /\ task'[k] = x
         /\ \A j \in DOMAIN task : j # k => task'[j] = task[j]
         /\ \A d \in Thread : \A j \in preloaded[d] : Blocks(j)' => Blocks(j)
         /\ \A j \in DOMAIN task : j # k /\ Caught(j) => Caught(j)'
         /\ \A j \in DOMAIN task : Escaped(j) => Escaped(j)'
  <1> USE DEF AAInv, planVars
  <1>1. /\ task' \in Seq(TaskRecord) /\ Len(task') = Len(task) /\ SameTasks /\ task'[k] = x
        /\ \A j \in DOMAIN task : j # k => task'[j] = task[j]
    BY TaskNew DEF AATyped
  <1>2. AATyped'
    BY <1>1 DEF AATyped
  <1>3. TasksExist'
    BY <1>1 DEF TasksExist, SameTasks
  <1>4. CallsBounded'
    BY DEF CallsBounded, Unanswered
  <1>5. PlanTimely'
    BY DEF PlanTimely, PlanFromPlanning
  <1>6. Loads'
    <2> SUFFICES ASSUME NEW j \in DOMAIN task, j # k
                 PROVE  TaskHolds(j)'
      BY <1>1 DEF Loads, SameTasks
    <2>1. TaskHolds(j) /\ task'[j] = task[j]
      BY <1>1 DEF Loads
    <2> QED BY <2>1 DEF TaskHolds
  <1>7. \A j \in DOMAIN task : task[j].load = "ended" =>
            task'[j].load = "ended" /\ (task'[j].status = "completed" => task[j].status = "completed")
    BY <1>1
  <1>8. \A d \in Thread : \A j \in preloaded[d] : j \in DOMAIN task /\ task[j].load = "ended"
    BY DEF TasksExist, PreloadsLoaded
  <1>9. PreloadsLoaded'
    BY <1>7, <1>8 DEF PreloadsLoaded
  <1>10. \A d \in Thread : \A j \in preloaded[d] : Blocks(j)' => Blocks(j)
    BY <1>1, <1>7, <1>8, LatestSame DEF Blocks, SameTasks
  <1>11. \A j \in DOMAIN task : j # k /\ Caught(j) => Caught(j)'
    BY <1>1 DEF Caught
  <1>12. \A j \in DOMAIN task : Escaped(j) => Escaped(j)'
    BY DEF Escaped
  <1> QED BY <1>1, <1>2, <1>3, <1>4, <1>5, <1>6, <1>9, <1>10, <1>11, <1>12

\* The assignment of USED.
LEMMA StampLatestAAInv ==
  ASSUME IInv, AAInv, NEW c \in Thread, StampLatest(c)
  PROVE  AAInv'
  <1> USE DEF AAInv
  <1>1. PICK k \in DOMAIN task : k = stage[c].found /\ k # 0
    <2>1. stage[c].found # 0
      BY DEF StampLatest, Hooks, HookHolds
    <2> QED BY <2>1 DEF TasksExist
  <1>2. task \in Seq(TaskRecord) /\ stage \in [Thread -> StageRecord] /\ step \in Nat
    BY DetectorConstants DEF AATyped, IInv, Typed
  <1> DEFINE x == [task[k] EXCEPT !.status = "used"]
             y == [stage[c] EXCEPT !.at = "stamp", !.found = 0]
  <1>3. /\ x \in TaskRecord /\ x.status = "used" /\ x.load = task[k].load
        /\ x.tool = task[k].tool /\ x.ckpt = task[k].ckpt
    BY <1>2, TaskFields DEF TaskRecord, TaskStatus
  <1>4. /\ y \in StageRecord /\ y.todo = stage[c].todo /\ y.tools = stage[c].tools
        /\ y.found = 0 /\ y.at = "stamp" /\ y.step = stage[c].step
    BY <1>2 DEF StageRecord, StagePhase, Stamps
  <1>5. /\ task' = [task EXCEPT ![k] = x] /\ stage[c].at = "mark"
        /\ early' = IF task[k].load # "ended" THEN early \cup {k} ELSE early
        /\ stage' = [stage EXCEPT ![c] = y]
        /\ UNCHANGED <<vars, planVars, toolCalls, msg, orphan, unstarted, late, preloaded>>
    BY <1>1 DEF StampLatest
  <1>6. UNCHANGED <<ablated, step, status, call>>
    BY <1>5 DEF vars, storeVars
  <1> HIDE DEF x, y
  <1>7. /\ stage' \in [Thread -> StageRecord] /\ stage'[c] = y
        /\ \A d \in Thread : d # c => stage'[d] = stage[d]
    BY <1>2, <1>4, <1>5, StageNew
  <1>8. task'[k] = x
    BY <1>2, <1>3, <1>5, TaskNew
  <1>9. TaskHolds(k)'
    BY <1>3, <1>5, <1>8 DEF TaskHolds
  <1>10. \A d \in Thread : /\ stage'[d].todo \subseteq stage[d].todo
                           /\ stage'[d].found \in {0, stage[d].found}
                           /\ stage'[d].step <= step
                           /\ stage'[d].at = "keep" => stage'[d] = stage[d]
    BY <1>4, <1>7 DEF PlanTimely
  <1>11. /\ AATyped' /\ TasksExist' /\ CallsBounded' /\ PlanTimely'
         /\ SameTasks /\ Loads' /\ PreloadsLoaded'
         /\ \A j \in DOMAIN task : j # k => task'[j] = task[j]
         /\ \A d \in Thread : \A j \in preloaded[d] : Blocks(j)' => Blocks(j)
         /\ \A j \in DOMAIN task : j # k /\ Caught(j) => Caught(j)'
         /\ \A j \in DOMAIN task : Escaped(j) => Escaped(j)'
    BY <1>3, <1>5, <1>6, <1>7, <1>9, <1>10, TaskStep
  <1>12. Hooks'
    <2>1. ASSUME NEW d \in Thread
          PROVE  HookHolds(d, stage[d])' /\ (stage'[d].at = "start" => stage'[d] = stage[d])
      <3>1. CASE d = c
        BY <1>4, <1>7, <3>1 DEF HookHolds, Sweeping
      <3>2. CASE d # c
        <4>1. HookHolds(d, stage[d]) /\ stage'[d] = stage[d]
          BY <1>7, <3>2 DEF Hooks
        <4>2. stage[d].found # 0 => task'[stage[d].found].load = task[stage[d].found].load
          BY <1>3, <1>8, <1>11 DEF TasksExist
        <4> QED BY <1>6, <4>1, <4>2 DEF HookHolds
      <3> QED BY <3>1, <3>2
    <2> QED BY <2>1 DEF Hooks
  <1>13. Escapes'
    <2> SUFFICES ASSUME ~ablated, NEW j \in DOMAIN task, status[task[j].ckpt] = "diverged"
                 PROVE  Settled(j)'
      BY <1>6, <1>11 DEF Escapes, SameTasks
    <2>1. CASE j = k
      <3>1. Caught(k)' \/ Escaped(k)'
        BY <1>3, <1>5, <1>8 DEF Caught, Escaped
      <3> QED BY <2>1, <3>1 DEF Settled
    <2>2. CASE j # k
      <3>1. Settled(j)
        BY DEF Escapes
      <3>2. BeingCancelled(j) => BeingCancelled(j)'
        <4>1. \A d \in Thread : HandledBy(stage[d], j) => d # c
          BY <1>5 DEF HandledBy, Sweeping
        <4>2. \A d \in Thread : d # c => HandledBy(stage[d], j)' = HandledBy(stage[d], j)
          BY <1>7 DEF HandledBy
        <4>3. \A d \in Thread : Holds(d, task[j].ckpt, {"cancel"})' = Holds(d, task[j].ckpt, {"cancel"})
          BY <1>6, <1>11 DEF Holds, SameTasks
        <4> QED BY <4>1, <4>2, <4>3 DEF BeingCancelled
      <3> QED BY <1>11, <2>2, <3>1, <3>2 DEF Settled
    <2> QED BY <2>1, <2>2
  <1>14. Stamping'
    <2> SUFFICES ASSUME NEW d \in Thread, call[d].pc \in Predicting, NEW j \in preloaded[d], Blocks(j)'
                 PROVE  ToStamp(d, j)'
      BY <1>5, <1>6 DEF Stamping
    <2>1. j \in DOMAIN task /\ task'[j].tool = task[j].tool
      BY <1>11 DEF TasksExist, SameTasks
    <2>2. ToStamp(d, j) /\ j # k
      <3>1. j # k
        BY <1>3, <1>8 DEF Blocks
      <3> QED BY <1>11, <3>1 DEF Stamping
    <2>3. CASE d # c
      <3>1. stage[d].found # 0 => stage[d].found \in DOMAIN task
        BY DEF TasksExist
      <3> QED BY <1>7, <1>11, <2>1, <2>2, <2>3, <3>1 DEF ToStamp, StampedBy, SameTasks
    <2>4. CASE d = c
      BY <1>1, <1>4, <1>5, <1>7, <2>1, <2>2, <2>4 DEF ToStamp, StampedBy, Stamps
    <2> QED BY <2>3, <2>4
  <1> QED BY <1>11, <1>12, <1>13, <1>14

\* A step that neither stamps nor calls the guard keeps what is to be stamped.
LEMMA StampingKept ==
  ASSUME AAInv, SameTasks, UNCHANGED preloaded,
         \A d \in Thread : call'[d].pc \in Predicting => call[d].pc \in Predicting /\ stage'[d] = stage[d],
         \A d \in Thread : \A j \in preloaded[d] : Blocks(j)' => Blocks(j)
  PROVE  Stamping'
  <1> USE DEF AAInv
  <1> SUFFICES ASSUME NEW d \in Thread, call'[d].pc \in Predicting, NEW j \in preloaded[d], Blocks(j)'
               PROVE  ToStamp(d, j)'
    BY DEF Stamping
  <1>1. ToStamp(d, j) /\ stage'[d] = stage[d]
    BY DEF Stamping
  <1>2. j \in DOMAIN task /\ (stage[d].found # 0 => stage[d].found \in DOMAIN task)
    BY DEF TasksExist
  <1> QED BY <1>1, <1>2 DEF ToStamp, StampedBy, SameTasks

\* executor.cancel(), and the charge as wasted after it.
LEMMA CancelTaskAAInv ==
  ASSUME IInv, AAInv, NEW c \in Thread, ExecutorCancel(c) \/ ChargeWasted(c)
  PROVE  AAInv'
  <1> USE DEF AAInv
  <1> DEFINE s == stage[c]
  <1>1. PICK k \in DOMAIN task : k = s.found /\ k # 0
    <2>1. s.found # 0
      BY DEF ExecutorCancel, ChargeWasted, Hooks, HookHolds
    <2> QED BY <2>1 DEF TasksExist
  <1>2. /\ task \in Seq(TaskRecord) /\ stage \in [Thread -> StageRecord] /\ step \in Nat
        /\ s \in StageRecord /\ s.found \in Nat
    BY StageFields, DetectorConstants DEF AATyped, IInv, Typed
  <1>3. /\ s.at \in {"stop", "discard", "waste"} /\ call[c].pc = "cancel"
        /\ s.at \in {"discard", "waste"} => task[k].load = "ended"
    BY <1>1 DEF ExecutorCancel, ChargeWasted, Hooks, HookHolds, Sweeping
  <1> DEFINE v == IF s.at = "waste" THEN "wasted" ELSE "cancelled"
             p == IF s.at = "discard" THEN "waste" ELSE "sweep"
             g == IF s.at = "discard" THEN k ELSE 0
             x == [task[k] EXCEPT !.status = v]
             y == [s EXCEPT !.at = p, !.found = g]
  <1>4. /\ task' = [task EXCEPT ![k] = x] /\ stage' = [stage EXCEPT ![c] = y]
        /\ unstarted' = (IF s.at # "waste" /\ task[k].load = "none" THEN unstarted \cup {k} ELSE unstarted)
        /\ late' = (IF s.at # "waste" /\ task[k].load = "settling" THEN late \cup {k} ELSE late)
        /\ UNCHANGED <<vars, planVars, toolCalls, msg, orphan, early, preloaded>>
    <2>1. CASE ExecutorCancel(c)
      BY <1>1, <2>1 DEF ExecutorCancel
    <2>2. CASE ChargeWasted(c)
      BY <1>1, <2>2 DEF ChargeWasted
    <2> QED BY <2>1, <2>2
  <1>5. v \in {"wasted", "cancelled"} /\ p \in {"waste", "sweep"} /\ g \in {0, k} /\ k \in Nat
    BY <1>1, <1>2
  <1>6. /\ x \in TaskRecord /\ x.status = v /\ x.load = task[k].load
        /\ x.tool = task[k].tool /\ x.ckpt = task[k].ckpt /\ x.load \in LoadPhase
    BY <1>2, <1>5, TaskFields DEF TaskRecord, TaskStatus, GivenUp
  <1>7. /\ y \in StageRecord /\ y.todo = s.todo /\ y.tools = s.tools
        /\ y.found = g /\ y.at = p /\ y.step = s.step
    BY <1>2, <1>5 DEF StageRecord, StagePhase, Sweeping
  <1>8. UNCHANGED <<ablated, step, status, call>>
    BY <1>4 DEF vars, storeVars
  <1> HIDE DEF x, y
  <1>9. /\ stage' \in [Thread -> StageRecord] /\ stage'[c] = y
        /\ \A d \in Thread : d # c => stage'[d] = stage[d]
    BY <1>2, <1>4, <1>7, StageNew
  <1>10. task'[k] = x
    BY <1>2, <1>4, <1>6, TaskNew
  <1>11. TaskHolds(k)'
    BY <1>3, <1>4, <1>6, <1>10 DEF TaskHolds
  <1>12. \A d \in Thread : /\ stage'[d].todo \subseteq stage[d].todo
                           /\ stage'[d].found \in {0, stage[d].found}
                           /\ stage'[d].step <= step
                           /\ stage'[d].at = "keep" => stage'[d] = stage[d]
    BY <1>1, <1>5, <1>7, <1>9 DEF PlanTimely
  <1>13. /\ AATyped' /\ TasksExist' /\ CallsBounded' /\ PlanTimely'
         /\ SameTasks /\ Loads' /\ PreloadsLoaded'
         /\ \A j \in DOMAIN task : j # k => task'[j] = task[j]
         /\ \A d \in Thread : \A j \in preloaded[d] : Blocks(j)' => Blocks(j)
         /\ \A j \in DOMAIN task : j # k /\ Caught(j) => Caught(j)'
         /\ \A j \in DOMAIN task : Escaped(j) => Escaped(j)'
    <2>1. unstarted \subseteq unstarted' /\ late \subseteq late' /\ early \subseteq early' /\ orphan' = orphan
      BY <1>4
    <2>2. UNCHANGED planVars /\ UNCHANGED toolCalls /\ UNCHANGED msg /\ UNCHANGED preloaded
      BY <1>4
    <2>3. task[k].load = "ended" =>
              x.load = "ended" /\ (x.status = "completed" => task[k].status = "completed")
      BY <1>5, <1>6
    <2>4. task' = [task EXCEPT ![k] = x]
      BY <1>4
    <2> HIDE DEF v, p, g, s
    <2> QED BY <1>6, <1>8, <1>9, <1>11, <1>12, <2>1, <2>2, <2>3, <2>4, TaskStep
  <1>14. Hooks'
    <2>1. ASSUME NEW d \in Thread
          PROVE  HookHolds(d, stage[d])' /\ (stage'[d].at = "start" => stage'[d] = stage[d])
      <3>1. CASE d = c
        <4>1. task'[k].load = "ended" \/ p = "sweep"
          BY <1>3, <1>6, <1>10
        <4>2. p = "waste" => g = k
          OBVIOUS
        <4>3. call'[c].pc = "cancel" /\ stage'[c] = y
          BY <1>3, <1>8, <1>9
        <4> HIDE DEF p, g, s
        <4> QED BY <1>1, <1>5, <1>7, <3>1, <4>1, <4>2, <4>3 DEF HookHolds
      <3>2. CASE d # c
        <4>1. HookHolds(d, stage[d]) /\ stage'[d] = stage[d]
          BY <1>9, <3>2 DEF Hooks
        <4>2. stage[d].found # 0 => task'[stage[d].found].load = task[stage[d].found].load
          BY <1>6, <1>10, <1>13 DEF TasksExist
        <4> QED BY <1>8, <4>1, <4>2 DEF HookHolds
      <3> QED BY <3>1, <3>2
    <2> QED BY <2>1 DEF Hooks
  <1>15. Escapes'
    <2> SUFFICES ASSUME ~ablated, NEW j \in DOMAIN task, status[task[j].ckpt] = "diverged"
                 PROVE  Settled(j)'
      BY <1>8, <1>13 DEF Escapes, SameTasks
    <2>1. CASE j = k
      <3>1. Caught(k)' \/ Escaped(k)'
        <4>1. v = "wasted" => task'[k].load = "ended"
          BY <1>3, <1>6, <1>10
        <4> QED BY <1>4, <1>6, <1>10, <4>1 DEF Caught, Escaped, LoadPhase
      <3> QED BY <2>1, <3>1 DEF Settled
    <2>2. CASE j # k
      <3>1. Settled(j)
        BY DEF Escapes
      <3>2. BeingCancelled(j) => BeingCancelled(j)'
        <4>1. ASSUME NEW d \in Thread, HandledBy(stage[d], j)
              PROVE  HandledBy(stage[d], j)'
          <5>1. CASE d = c
            BY <1>1, <1>3, <1>5, <1>7, <1>9, <2>2, <4>1, <5>1 DEF HandledBy, Sweeping
          <5>2. CASE d # c
            BY <1>9, <4>1, <5>2 DEF HandledBy
          <5> QED BY <5>1, <5>2
        <4>2. \A d \in Thread : Holds(d, task[j].ckpt, {"cancel"})' = Holds(d, task[j].ckpt, {"cancel"})
          BY <1>8, <1>13 DEF Holds, SameTasks
        <4> QED BY <4>1, <4>2 DEF BeingCancelled
      <3> QED BY <1>13, <2>2, <3>1, <3>2 DEF Settled
    <2> QED BY <2>1, <2>2
  <1>16. Stamping'
    <2>1. \A d \in Thread : call'[d].pc \in Predicting => call[d].pc \in Predicting /\ stage'[d] = stage[d]
      BY <1>3, <1>8, <1>9 DEF Predicting
    <2>2. UNCHANGED preloaded
      BY <1>4
    <2> QED BY <1>13, <2>1, <2>2, StampingKept
  <1> QED BY <1>13, <1>14, <1>15, <1>16

\* A load tests for a cancellation, completes or fails.
LEMMA LoadStepsAAInv ==
  ASSUME IInv, AAInv, NEW k \in DOMAIN task, LoadTests(k) \/ LoadCompletes(k) \/ LoadFails(k)
  PROVE  AAInv'
  <1> USE DEF AAInv
  <1>1. UNCHANGED <<vars, planVars, toolCalls, msg, stage, orphan, unstarted, late, early, preloaded>>
    BY DEF LoadTests, LoadCompletes, LoadFails
  <1>2. task \in Seq(TaskRecord) /\ stage \in [Thread -> StageRecord]
    BY DEF AATyped
  <1>3. TaskHolds(k) /\ task[k].load \in {"running", "settling"}
    BY DEF Loads, LoadTests, LoadCompletes, LoadFails
  <1>4. PICK x \in TaskRecord :
            /\ task' = [task EXCEPT ![k] = x] /\ x.tool = task[k].tool /\ x.ckpt = task[k].ckpt
            /\ x.load \in {"settling", "ended"}
            /\ \/ /\ x.load = "ended" /\ x.status = task[k].status
                  /\ x.status # "in_progress" /\ task[k].load = "running"
               \/ /\ x.load = "settling" /\ x.status = task[k].status
                  /\ x.status # "cancelled" /\ task[k].load = "running"
               \/ x.load = "ended" /\ x.status = "completed" /\ task[k].load = "settling"
               \/ x.load = "ended" /\ x.status = "failed"
    <2> DEFINE e == [task[k] EXCEPT !.load = "ended"]
               t == [task[k] EXCEPT !.load = "settling"]
               d == [task[k] EXCEPT !.status = "completed", !.load = "ended"]
               f == [task[k] EXCEPT !.status = "failed", !.load = "ended"]
    <2>1. /\ e \in TaskRecord /\ e.tool = task[k].tool /\ e.ckpt = task[k].ckpt
          /\ e.load = "ended" /\ e.status = task[k].status
      BY <1>2, TaskFields DEF TaskRecord, LoadPhase
    <2>2. /\ t \in TaskRecord /\ t.tool = task[k].tool /\ t.ckpt = task[k].ckpt
          /\ t.load = "settling" /\ t.status = task[k].status
      BY <1>2, TaskFields DEF TaskRecord, LoadPhase
    <2>3. /\ d \in TaskRecord /\ d.tool = task[k].tool /\ d.ckpt = task[k].ckpt
          /\ d.load = "ended" /\ d.status = "completed"
      BY <1>2, TaskFields DEF TaskRecord, LoadPhase, TaskStatus, Active
    <2>4. /\ f \in TaskRecord /\ f.tool = task[k].tool /\ f.ckpt = task[k].ckpt
          /\ f.load = "ended" /\ f.status = "failed"
      BY <1>2, TaskFields DEF TaskRecord, LoadPhase, TaskStatus
    <2>5. \/ task' = [task EXCEPT ![k] = e] /\ task[k].status # "in_progress" /\ task[k].load = "running"
          \/ task' = [task EXCEPT ![k] = t] /\ task[k].status # "cancelled" /\ task[k].load = "running"
          \/ task' = [task EXCEPT ![k] = d] /\ task[k].load = "settling"
          \/ task' = [task EXCEPT ![k] = f]
      BY DEF LoadTests, LoadCompletes, LoadFails
    <2> HIDE DEF e, t, d, f
    <2> QED BY <2>1, <2>2, <2>3, <2>4, <2>5
  <1>5. UNCHANGED <<ablated, step, status, call>>
    BY <1>1 DEF vars, storeVars
  <1>6. task'[k] = x
    BY <1>2, <1>4, TaskNew
  <1>7. TaskHolds(k)'
    BY <1>1, <1>3, <1>4, <1>6 DEF TaskHolds
  <1>8. /\ AATyped' /\ TasksExist' /\ CallsBounded' /\ PlanTimely'
        /\ SameTasks /\ Loads' /\ PreloadsLoaded'
        /\ \A j \in DOMAIN task : j # k => task'[j] = task[j]
        /\ \A d \in Thread : \A j \in preloaded[d] : Blocks(j)' => Blocks(j)
        /\ \A j \in DOMAIN task : j # k /\ Caught(j) => Caught(j)'
        /\ \A j \in DOMAIN task : Escaped(j) => Escaped(j)'
    <2>1. \A d \in Thread : /\ stage'[d].todo \subseteq stage[d].todo
                            /\ stage'[d].found \in {0, stage[d].found}
                            /\ stage'[d].step <= step
                            /\ stage'[d].at = "keep" => stage'[d] = stage[d]
      BY <1>1 DEF PlanTimely
    <2> QED BY <1>1, <1>2, <1>3, <1>4, <1>5, <1>7, <2>1, TaskStep
  <1>9. Hooks'
    <2>1. ASSUME NEW d \in Thread
          PROVE  HookHolds(d, stage[d])'
      <3>1. HookHolds(d, stage[d]) /\ stage'[d] = stage[d] /\ call'[d] = call[d]
        BY <1>1, <1>5 DEF Hooks
      <3>2. stage[d].found # 0 /\ stage[d].found # k =>
                task'[stage[d].found].load = task[stage[d].found].load
        BY <1>8 DEF TasksExist
      <3> QED BY <1>3, <3>1, <3>2 DEF HookHolds
    <2> QED BY <1>1, <2>1 DEF Hooks
  <1>10. Escapes'
    <2> SUFFICES ASSUME ~ablated, NEW j \in DOMAIN task, status[task[j].ckpt] = "diverged"
                 PROVE  Settled(j)'
      BY <1>5, <1>8 DEF Escapes, SameTasks
    <2>1. Settled(j)
      BY DEF Escapes
    <2>2. Caught(k) => Caught(k)'
      BY <1>3, <1>4, <1>6 DEF Caught
    <2>3. BeingCancelled(j) => BeingCancelled(j)'
      <3>1. \A d \in Thread : Holds(d, task[j].ckpt, {"cancel"})' = Holds(d, task[j].ckpt, {"cancel"})
        BY <1>5, <1>8 DEF Holds, SameTasks
      <3> QED BY <1>1, <3>1 DEF BeingCancelled, HandledBy
    <2> QED BY <1>8, <2>1, <2>2, <2>3 DEF Settled
  <1>11. Stamping'
    BY <1>1, <1>5, <1>8, StampingKept
  <1> QED BY <1>8, <1>9, <1>10, <1>11

\* executor.start() of a task that was registered.
LEMMA StartLoadAAInv ==
  ASSUME IInv, AAInv, NEW c \in Thread, StartLoad(c)
  PROVE  AAInv'
  <1> USE DEF AAInv
  <1> DEFINE s == stage[c]
  <1>1. PICK k \in DOMAIN task : k = s.found /\ k # 0 /\ task[k].load = "none"
    <2>1. s.found # 0 /\ task[s.found].load = "none"
      BY DEF StartLoad, Hooks, HookHolds
    <2> QED BY <2>1 DEF TasksExist
  <1>2. /\ task \in Seq(TaskRecord) /\ stage \in [Thread -> StageRecord] /\ step \in 0..MaxStep
        /\ call \in [Thread -> CallRecord]
    BY DEF AATyped, IInv, Typed
  <1> DEFINE x == [task[k] EXCEPT !.status = "in_progress", !.load = "running"]
  <1>3. /\ task' = [task EXCEPT ![k] = x] /\ stage' = [stage EXCEPT ![c] = Ready] /\ s.at = "start"
        /\ UNCHANGED <<planVars, toolCalls, msg, orphan, unstarted, late, early, preloaded>>
        /\ UNCHANGED <<ablated, step, status>> /\ call[c].pc = "schedule" /\ Return(c)
    BY <1>1 DEF StartLoad, ScheduleResources, At, storeVars
  <1>4. call'[c].pc = "idle" /\ \A d \in Thread : d # c => call'[d] = call[d]
    BY <1>2, <1>3, CallReturn
  <1>5. /\ x \in TaskRecord /\ x.status = "in_progress" /\ x.load = "running"
        /\ x.tool = task[k].tool /\ x.ckpt = task[k].ckpt
    BY <1>2, TaskFields DEF TaskRecord, TaskStatus, Active, LoadPhase
  <1> HIDE DEF x
  <1>6. /\ stage' \in [Thread -> StageRecord] /\ stage'[c] = Ready
        /\ \A d \in Thread : d # c => stage'[d] = stage[d]
    BY <1>2, <1>3, ReadyType, StageNew
  <1>7. task'[k] = x
    BY <1>2, <1>3, <1>5, TaskNew
  <1>8. TaskHolds(k)'
    BY <1>5, <1>7 DEF TaskHolds
  <1>9. /\ AATyped' /\ TasksExist' /\ CallsBounded' /\ PlanTimely'
        /\ SameTasks /\ Loads' /\ PreloadsLoaded'
        /\ \A j \in DOMAIN task : j # k => task'[j] = task[j]
        /\ \A d \in Thread : \A j \in preloaded[d] : Blocks(j)' => Blocks(j)
        /\ \A j \in DOMAIN task : j # k /\ Caught(j) => Caught(j)'
        /\ \A j \in DOMAIN task : Escaped(j) => Escaped(j)'
    <2>1. \A d \in Thread : /\ stage'[d].todo \subseteq stage[d].todo
                            /\ stage'[d].found \in {0, stage[d].found}
                            /\ stage'[d].step <= step
                            /\ stage'[d].at = "keep" => stage'[d] = stage[d]
      BY <1>2, <1>6, ReadyType, DetectorConstants DEF PlanTimely
    <2> QED BY <1>1, <1>3, <1>5, <1>6, <1>8, <2>1, TaskStep
  <1>10. Hooks'
    <2>1. ASSUME NEW d \in Thread
          PROVE  HookHolds(d, stage[d])' /\ (stage'[d].at = "start" => stage'[d] = stage[d])
      <3>1. CASE d = c
        BY <1>6, <3>1, ReadyType DEF HookHolds, Sweeping
      <3>2. CASE d # c
        <4>1. HookHolds(d, stage[d]) /\ stage'[d] = stage[d] /\ call'[d] = call[d]
          BY <1>4, <1>6, <3>2 DEF Hooks
        <4>2. stage[d].found # 0 /\ stage[d].found # k =>
                  task'[stage[d].found].load = task[stage[d].found].load
          BY <1>9 DEF TasksExist
        <4>3. stage[d].at = "start" => stage[d].found # k
          BY <1>1, <1>3, <3>2 DEF Hooks
        <4> QED BY <1>1, <4>1, <4>2, <4>3 DEF HookHolds
      <3> QED BY <3>1, <3>2
    <2> QED BY <2>1 DEF Hooks
  <1>11. Escapes'
    <2> SUFFICES ASSUME ~ablated, NEW j \in DOMAIN task, status[task[j].ckpt] = "diverged"
                 PROVE  Settled(j)'
      BY <1>3, <1>9 DEF Escapes, SameTasks
    <2>1. Settled(j)
      BY DEF Escapes
    <2>2. Caught(j) => j # k
      BY <1>1 DEF Caught
    <2>3. BeingCancelled(j) => BeingCancelled(j)'
      <3>1. \A d \in Thread : Holds(d, task[j].ckpt, {"cancel"}) =>
                d # c /\ Holds(d, task[j].ckpt, {"cancel"})'
        BY <1>3, <1>4, <1>9 DEF Holds, SameTasks
      <3> QED BY <1>6, <3>1 DEF BeingCancelled, HandledBy
    <2> QED BY <1>9, <2>1, <2>2, <2>3 DEF Settled
  <1>12. Stamping'
    <2>1. \A d \in Thread : call'[d].pc \in Predicting => call[d].pc \in Predicting /\ stage'[d] = stage[d]
      BY <1>4, <1>6 DEF Predicting
    <2> QED BY <1>3, <1>9, <2>1, StampingKept
  <1> QED BY <1>9, <1>10, <1>11, <1>12

\* A step of the guard in thread c that leaves the tasks alone: what it
\* diverges, it holds for cancel_all_pending().
LEMMA EscapesKept ==
  ASSUME AAInv, NEW c \in Thread,
         \A d \in Thread : d # c => call'[d] = call[d] /\ stage'[d] = stage[d],
         call[c].pc = "cancel" => \A k : ~HandledBy(stage[c], k),
         ablated' = ablated, UNCHANGED taskVars,
         ~ablated => \A k \in Checkpoint :
            status'[k] = "diverged" =>
                status[k] = "diverged" \/ (Holds(c, k, {"cancel"})' /\ stage'[c].at = "ready")
  PROVE  Escapes'
  <1> USE DEF AAInv
  <1> SUFFICES ASSUME ~ablated, NEW j \in DOMAIN task, status'[task[j].ckpt] = "diverged"
               PROVE  Settled(j)'
    BY DEF Escapes, taskVars
  <1>1. PICK n \in Checkpoint : n = task[j].ckpt
    BY TaskFields DEF AATyped
  <1>2. CASE status[n] = "diverged"
    <2>1. Settled(j)
      BY <1>1, <1>2 DEF Escapes
    <2>2. (Caught(j)' <=> Caught(j)) /\ (Escaped(j)' <=> Escaped(j))
      BY DEF Caught, Escaped, taskVars
    <2>3. BeingCancelled(j) => BeingCancelled(j)'
      <3>1. ASSUME NEW d \in Thread, Holds(d, n, {"cancel"}), HandledBy(stage[d], j)
            PROVE  d # c /\ Holds(d, n, {"cancel"})' /\ HandledBy(stage[d], j)'
        <4>1. d # c
          BY <3>1 DEF Holds
        <4> QED BY <3>1, <4>1 DEF Holds, HandledBy
      <3> QED BY <1>1, <3>1 DEF BeingCancelled, taskVars
    <2> QED BY <2>1, <2>2, <2>3 DEF Settled
  <1>3. CASE Holds(c, n, {"cancel"})' /\ stage'[c].at = "ready"
    <2>1. HandledBy(stage[c], j)'
      BY <1>3 DEF HandledBy
    <2> QED BY <1>1, <1>3, <2>1 DEF Settled, BeingCancelled, taskVars
  <1> QED BY <1>1, <1>2, <1>3

\* The guard's own steps; a hook that was cancelling is done.
GuardMoves(c) ==
    /\ UNCHANGED <<ablated, step>>
    /\ \A d \in Thread : d # c => call'[d] = call[d]
    /\ call[c].pc = "cancel" => \A k : ~HandledBy(stage[c], k)
    /\ call'[c].pc \in Predicting => call[c].pc \in Predicting
    /\ ~ablated => \A k \in Checkpoint :
        status'[k] = "diverged" => status[k] = "diverged" \/ Holds(c, k, {"cancel"})'

\* What every step of the guard keeps.
LEMMA GuardMovesAAInv ==
  ASSUME IInv, AAInv, NEW c \in Thread, GuardMoves(c),
         UNCHANGED <<planVars, toolCalls, msg, taskVars, preloaded>>,
         stage' \in [Thread -> StageRecord], stage'[c] = Ready,
         stage[c] = Ready \/ call'[c].pc \notin Predicting,
         \A d \in Thread : d # c => stage'[d] = stage[d]
  PROVE  AAInv'
  <1> USE DEF AAInv, planVars, GuardMoves
  <1>1. AATyped'
    BY DEF AATyped, taskVars
  <1>2. TasksExist'
    BY ReadyType DEF TasksExist, taskVars
  <1>3. CallsBounded' /\ PreloadsLoaded'
    BY DEF CallsBounded, Unanswered, PreloadsLoaded, taskVars
  <1>4. PlanTimely'
    <2>1. Ready.step <= step
      <3>1. stage[c].step <= step /\ stage[c].step \in 0..MaxStep
        BY StageFields DEF PlanTimely, AATyped
      <3>2. step \in 0..MaxStep
        BY DEF IInv, Typed
      <3> QED BY <3>1, <3>2, ReadyType, DetectorConstants
    <2>2. \A d \in Thread : stage'[d].step <= step /\ (stage'[d].at = "keep" => stage'[d] = stage[d])
      BY <2>1, ReadyType DEF PlanTimely
    <2> QED BY <2>2 DEF PlanTimely, PlanFromPlanning
  <1>5. Loads'
    BY DEF Loads, TaskHolds, taskVars
  <1>6. Hooks'
    <2>1. ASSUME NEW d \in Thread
          PROVE  HookHolds(d, stage[d])' /\ (stage'[d].at = "start" => stage'[d] = stage[d])
      <3>1. CASE d = c
        BY <3>1, ReadyType DEF HookHolds, Sweeping
      <3>2. CASE d # c
        BY <3>2 DEF Hooks, HookHolds, taskVars
      <3> QED BY <3>1, <3>2
    <2> QED BY <2>1 DEF Hooks
  <1>7. Escapes'
    BY ReadyType, EscapesKept
  <1>8. Stamping'
    <2>1. \A d \in Thread : call'[d].pc \in Predicting => call[d].pc \in Predicting /\ stage'[d] = stage[d]
      OBVIOUS
    <2>2. \A j : Blocks(j)' => Blocks(j)
      BY DEF Blocks, LatestOf, taskVars
    <2>3. SameTasks
      BY DEF SameTasks, taskVars
    <2> QED BY <2>1, <2>2, <2>3, StampingKept
  <1> QED BY <1>1, <1>2, <1>3, <1>4, <1>5, <1>6, <1>7, <1>8

LEMMA DetectorStepAAInv ==
  ASSUME IInv, AAInv, NEW c \in Thread, DetectorStep(c)
  PROVE  AAInv'
  <1> USE DEF AAInv
  <1>1. UNCHANGED <<planVars, toolCalls, msg, stage, taskVars, preloaded>>
    BY DEF DetectorStep
  <1>2. call \in [Thread -> CallRecord] /\ stage[c] = Ready
    BY DEF IInv, Typed, DetectorStep
  <1>3. GuardMoves(c)
    <2> USE DEF GuardMoves, Predicting
    <2>1. CASE AskConservative(c)
      BY <1>2, <2>1, CallReturn, CallGoto DEF AskConservative, storeVars, At, PC
    <2>2. CASE PredictNothing(c)
      BY <1>2, <2>2, CallReturn DEF PredictNothing, storeVars, At
    <2>3. ASSUME NEW t \in Tool, NEW p \in Predictor, OnPrediction(c, t, p)
          PROVE  GuardMoves(c)
      <3>1. /\ call[c].pc = "predict" /\ UNCHANGED <<ablated, step>>
            /\ status' = [status EXCEPT ![nckpts + 1] = "pending"]
            /\ \A d \in Thread : d # c => call'[d] = call[d]
        BY <1>2, <2>3 DEF OnPrediction, At
      <3>2. \A k \in Checkpoint : status'[k] = "diverged" => status[k] = "diverged"
        BY <3>1 DEF IInv, Typed
      <3> QED BY <3>1, <3>2
    <2>4. CASE Select(c)
      <3>1. CASE Return(c)
        BY <1>2, <2>4, <3>1, CallReturn DEF Select, storeVars, At
      <3>2. CASE ~Return(c)
        <4>1. /\ call[c].pc = "select" /\ UNCHANGED <<ablated, step, status>>
              /\ \E k : call' = [call EXCEPT ![c].pc = "tally", ![c].ckpt = k]
          BY <2>4, <3>2 DEF Select, storeVars, At
        <4> QED BY <1>2, <4>1 DEF CallRecord
      <3> QED BY <3>1, <3>2
    <2>5. CASE Tally(c) \/ CreateTracker(c) \/ Record(c)
      <3>1. /\ call[c].pc \in Counting /\ UNCHANGED <<ablated, step, status>>
            /\ \E p \in {"record", "create", "resolve"} : Goto(c, p)
        BY <2>5 DEF Tally, CreateTracker, Record, storeVars, At, Counting
      <3> QED BY <1>2, <3>1, CallGoto DEF PC, Counting
    <2>6. CASE Resolve(c)
      <3>1. PICK n \in Checkpoint : n = call[c].ckpt
        BY <2>6, InHand DEF Resolve, At, Judging
      <3> DEFINE hit == Hit(n, call[c].tool)
      <3>2. /\ call[c].pc = "resolve" /\ UNCHANGED <<ablated, step>>
            /\ status' = [status EXCEPT ![n] = Verdict(hit)]
            /\ IF ~hit /\ Acts THEN Goto(c, "cancel") ELSE Return(c)
        BY <2>6, <3>1 DEF Resolve, At
      <3> HIDE DEF hit
      <3>3. CASE ~hit /\ Acts
        <4>1. /\ call'[c].pc = "cancel" /\ call'[c].ckpt = n
              /\ \A d \in Thread : d # c => call'[d] = call[d]
          BY <1>2, <3>1, <3>2, <3>3, CallGoto DEF PC
        <4>2. \A k \in Checkpoint : k # n => status'[k] = status[k]
          BY <3>2 DEF IInv, Typed
        <4> QED BY <3>2, <4>1, <4>2 DEF Holds
      <3>4. CASE hit
        <4>1. \A k \in Checkpoint : status'[k] = "diverged" => status[k] = "diverged"
          BY <3>2, <3>4 DEF IInv, Typed, Verdict
        <4> QED BY <1>2, <3>2, <3>4, <4>1, CallReturn
      <3>5. CASE ~hit /\ ~Acts
        BY <1>2, <3>2, <3>5, CallReturn DEF Acts
      <3> QED BY <3>3, <3>4, <3>5
    <2>7. CASE EnterConservative(c)
      BY <1>2, <2>7, CallReturn DEF EnterConservative, storeVars, At
    <2> HIDE DEF GuardMoves
    <2> QED BY <2>1, <2>2, <2>3, <2>4, <2>5, <2>6, <2>7 DEF DetectorStep
  <1>4. stage' \in [Thread -> StageRecord]
    BY <1>1 DEF AATyped
  <1> QED BY <1>1, <1>2, <1>3, <1>4, GuardMovesAAInv

\* A resource that is skipped, and the end of a cancellation.
LEMMA ReturnsAAInv ==
  ASSUME IInv, AAInv, NEW c \in Thread,
         (Deduplicate(c) /\ ScheduleResources(c)) \/ CancelReturns(c)
  PROVE  AAInv'
  <1> USE DEF AAInv
  <1>1. /\ call \in [Thread -> CallRecord] /\ stage \in [Thread -> StageRecord]
    BY DEF IInv, Typed, AATyped
  <1>2. CASE Deduplicate(c) /\ ScheduleResources(c)
    <2>1. /\ Return(c) /\ call[c].pc = "schedule" /\ stage[c] = Ready
          /\ UNCHANGED <<ablated, step, status>>
          /\ UNCHANGED <<planVars, toolCalls, msg, taskVars, preloaded>>
      BY <1>2 DEF Deduplicate, ScheduleResources, At, storeVars
    <2>2. call'[c].pc = "idle" /\ \A d \in Thread : d # c => call'[d] = call[d]
      BY <1>1, <2>1, CallReturn
    <2>3. UNCHANGED stage
      <3>1. CASE UNCHANGED vars
        <4>1. call'[c] = call[c]
          BY <3>1 DEF vars
        <4> QED BY <2>1, <2>2, <4>1
      <3>2. CASE ~UNCHANGED vars
        BY <1>2, <3>2 DEF Deduplicate
      <3> QED BY <3>1, <3>2
    <2>4. GuardMoves(c)
      BY <2>1, <2>2 DEF GuardMoves, Predicting
    <2> QED BY <1>1, <2>1, <2>3, <2>4, GuardMovesAAInv
  <1>3. CASE CancelReturns(c)
    <2>1. /\ Goto(c, "conserve") /\ stage' = [stage EXCEPT ![c] = Ready]
          /\ stage[c].at = "sweep" /\ stage[c].todo = {}
          /\ UNCHANGED <<ablated, step, status>>
          /\ UNCHANGED <<planVars, toolCalls, msg, taskVars, preloaded>>
      BY <1>3 DEF CancelReturns, CancelPrefetches, storeVars
    <2>2. call'[c].pc = "conserve" /\ \A d \in Thread : d # c => call'[d] = call[d]
      BY <1>1, <2>1, CallGoto DEF PC
    <2>3. \A k : ~HandledBy(stage[c], k)
      BY <2>1 DEF HandledBy
    <2>4. GuardMoves(c)
      BY <2>1, <2>2, <2>3 DEF GuardMoves, Predicting
    <2>5. /\ stage' \in [Thread -> StageRecord] /\ stage'[c] = Ready
          /\ \A d \in Thread : d # c => stage'[d] = stage[d]
      BY <1>1, <2>1, ReadyType, StageNew
    <2>6. call'[c].pc \notin Predicting
      BY <2>2 DEF Predicting
    <2> QED BY <2>1, <2>4, <2>5, <2>6, GuardMovesAAInv
  <1> QED BY <1>2, <1>3

\* schedule() registers a task.
LEMMA RegisterAAInv ==
  ASSUME IInv, AAInv, NEW c \in Thread, Register(c)
  PROVE  AAInv'
  <1> USE DEF AAInv
  <1>1. call[c].pc = "schedule" /\ stage[c].at = "register"
    BY DEF Register, Hooks, HookHolds
  <1>2. PICK n \in Checkpoint : n = call[c].ckpt /\ predicted[n] \in Tool
    <2>1. call[c].ckpt \in 1..nckpts /\ nckpts \in 0..MaxCheckpoints
      BY <1>1 DEF IInv, Typed, Frames, FrameHolds
    <2>2. call[c].ckpt \in Checkpoint /\ call[c].ckpt <= nckpts
      BY <2>1, DetectorConstants DEF Checkpoint
    <2> QED BY <2>2 DEF IInv, Numbered
  <1>3. /\ UNCHANGED <<planVars, toolCalls, msg, unstarted, late, early, preloaded>>
        /\ UNCHANGED <<ablated, step, status, call>>
    BY DEF Register, vars, storeVars
  <1>4. task \in Seq(TaskRecord) /\ stage \in [Thread -> StageRecord] /\ Len(task) \in Nat
    BY DEF AATyped
  <1>17. PICK l \in Nat : l = Len(task) + 1
    BY <1>4
  <1> DEFINE x == [tool |-> predicted[n], ckpt |-> n, status |-> "pending", load |-> "none"]
             y == [stage[c] EXCEPT !.at = "start", !.found = l]
  <1>5. /\ l <= MaxTasks /\ task' = Append(task, x) /\ stage' = [stage EXCEPT ![c] = y]
        /\ orphan' = IF status[n] = "diverged" THEN orphan \cup {l} ELSE orphan
    BY <1>2, <1>17 DEF Register
  <1>6. x \in TaskRecord /\ x.tool = predicted[n] /\ x.ckpt = n /\ x.status = "pending" /\ x.load = "none"
    BY <1>2 DEF TaskRecord, TaskStatus, LoadPhase
  <1>7. /\ y \in StageRecord /\ y.todo = stage[c].todo /\ y.tools = stage[c].tools
        /\ y.found = l /\ y.at = "start" /\ y.step = stage[c].step
    <2>1. l \in Nat /\ "start" \in StagePhase
      BY <1>4 DEF StagePhase
    <2> QED BY <1>4, <2>1 DEF StageRecord
  <1> HIDE DEF x, y
  <1>8. /\ task' \in Seq(TaskRecord) /\ Len(task') = l /\ l \in Nat
        /\ DOMAIN task' = DOMAIN task \cup {l} /\ task'[l] = x
        /\ \A j \in DOMAIN task : j < l /\ j \in Nat /\ task'[j] = task[j]
    BY <1>4, <1>5, <1>6, <1>17
  <1>9. /\ stage' \in [Thread -> StageRecord] /\ stage'[c] = y
        /\ \A d \in Thread : d # c => stage'[d] = stage[d]
    BY <1>4, <1>5, <1>7, StageNew
  <1>10. AATyped' /\ TasksExist'
    <2>1. AATyped'
      BY <1>3, <1>5, <1>8, <1>9 DEF AATyped, planVars
    <2>2. TasksExist'
      BY <1>3, <1>7, <1>8, <1>9 DEF TasksExist
    <2> QED BY <2>1, <2>2
  <1>11. CallsBounded' /\ PlanTimely'
    BY <1>3, <1>7, <1>9 DEF CallsBounded, Unanswered, PlanTimely, PlanFromPlanning, planVars
  <1>12. Loads'
    <2>1. TaskHolds(l)'
      <3>1. task'[l].status = "pending" /\ task'[l].load = "none"
        BY <1>6, <1>8
      <3> QED BY <3>1 DEF TaskHolds
    <2>2. ASSUME NEW j \in DOMAIN task
          PROVE  TaskHolds(j)'
      <3>1. TaskHolds(j) /\ task'[j] = task[j]
        BY <1>8 DEF Loads
      <3> QED BY <1>3, <3>1 DEF TaskHolds
    <2> QED BY <1>8, <2>1, <2>2 DEF Loads
  <1>13. PreloadsLoaded'
    BY <1>3, <1>8 DEF PreloadsLoaded, TasksExist
  <1>14. Hooks'
    <2>1. ASSUME NEW d \in Thread
          PROVE  HookHolds(d, stage[d])'
      <3>1. CASE d = c
        <4>1. stage'[d].at = "start" /\ stage'[d].found = l /\ l # 0
          BY <1>7, <1>9, <1>17, <1>4, <3>1
        <4>2. task'[l].load = "none" /\ call'[d].pc = "schedule"
          BY <1>1, <1>3, <1>6, <1>8, <3>1
        <4> QED BY <4>1, <4>2 DEF HookHolds, Sweeping
      <3>2. CASE d # c
        <4>1. HookHolds(d, stage[d]) /\ stage'[d] = stage[d] /\ call'[d] = call[d]
          BY <1>3, <1>9, <3>2 DEF Hooks
        <4>2. stage[d].found # 0 => task'[stage[d].found] = task[stage[d].found]
          BY <1>8 DEF TasksExist
        <4> QED BY <4>1, <4>2 DEF HookHolds
      <3> QED BY <3>1, <3>2
    <2>2. ASSUME NEW d \in Thread, d # c, stage[d].at = "start"
          PROVE  stage[d].found # l
      <3>1. stage[d].found \in DOMAIN task
        BY <2>2 DEF Hooks, HookHolds, TasksExist
      <3> QED BY <1>8, <3>1
    <2> QED BY <1>7, <1>9, <2>1, <2>2 DEF Hooks
  <1>15. Escapes'
    <2> SUFFICES ASSUME ~ablated, NEW j \in DOMAIN task', status[task'[j].ckpt] = "diverged"
                 PROVE  Settled(j)'
      BY <1>3 DEF Escapes
    <2>1. CASE j = l
      BY <1>5, <1>6, <1>8, <2>1 DEF Settled, Escaped
    <2>2. CASE j # l
      <3>1. j \in DOMAIN task /\ task'[j] = task[j]
        BY <1>8, <2>2
      <3>2. Settled(j)
        BY <3>1 DEF Escapes
      <3>3. (Caught(j) => Caught(j)') /\ (Escaped(j) => Escaped(j)')
        BY <1>3, <1>5, <3>1 DEF Caught, Escaped
      <3>4. BeingCancelled(j) => BeingCancelled(j)'
        <4>1. ASSUME NEW d \in Thread, Holds(d, task[j].ckpt, {"cancel"}), HandledBy(stage[d], j)
              PROVE  Holds(d, task[j].ckpt, {"cancel"})' /\ HandledBy(stage[d], j)'
          <5>1. d # c
            BY <1>1, <4>1 DEF Holds
          <5> QED BY <1>3, <1>9, <3>1, <4>1, <5>1 DEF Holds, HandledBy
        <4> QED BY <4>1 DEF BeingCancelled
      <3> QED BY <3>2, <3>3, <3>4 DEF Settled
    <2> QED BY <2>1, <2>2
  <1>16. Stamping'
    <2> SUFFICES ASSUME NEW d \in Thread, call[d].pc \in Predicting, NEW k \in preloaded[d], Blocks(k)'
                 PROVE  ToStamp(d, k)'
      BY <1>3 DEF Stamping
    <2>1. k \in DOMAIN task /\ task'[k] = task[k] /\ k < l /\ k \in Nat
      BY <1>8 DEF TasksExist
    <2>2. Blocks(k)
      <3> DEFINE t == task[k].tool
                 mine == {j \in DOMAIN task : task[j].tool = t}
                 Greatest(S) == IF S = {} THEN 0 ELSE CHOOSE i \in S : \A j \in S : j <= i
      <3>1. t # predicted[n]
        <4>1. mine' \in SUBSET (1..l) /\ k \in mine'
          BY <1>8, <2>1
        <4>2. PICK m \in mine' : \A j \in mine' : j <= m
          BY <1>8, <4>1, GreatestElement
        <4>3. LatestOf(t)' = CHOOSE i \in mine' : \A j \in mine' : j <= i
          BY <4>1 DEF LatestOf
        <4>4. LatestOf(t)' = k
          BY DEF Blocks
        <4>5. \A j \in mine' : j <= k
          BY <4>2, <4>3, <4>4
        <4>6. l \notin mine'
          BY <1>8, <2>1, <4>5
        <4> QED BY <1>6, <1>8, <2>1, <4>6
      <3>2. mine' = mine
        BY <1>6, <1>8, <2>1, <3>1
      <3>3. LatestOf(t) = Greatest(mine) /\ LatestOf(t)' = Greatest(mine')
        BY DEF LatestOf
      <3> HIDE DEF mine, Greatest
      <3> QED BY <2>1, <3>2, <3>3 DEF Blocks
    <2>3. ToStamp(d, k)
      BY <2>2 DEF Stamping
    <2>4. stage[d].found # 0 => stage[d].found \in DOMAIN task
      BY DEF TasksExist
    <2>5. CASE d # c
      BY <1>8, <1>9, <2>1, <2>3, <2>4, <2>5 DEF ToStamp, StampedBy
    <2>6. CASE d = c
      BY <1>1, <1>7, <1>8, <1>9, <2>1, <2>3, <2>6 DEF ToStamp, StampedBy, Stamps
    <2> QED BY <2>5, <2>6
  <1> QED BY <1>10, <1>11, <1>12, <1>13, <1>14, <1>15, <1>16

\* A hook begins: it leaves the tasks alone, and the guard is asked nothing yet.
LEMMA HookBegins ==
  ASSUME AAInv, NEW c \in Thread, call[c].pc = "idle",
         \A d \in Thread : d # c => call'[d] = call[d],
         \A d \in Thread : d # c => stage'[d] = stage[d] /\ preloaded'[d] = preloaded[d],
         stage'[c].at \in {"extract", "stamp"},
         UNCHANGED taskVars, UNCHANGED <<ablated, status>>
  PROVE  /\ Loads' /\ Escapes' /\ Hooks'
         /\ \A d \in Thread : d # c => \A k \in preloaded'[d] :
                /\ task'[k].load = "ended"
                /\ call'[d].pc \in Predicting /\ Blocks(k)' => ToStamp(d, k)'
  <1> USE DEF AAInv
  <1>1. Loads'
    BY DEF Loads, TaskHolds, taskVars
  <1>2. Escapes'
    BY EscapesKept
  <1>3. Hooks'
    <2>1. ASSUME NEW d \in Thread
          PROVE  HookHolds(d, stage[d])' /\ (stage'[d].at = "start" => stage'[d] = stage[d])
      <3>1. CASE d = c
        BY <3>1 DEF HookHolds, Sweeping
      <3>2. CASE d # c
        BY <3>2 DEF Hooks, HookHolds, taskVars
      <3> QED BY <3>1, <3>2
    <2> QED BY <2>1 DEF Hooks
  <1>4. ASSUME NEW d \in Thread, d # c, NEW k \in preloaded[d]
        PROVE  /\ task[k].load = "ended"
               /\ call[d].pc \in Predicting /\ Blocks(k)' => ToStamp(d, k)'
    <2>1. Blocks(k)' <=> Blocks(k)
      BY DEF Blocks, LatestOf, taskVars
    <2>2. ToStamp(d, k)' <=> ToStamp(d, k)
      BY <1>4 DEF ToStamp, StampedBy, taskVars
    <2> QED BY <1>4, <2>1, <2>2 DEF PreloadsLoaded, Stamping
  <1> QED BY <1>1, <1>2, <1>3, <1>4 DEF taskVars

\* What speaks of the tasks, the stages and the guard's calls only.
LEMMA RestKept ==
  ASSUME AAInv, UNCHANGED <<taskVars, stage, preloaded>>, UNCHANGED <<ablated, status, call>>
  PROVE  Loads' /\ PreloadsLoaded' /\ Escapes' /\ Hooks' /\ Stamping'
  <1> USE DEF AAInv, taskVars
  <1>1. Loads' /\ PreloadsLoaded' /\ Hooks'
    BY DEF Loads, TaskHolds, PreloadsLoaded, Hooks, HookHolds
  <1>2. Escapes'
    BY DEF Escapes, Settled, Caught, Escaped, BeingCancelled, Holds, HandledBy
  <1>3. Stamping'
    BY DEF Stamping, Blocks, LatestOf, ToStamp, StampedBy
  <1> QED BY <1>1, <1>2, <1>3

\* The reply handler: one message is used up by at most one call of a tool.
LEMMA ReplyHandlerAAInv ==
  ASSUME IInv, AAInv, NEW c \in Thread, ReplyHandler(c)
  PROVE  AAInv'
  <1> USE DEF AAInv
  <1>1. /\ msg[c] \in Messages /\ msg[c] # None /\ msg' = [msg EXCEPT ![c] = None]
        /\ call[c].pc = "idle" /\ UNCHANGED <<taskVars, preloaded, plan>>
    BY DEF ReplyHandler, AATyped, At, planVars
  <1>2. /\ step \in 0..MaxStep /\ step \in Nat /\ call \in [Thread -> CallRecord]
        /\ stage \in [Thread -> StageRecord] /\ msg \in [Thread -> Messages \cup {None}]
        /\ task \in Seq(TaskRecord) /\ DOMAIN task \subseteq Nat
    BY DetectorConstants DEF IInv, Typed, AATyped
  <1> DEFINE t == Calls(msg[c])[1]
             none == Calls(msg[c]) = <<>>
  <1>3. /\ msg' \in [Thread -> Messages \cup {None}]
        /\ IsFiniteSet(Unanswered') /\ Cardinality(Unanswered') \in Nat
        /\ toolCalls + Cardinality(Unanswered') + 1 <= step
    <2>1. msg' \in [Thread -> Messages \cup {None}] /\ Unanswered' = Unanswered \ {c} /\ c \in Unanswered
      BY <1>1, <1>2 DEF Unanswered
    <2>2. /\ IsFiniteSet(Unanswered') /\ Cardinality(Unanswered') \in Nat
          /\ Cardinality(Unanswered') = Cardinality(Unanswered) - 1
          /\ Cardinality(Unanswered) \in Nat
      BY <2>1, FS_RemoveElement, FS_CardinalityType DEF CallsBounded
    <2>3. toolCalls \in Nat /\ toolCalls + Cardinality(Unanswered) <= step
      BY DEF CallsBounded, AATyped
    <2> QED BY <1>2, <2>1, <2>2, <2>3
  <1>4. CASE none
    <2>1. UNCHANGED <<vars, planVars, toolCalls, stage>>
      BY <1>4 DEF ReplyHandler
    <2>2. UNCHANGED <<ablated, step, status, call>>
      BY <2>1 DEF vars, storeVars
    <2>3. AATyped' /\ TasksExist'
      BY <1>1, <1>3, <2>1 DEF AATyped, TasksExist, planVars, taskVars
    <2>4. CallsBounded' /\ PlanTimely'
      <3>1. CallsBounded'
        BY <1>2, <1>3, <2>1, <2>2 DEF CallsBounded, AATyped
      <3> QED BY <2>1, <2>2, <3>1 DEF PlanTimely, PlanFromPlanning, planVars
    <2>5. Loads' /\ PreloadsLoaded' /\ Escapes' /\ Hooks' /\ Stamping'
      BY <1>1, <2>1, <2>2, RestKept DEF taskVars
    <2> QED BY <2>3, <2>4, <2>5
  <1>5. CASE ~none
    <2>1. t \in Tool
      BY <1>1, <1>5, CallsType
    <2> HIDE DEF t
    <2> DEFINE x == Stage("stamp", 0, <<t>>, {})
    <2>2. /\ ToolFires(c, t) /\ toolCalls' = toolCalls + 1
          /\ windowOpen' = (windowOpen /\ t = PlanTask)
          /\ closedAt' = IF windowOpen /\ t # PlanTask THEN step ELSE closedAt
          /\ stage' = [stage EXCEPT ![c] = x]
      BY <1>5 DEF ReplyHandler, t
    <2>3. UNCHANGED <<ablated, step, status>>
      BY <2>2 DEF ToolFires, storeVars
    <2>4. call'[c].pc = "select" /\ \A d \in Thread : d # c => call'[d] = call[d]
      <3> DEFINE f == Frame("select", step, t, 0)
      <3>1. "select" \in PC /\ t \in Tool \cup {None} /\ 0 \in 0..MaxCheckpoints
        BY <2>1, DetectorConstants DEF PC
      <3>2. f \in CallRecord /\ f.pc = "select"
        BY <1>2, <3>1, FrameType
      <3>3. call' = [call EXCEPT ![c] = f]
        BY <2>2 DEF ToolFires
      <3> HIDE DEF f
      <3> QED BY <1>2, <3>2, <3>3, CallNew
    <2>5. x \in StageRecord /\ x.at = "stamp" /\ x.step = 0 /\ x.todo = {} /\ x.found = 0
      <3>1. <<t>> \in Seq(Tool)
        BY <2>1
      <3>2. 0 \in 0..MaxStep /\ {} \in SUBSET Nat
        BY DetectorConstants
      <3> QED BY <3>1, <3>2 DEF Stage, StageRecord, StagePhase, Stamps
    <2> HIDE DEF x, none
    <2>6. /\ stage' \in [Thread -> StageRecord] /\ stage'[c] = x
          /\ \A d \in Thread : d # c => stage'[d] = stage[d]
      BY <1>2, <2>2, <2>5, StageNew
    <2>7. AATyped' /\ TasksExist'
      <3>1. AATyped'
        BY <1>1, <1>2, <1>3, <2>2, <2>6 DEF AATyped, taskVars
      <3>2. TasksExist'
        BY <1>1, <2>5, <2>6 DEF TasksExist, taskVars
      <3> QED BY <3>1, <3>2
    <2>8. CallsBounded'
      BY <1>2, <1>3, <2>2, <2>3 DEF CallsBounded, AATyped
    <2>9. PlanTimely'
      <3>1. plan' <= step' /\ \A d \in Thread : stage'[d].step <= step'
        BY <1>1, <1>2, <2>3, <2>5, <2>6 DEF PlanTimely
      <3>2. PlanFromPlanning'
        BY <1>1, <2>2 DEF PlanTimely, PlanFromPlanning
      <3>3. ASSUME NEW d \in Thread, stage'[d].at = "keep", ~windowOpen'
            PROVE  stage'[d].step <= closedAt' \/ stage'[d].step <= PlanHorizon
        <4>1. d # c /\ stage'[d] = stage[d]
          BY <2>5, <2>6, <3>3
        <4> QED BY <2>2, <3>3, <4>1 DEF PlanTimely
      <3> QED BY <3>1, <3>2, <3>3 DEF PlanTimely
    <2>10. Loads' /\ Escapes' /\ Hooks' /\ PreloadsLoaded' /\ Stamping'
      <3>1. /\ Loads' /\ Escapes' /\ Hooks'
            /\ \A d \in Thread : d # c => \A k \in preloaded'[d] :
                call'[d].pc \in Predicting /\ Blocks(k)' => ToStamp(d, k)'
        BY <1>1, <2>3, <2>4, <2>5, <2>6, HookBegins
      <3>2. PreloadsLoaded'
        BY <1>1 DEF PreloadsLoaded, taskVars
      <3>3. Stamping'
        BY <2>4, <3>1 DEF Stamping, Predicting
      <3> QED BY <3>1, <3>2, <3>3
    <2> QED BY <2>7, <2>8, <2>9, <2>10
  <1> QED BY <1>4, <1>5

\* An LLM response.
LEMMA LlmRespondsAAInv ==
  ASSUME IInv, AAInv, NEW c \in Thread, NEW m \in Messages, LlmResponds(c, m)
  PROVE  AAInv'
  <1> USE DEF AAInv
  <1> DEFINE x == Stage("extract", step + 1, Calls(m), {})
             loaded == {k \in DOMAIN task :
                            /\ task[k].status = "completed" /\ LatestOf(task[k].tool) = k
                            /\ \E i \in DOMAIN Calls(m) : Calls(m)[i] = task[k].tool}
  <1>1. /\ Respond(c) /\ msg[c] = None /\ msg' = [msg EXCEPT ![c] = m]
        /\ stage' = [stage EXCEPT ![c] = x]
        /\ preloaded' = [preloaded EXCEPT ![c] = loaded]
        /\ UNCHANGED <<planVars, toolCalls, taskVars>>
    BY DEF LlmResponds
  <1>2. /\ step \in Nat /\ step' = step + 1 /\ step' \in 0..MaxStep /\ UNCHANGED <<ablated, status>>
        /\ call \in [Thread -> CallRecord] /\ call[c].pc = "idle"
        /\ \/ UNCHANGED call
           \/ call' = [call EXCEPT ![c] = Frame("ask", step + 1, None, 0)]
    BY <1>1, DetectorConstants DEF IInv, Typed, Respond, At, storeVars
  <1>3. /\ stage \in [Thread -> StageRecord] /\ msg \in [Thread -> Messages \cup {None}]
        /\ task \in Seq(TaskRecord) /\ DOMAIN task \subseteq Nat
        /\ preloaded \in [Thread -> SUBSET Nat]
    BY DEF AATyped
  <1>4. \A d \in Thread : d # c => call'[d] = call[d]
    BY <1>2
  <1>5. /\ x \in StageRecord /\ x.at = "extract" /\ x.step = step + 1 /\ x.tools = Calls(m)
        /\ x.todo = {} /\ x.found = 0
    <2>1. step + 1 \in 0..MaxStep
      BY <1>2
    <2>2. "extract" \in StagePhase /\ {} \in SUBSET Nat
      BY DEF StagePhase
    <2> QED BY <2>1, <2>2, CallsType, StageType
  <1>6. loaded \subseteq DOMAIN task /\ loaded \in SUBSET Nat
    BY <1>3
  <1>7. \A k \in loaded : /\ task[k].status = "completed" /\ LatestOf(task[k].tool) = k
                          /\ \E i \in DOMAIN Calls(m) : Calls(m)[i] = task[k].tool
    OBVIOUS
  <1> HIDE DEF x, loaded
  <1>8. /\ stage' \in [Thread -> StageRecord] /\ stage'[c] = x
        /\ \A d \in Thread : d # c => stage'[d] = stage[d]
    BY <1>1, <1>3, <1>5, StageNew
  <1>9. /\ preloaded' \in [Thread -> SUBSET Nat] /\ preloaded'[c] = loaded
        /\ \A d \in Thread : d # c => preloaded'[d] = preloaded[d]
    BY <1>1, <1>3, <1>6
  <1>10. AATyped'
    BY <1>1, <1>8, <1>9 DEF AATyped, planVars, taskVars
  <1>11. TasksExist'
    BY <1>1, <1>5, <1>6, <1>8, <1>9 DEF TasksExist, taskVars
  <1>12. CallsBounded'
    <2>1. Unanswered' \in SUBSET (Unanswered \cup {c})
      BY <1>1, <1>3 DEF Unanswered
    <2>2. /\ IsFiniteSet(Unanswered \cup {c}) /\ Cardinality(Unanswered) \in Nat
          /\ Cardinality(Unanswered \cup {c}) \in {Cardinality(Unanswered), Cardinality(Unanswered) + 1}
      BY FS_AddElement, FS_CardinalityType DEF CallsBounded
    <2>3. /\ IsFiniteSet(Unanswered') /\ Cardinality(Unanswered') \in Nat
          /\ Cardinality(Unanswered') <= Cardinality(Unanswered \cup {c})
      BY <2>1, <2>2, FS_Subset, FS_CardinalityType
    <2>4. toolCalls \in Nat /\ toolCalls' = toolCalls /\ toolCalls + Cardinality(Unanswered) <= step
      BY <1>1 DEF CallsBounded, AATyped
    <2> QED BY <1>2, <2>2, <2>3, <2>4 DEF CallsBounded
  <1>13. PlanTimely'
    <2>1. plan \in Nat /\ plan' = plan /\ windowOpen' = windowOpen /\ closedAt' = closedAt /\ plan <= step
      BY <1>1, DetectorConstants DEF AATyped, planVars, PlanTimely
    <2>2. PlanFromPlanning'
      BY <2>1 DEF PlanTimely, PlanFromPlanning
    <2>3. ASSUME NEW d \in Thread
          PROVE  /\ stage'[d].step <= step'
                 /\ stage'[d].at = "keep" /\ ~windowOpen' =>
                        stage'[d].step <= closedAt' \/ stage'[d].step <= PlanHorizon
      <3>1. CASE d = c
        BY <1>2, <1>5, <1>8, <3>1
      <3>2. CASE d # c
        <4>1. stage[d].step \in 0..MaxStep /\ stage'[d] = stage[d] /\ stage[d].step <= step
          BY <1>3, <1>8, <3>2, StageFields DEF PlanTimely
        <4> QED BY <1>2, <2>1, <4>1, DetectorConstants DEF PlanTimely
      <3> QED BY <3>1, <3>2
    <2> QED BY <1>2, <2>1, <2>2, <2>3 DEF PlanTimely
  <1>14. /\ Loads' /\ Escapes' /\ Hooks'
         /\ \A d \in Thread : d # c => \A k \in preloaded'[d] :
                /\ task'[k].load = "ended"
                /\ call'[d].pc \in Predicting /\ Blocks(k)' => ToStamp(d, k)'
    BY <1>1, <1>2, <1>4, <1>5, <1>8, <1>9, HookBegins
  <1>15. PreloadsLoaded'
    <2>1. \A k \in loaded : task'[k].load = "ended"
      BY <1>1, <1>6, <1>7 DEF Loads, TaskHolds, taskVars
    <2> QED BY <1>9, <1>14, <2>1 DEF PreloadsLoaded
  <1>16. Stamping'
    <2>1. \A k \in loaded : ToStamp(c, k)'
      BY <1>1, <1>5, <1>7, <1>8 DEF ToStamp, StampedBy, taskVars
    <2> QED BY <1>9, <1>14, <2>1 DEF Stamping
  <1> QED BY <1>10, <1>11, <1>12, <1>13, <1>14, <1>15, <1>16

LEMMA AAStutter == AAInv /\ UNCHANGED aaVars => AAInv'
  <1> SUFFICES ASSUME AAInv, UNCHANGED aaVars
               PROVE  AAInv'
    OBVIOUS
  <1>1. /\ UNCHANGED <<planVars, toolCalls, msg, stage, taskVars, preloaded>>
        /\ UNCHANGED <<step, ablated, status, call>>
    BY DEF aaVars, vars, storeVars
  <1>2. AATyped' /\ TasksExist' /\ CallsBounded' /\ PlanTimely'
    BY <1>1 DEF AAInv, AATyped, TasksExist, CallsBounded, Unanswered, PlanTimely, PlanFromPlanning,
                planVars, taskVars
  <1>3. Loads' /\ PreloadsLoaded' /\ Escapes' /\ Hooks' /\ Stamping'
    BY <1>1, RestKept
  <1> QED BY <1>2, <1>3 DEF AAInv

\* Each step of the composition keeps both invariants.
LEMMA AANextAAInv == IInv /\ AAInv /\ [AANext]_aaVars => (IInv /\ AAInv)' /\ [Next]_vars
  <1> SUFFICES ASSUME IInv, AAInv, [AANext]_aaVars
               PROVE  (IInv /\ AAInv)' /\ [Next]_vars
    OBVIOUS
  <1>1. [Next]_vars
    BY GuardStep DEF AAInv
  <1>2. IInv'
    BY <1>1, NextIInv
  <1>3. ASSUME AANext
        PROVE  AAInv'
    <2>1. ASSUME NEW c \in Thread, NEW m \in Messages, LlmResponds(c, m)
          PROVE  AAInv'
      BY <2>1, LlmRespondsAAInv
    <2>2. ASSUME NEW c \in Thread,
                 \/ LookForPlan(c) \/ KeepPlan(c) \/ Snapshot(c) \/ LookAtTask(c)
                 \/ FindLatest(c) \/ TestLatest(c) \/ StampLatest(c)
          PROVE  AAInv'
      BY <2>2, PlanStepsAAInv, StampStepsAAInv, ConsumeStepsAAInv, StampLatestAAInv
    <2>3. ASSUME NEW c \in Thread, Deduplicate(c) \/ Register(c) \/ StartLoad(c)
          PROVE  AAInv'
      BY <2>3, SweepStepsAAInv, ReturnsAAInv, RegisterAAInv, StartLoadAAInv
    <2>4. ASSUME NEW c \in Thread,
                 \/ SnapshotToCancel(c) \/ SweepTask(c) \/ SampleCompleted(c)
                 \/ ExecutorCancel(c) \/ ChargeWasted(c) \/ CancelReturns(c)
          PROVE  AAInv'
      BY <2>4, SweepStepsAAInv, CancelTaskAAInv, ReturnsAAInv
    <2>5. ASSUME NEW c \in Thread, ReplyHandler(c) \/ DetectorStep(c)
          PROVE  AAInv'
      BY <2>5, ReplyHandlerAAInv, DetectorStepAAInv
    <2>6. ASSUME NEW k \in DOMAIN task, LoadTests(k) \/ LoadCompletes(k) \/ LoadFails(k)
          PROVE  AAInv'
      BY <2>6, LoadStepsAAInv
    <2> QED BY <1>3, <2>1, <2>2, <2>3, <2>4, <2>5, <2>6 DEF AANext
  <1>4. AAInv'
    BY <1>3, AAStutter
  <1> QED BY <1>1, <1>2, <1>4

\* The invariant of the guard and the adapter holds in every state.
THEOREM AAInductive == AASpec => [](IInv /\ AAInv)
  <1>1. AAInit => IInv /\ AAInv
    BY InitIInv, AAInitAAInv DEF AAInit
  <1>2. (IInv /\ AAInv) /\ [AANext]_aaVars => (IInv /\ AAInv)'
    BY AANextAAInv
  <1> QED BY <1>1, <1>2, PTL DEF AASpec

-------------------------------------------------------------------------------
(* Theorems.                                                               *)

\* The adapter implements the guard's specification: every behaviour of the
\* composed system, restricted to the guard's variables, is one of
\* DivergenceDetector.  What is proved of Spec holds here.
THEOREM ImplementsGuard == AASpec => Spec
  <1>1. AAInit => Init
    BY DEF AAInit
  <1>2. (IInv /\ AAInv) /\ [AANext]_aaVars => [Next]_vars
    BY AANextAAInv
  <1> QED BY <1>1, <1>2, AAInductive, PTL DEF AASpec, Spec

\* The order of the hooks (atomagents.py:200-300): types, the older prediction
\* first, and a plan of the planning phase or of the first responses.
THEOREM HooksOrdered == AASpec => []HooksInOrder
  <1>1. IInv /\ AAInv => HooksInOrder
    <2> SUFFICES ASSUME IInv, AAInv
                 PROVE  HooksInOrder
      OBVIOUS
    <2>1. TypeOK /\ OldestFirst
      BY SoundVerdicts DEF VerdictSound, IInv
    <2>2. toolCalls \in 0..MaxStep
      <3>1. toolCalls \in Nat /\ Cardinality(Unanswered) \in Nat /\ step \in 0..MaxStep
            /\ toolCalls + Cardinality(Unanswered) <= step
        BY FS_CardinalityType DEF AAInv, AATyped, CallsBounded, IInv, Typed
      <3> QED BY <3>1, DetectorConstants
    <2>3. \A k \in DOMAIN task : task[k].status \in {"pending", "used", "failed"} \cup Active \cup GivenUp
      BY TaskFields DEF AAInv, AATyped, TaskStatus
    <2>4. \A c \in Thread : stage[c].at \in
              {"ready", "extract", "keep", "stamp", "consume", "mark", "register", "start",
               "sweep", "sample", "stop", "discard", "waste"}
      BY StageFields DEF AAInv, AATyped, StagePhase, Stamps, Sweeping
    <2>5. AATypeOK
      BY <2>1, <2>2, <2>3, <2>4 DEF AATypeOK, AAInv, AATyped
    <2> QED BY <2>1, <2>5 DEF HooksInOrder, AAInv, PlanTimely
  <1> QED BY <1>1, AAInductive, PTL

\* A load that was complete when a response came never makes the dedup refuse
\* the response's own prefetch (atomagents.py:247-251): it was stamped before, or
\* is not the latest of its resource; whatever the other conversations stamp,
\* cancel, register and load between any two of its steps.
THEOREM StampedBeforeScheduling == AASpec => []ReArmed
  <1>1. IInv /\ AAInv => ReArmed
    <2> SUFFICES ASSUME AAInv, NEW c \in Thread, stage[c] = Ready,
                        call[c].pc \in Predicting, NEW k \in preloaded[c], Blocks(k)
                 PROVE  FALSE
      BY DEF ReArmed, Predicting, Blocks
    <2>1. ToStamp(c, k)
      BY DEF AAInv, Stamping
    <2> QED BY <2>1, ReadyType DEF ToStamp, StampedBy, Stamps
  <1> QED BY <1>1, AAInductive, PTL

\* Between hooks, a prefetch of a diverged checkpoint that is in flight or held
\* was registered after the verdict, or cancelled before it was started, or
\* cancelled after its load's last test, or stamped before it was loaded
\* (detector.py:6-7): any interleaving of the scheduler's unlocked steps leaves
\* these four ways and no other.
THEOREM NoOtherEscape == AASpec => []CancelCatchesStarted
  <1>1. IInv /\ AAInv => CancelCatchesStarted
    <2> SUFFICES ASSUME AAInv, ~ablated, Quiet, NEW k \in DOMAIN task,
                        task[k].status \in Active, status[task[k].ckpt] = "diverged"
                 PROVE  k \in orphan \cup unstarted \cup late \cup early
      BY DEF CancelCatchesStarted
    <2>1. ~BeingCancelled(k)
      BY DEF Quiet, BeingCancelled, Holds
    <2>2. ~Caught(k)
      BY DEF Caught, Active
    <2> QED BY <2>1, <2>2 DEF AAInv, Escapes, Settled, Escaped
  <1> QED BY <1>1, AAInductive, PTL

\* The verdicts, each comparison once, and the inert ablation hold of the
\* composed system too.
THEOREM GuardUnderAdapter == AASpec => []VerdictSound /\ JudgedOnce /\ AblationInert
  <1> QED BY ImplementsGuard, Verdicts, ComparedOnce, AblationIsInert

===============================================================================
