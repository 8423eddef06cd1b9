---------------------------- MODULE ChemGraphProofs ----------------------------
(***************************************************************************)
(* Theorems about the ChemGraph adapter.  First SpecialistRouting, for     *)
(* every set of engines, every plan, every configuration and every number  *)
(* of tasks and turns; then ChemGraphTools, for every predictor, every     *)
(* number of tools, resources and steps, and every length of the           *)
(* conservative window.  The two share no state.                           *)
(***************************************************************************)
EXTENDS SpecialistRouting, ChemGraphTools, SequenceTheorems, FiniteSetTheorems, TLAPS

-------------------------------------------------------------------------------
(* Types.                                                                  *)

Thread == {"callback", "executor"}
Standing == Down \cup Vram \cup {"asleep"}
Machine == [pc : Pc, todo : SUBSET Model, alive : BOOLEAN]
WorkerTask == [task : 0..NTasks, turn : 0..NTurns, marker : Model \cup {None}, consumed : BOOLEAN]

\* The engines worker tasks are routed to.
Own == Specialist \cup {Worker}

Outcome == {"in_progress", "completed", "used", "wasted", "failed"}
Boot == [model : Own, at : 0..NTasks, status : Outcome, told : BOOLEAN]

Routed ==
    /\ config \in Configs
    /\ engine \in [Model -> Standing] /\ thread \in [Thread -> Machine]
    /\ worker \in WorkerTask /\ plan \in Plans \cup {None, <<>>}
    /\ staged \subseteq Model /\ stagedFor \in 0..NTasks /\ aggStarted \in BOOLEAN
    /\ boots \in Seq(Boot)
    /\ transition \in {CacheStage} \cup 0..Len(boots)
    /\ DOMAIN pending \subseteq Model /\ \A m \in DOMAIN pending : pending[m] \in 1..Len(boots)
    /\ current \in 0..Len(boots) /\ (~At("executor", "idle") => current # 0)
    /\ evicting \subseteq Model /\ target \in Model \cup {None} /\ overlooked \subseteq Model

-------------------------------------------------------------------------------
(* Lemmas about the operators of the model.                                *)

\* A configuration names engines.
LEMMA ConfigType ==
  ASSUME config \in Configs
  PROVE  /\ Own \subseteq Model /\ Chosen \in Own /\ Specialist \subseteq Own /\ Worker \in Own
         /\ \A x : ModelFor(x) \in Own
         /\ config.aggregator \in Model \cup {None} /\ config.arm \in {"pool", "sleep_wake", "swap"}
         /\ None \notin Model
  <1>1. /\ {config.worker} \cup config.specialists \subseteq Model
        /\ config.aggregator \in Model \cup {None} /\ config.arm \in {"pool", "sleep_wake", "swap"}
        /\ None \notin Model
    BY RoutingConstants
  <1>2. Own \subseteq Model /\ Specialist \subseteq Own /\ Worker \in Own
    BY <1>1 DEF Own, Specialist, Worker
  <1>3. \A x : ModelFor(x) \in Own
    BY DEF ModelFor, Own
  <1> QED BY <1>1, <1>2, <1>3 DEF Chosen

\* A step of a plan is an engine or the absence of a marker.
LEMMA PlannedType ==
  ASSUME plan \in Plans \cup {None, <<>>}, NEW k
  PROVE  PlannedAt(k) \in Model \cup {None}
  <1>1. CASE plan # None /\ k \in DOMAIN plan
    <2>1. plan \in Seq(Model \cup {None})
      BY <1>1, RoutingConstants
    <2> QED BY <1>1, <2>1 DEF PlannedAt
  <1>2. CASE ~(plan # None /\ k \in DOMAIN plan)
    BY <1>2 DEF PlannedAt
  <1> QED BY <1>1, <1>2

\* What is needed next is an engine of the worker tasks, if anything.
LEMMA NeededType ==
  NeededNext \in Own \cup {None}
  <1> DEFINE others == Specialist \ {Chosen}
  <1>1. others # {} => (CHOOSE m \in others : TRUE) \in Own
    BY DEF Own
  <1>2. \A x : ModelFor(x) \in Own
    BY DEF ModelFor, Own
  <1> QED BY <1>1, <1>2 DEF NeededNext

LEMMA PrebootType ==
  ToPreboot \subseteq Own /\ ToPreboot \cap Running = {}
  BY NeededType DEF ToPreboot, Own

\* A finite set has an order in which each of its elements has one place.
LEMMA InOrder ==
  ASSUME NEW S, IsFiniteSet(S)
  PROVE  /\ SetToSeq(S) \in Seq(S) /\ Len(SetToSeq(S)) = Cardinality(S) /\ Cardinality(S) \in Nat
         /\ DOMAIN SetToSeq(S) = 1..Cardinality(S)
         /\ \A x \in S : \E i \in DOMAIN SetToSeq(S) : SetToSeq(S)[i] = x
         /\ \A i, j \in DOMAIN SetToSeq(S) : SetToSeq(S)[i] = SetToSeq(S)[j] => i = j
  <1> DEFINE n == Cardinality(S)
             f == SetToSeq(S)
  <1>1. n \in Nat /\ ExistsBijection(1..n, S)
    BY FS_CardinalityType
  <1>2. \E g \in [1..n -> S] : IsInjective(g)
    BY <1>1 DEF ExistsBijection, Bijection, Injection
  <1>3. f \in [1..n -> S] /\ IsInjective(f)
    BY <1>2 DEF SetToSeq
  <1>4. f \in Injection(1..n, S)
    BY <1>3 DEF Injection
  <1>5. Cardinality(1..n) = n
    BY <1>1, FS_Interval
  <1>6. f \in Surjection(1..n, S)
    BY <1>4, <1>5, FS_Injection
  <1>7. \A x \in S : \E i \in 1..n : f[i] = x
    BY <1>6 DEF Surjection
  <1>8. \A i, j \in 1..n : f[i] = f[j] => i = j
    BY <1>3 DEF IsInjective
  <1> HIDE DEF f, n
  <1>9. f \in Seq(S) /\ Len(f) = n /\ DOMAIN f = 1..n
    BY <1>1, <1>3
  <1> QED BY <1>1, <1>7, <1>8, <1>9 DEF f, n

-------------------------------------------------------------------------------
(* What the steps do to the state.                                         *)

\* The run has one configuration.
LEMMA ConfigStays ==
  ASSUME Next \/ UNCHANGED vars
  PROVE  config' = config /\ Own' = Own /\ Boot' = Boot
  <1>1. config' = config
    BY DEF Next, Callback, Executor, PlanEnds, RouteTask, NextTurn, Decide, StopOverlapping, StartOnDemand,
       SwapBegins, SwapSleeps, SwapBrings, SwapServes, Consume, Wait, Flip, Maintain, Ask, Answer,
       StageTransition, EnsembleStarts, AggregatorAgent, AggregatorReady, TakeBoot, StartBoot, BootEnds,
       ReapWasted, EvictOne, EngineReady, EngineFails, vars
  <1> QED BY <1>1 DEF Own, Boot, Specialist, Worker

\* Most steps leave the boots alone.
BootsAlone ==
    \/ \E m \in Model : EvictOne(m) \/ EngineReady(m) \/ EngineFails(m)
    \/ \E t \in Thread : StopOverlapping(t) \/ SwapBegins(t) \/ SwapSleeps(t) \/ SwapBrings(t)
    \/ NextTurn \/ Decide \/ StartOnDemand \/ SwapServes \/ Wait \/ Flip \/ Ask \/ Answer
    \/ StageTransition \/ EnsembleStarts \/ AggregatorAgent \/ AggregatorReady
    \/ TakeBoot \/ StartBoot \/ ReapWasted

LEMMA StepKinds ==
  ASSUME Next
  PROVE  \/ BootsAlone
         \/ \E p \in Plans, extracted \in BOOLEAN : PlanEnds(p, extracted)
         \/ \E x \in Specialist \cup {None} : RouteTask(x)
         \/ Consume \/ Maintain \/ BootEnds
  BY DEF Next, Callback, Executor, BootsAlone, Thread

LEMMA BootsStay ==
  ASSUME BootsAlone
  PROVE  boots' = boots
  BY DEF BootsAlone, NextTurn, Decide, StopOverlapping, StartOnDemand,
     SwapBegins, SwapSleeps, SwapBrings, SwapServes, Wait, Flip, Ask, Answer,
     StageTransition, EnsembleStarts, AggregatorAgent, AggregatorReady, TakeBoot, StartBoot,
     ReapWasted, EvictOne, EngineReady, EngineFails

\* Consumption and cancellation keep what a boot is for.
LEMMA EditedBoot ==
  ASSUME NEW b \in Boot
  PROVE  /\ Used(b) \in Boot /\ Used(b).model = b.model
         /\ Cancelled(b) \in Boot /\ Cancelled(b).model = b.model
  <1> DEFINE Times == 0..NTasks
  <1>1. Boot = [model : Own, at : Times, status : Outcome, told : BOOLEAN]
    BY DEF Boot
  <1>2. {"used", "wasted"} \subseteq Outcome
    BY DEF Outcome
  <1> HIDE DEF Times
  <1>3. [b EXCEPT !.status = "used"] \in Boot /\ [b EXCEPT !.status = "used"].model = b.model
    BY <1>1, <1>2
  <1>4. [b EXCEPT !.told = TRUE] \in Boot /\ [b EXCEPT !.told = TRUE].model = b.model
    BY <1>1
  <1>5. /\ [b EXCEPT !.told = TRUE, !.status = "wasted"] \in Boot
        /\ [b EXCEPT !.told = TRUE, !.status = "wasted"].model = b.model
    BY <1>1, <1>2
  <1>6. Used(b) \in Boot /\ Used(b).model = b.model
    BY <1>3 DEF Used
  <1>7. CASE b.status = "in_progress"
    BY <1>4, <1>6, <1>7 DEF Cancelled
  <1>8. CASE b.status = "completed"
    BY <1>5, <1>6, <1>8 DEF Cancelled
  <1>9. CASE b.status \notin {"in_progress", "completed"}
    BY <1>6, <1>9 DEF Cancelled
  <1> QED BY <1>7, <1>8, <1>9

\* The boots pre-booting adds.
Fresh == {m \in ToPreboot : ~(m \in DOMAIN pending \/ Scheduled(m, worker.task))}

LEMMA MaintainIs ==
  ASSUME Routed, Maintain
  PROVE  /\ boots' \in Seq(Boot) /\ Len(boots') = Len(boots) + Cardinality(Fresh)
         /\ Cardinality(Fresh) \in Nat /\ Fresh \subseteq Own
         /\ \A b \in 1..Len(boots) : boots'[b] = boots[b]
         /\ \A b \in (Len(boots) + 1)..Len(boots') : boots'[b].model \in Fresh
         /\ \A b, c \in (Len(boots) + 1)..Len(boots') : boots'[b].model = boots'[c].model => b = c
         /\ \A m \in Fresh : \E b \in (Len(boots) + 1)..Len(boots') : boots'[b].model = m
         /\ DOMAIN pending' = (DOMAIN pending \ Idle) \cup Fresh
         /\ DOMAIN pending' \subseteq Model
         /\ \A m \in DOMAIN pending' : pending'[m] \in 1..Len(boots')
         /\ \A m \in DOMAIN pending' : \/ m \in DOMAIN pending /\ pending'[m] = pending[m]
                                      \/ boots'[pending'[m]].model = m
  <1> DEFINE n == Cardinality(Fresh)
             queue == SetToSeq(Fresh)
             new == [i \in DOMAIN queue |-> NewBoot(queue[i], worker.task)]
             number(m) == Len(boots) + (CHOOSE i \in DOMAIN queue : queue[i] = m)
  <1>1. Own \subseteq Model /\ Fresh \subseteq Own
    BY ConfigType, PrebootType DEF Routed, Fresh
  <1>2. IsFiniteSet(Fresh)
    BY <1>1, RoutingConstants, FS_Subset
  <1>3. /\ queue \in Seq(Fresh) /\ n \in Nat /\ DOMAIN queue = 1..n
        /\ \A m \in Fresh : \E i \in DOMAIN queue : queue[i] = m
        /\ \A i, j \in DOMAIN queue : queue[i] = queue[j] => i = j
    BY <1>2, InOrder
  <1>4. Fresh = ToPreboot \ {m \in ToPreboot : m \in DOMAIN pending \/ Scheduled(m, worker.task)}
    BY DEF Fresh
  <1>5. /\ boots' = boots \o new
        /\ DOMAIN pending' = (DOMAIN pending \ Idle) \cup Fresh
        /\ \A m \in DOMAIN pending' : pending'[m] = IF m \in Fresh THEN number(m) ELSE pending[m]
    BY <1>4 DEF Maintain
  <1> HIDE DEF queue
  <1>6. \A i \in 1..n : queue[i] \in Own /\ NewBoot(queue[i], worker.task) \in Boot
    <2>1. worker.task \in 0..NTasks
      BY DEF Routed, WorkerTask
    <2>2. \A i \in 1..n : queue[i] \in Own
      BY <1>1, <1>3
    <2> QED BY <2>1, <2>2 DEF NewBoot, Boot, Outcome
  <1>7. new \in Seq(Boot) /\ Len(new) = n /\ \A i \in 1..n : new[i].model = queue[i]
    BY <1>3, <1>6 DEF NewBoot
  <1>8. boots \in Seq(Boot) /\ Len(boots) \in Nat
    BY DEF Routed
  <1>9. \A m \in Fresh : /\ number(m) \in (Len(boots) + 1)..(Len(boots) + n)
                         /\ queue[number(m) - Len(boots)] = m
    <2> TAKE m \in Fresh
    <2> DEFINE i == CHOOSE i \in DOMAIN queue : queue[i] = m
    <2>1. i \in 1..n /\ queue[i] = m
      BY <1>3
    <2> HIDE DEF i
    <2>2. (Len(boots) + i) \in (Len(boots) + 1)..(Len(boots) + n) /\ (Len(boots) + i) - Len(boots) = i
      BY <1>3, <1>8, <2>1
    <2> QED BY <2>1, <2>2 DEF i
  <1> HIDE DEF new, number
  <1>10. /\ boots' \in Seq(Boot) /\ Len(boots') = Len(boots) + n
         /\ \A b \in 1..Len(boots) : boots'[b] = boots[b]
         /\ \A b \in (Len(boots) + 1)..(Len(boots) + n) : boots'[b] = new[b - Len(boots)]
    <2>1. boots' = boots \o new
      BY <1>5
    <2>2. /\ boots \o new \in Seq(Boot) /\ Len(boots \o new) = Len(boots) + n
          /\ \A b \in 1..Len(boots) : (boots \o new)[b] = boots[b]
          /\ \A b \in (Len(boots) + 1)..(Len(boots) + n) : (boots \o new)[b] = new[b - Len(boots)]
      BY <1>7, <1>8
    <2> QED BY <2>1, <2>2
  <1>13. \A b \in (Len(boots) + 1)..(Len(boots) + n) :
            \E i \in 1..n : b = Len(boots) + i /\ boots'[b].model = queue[i]
    <2> TAKE b \in (Len(boots) + 1)..(Len(boots) + n)
    <2> DEFINE k == b - Len(boots)
    <2>1. k \in 1..n /\ b = Len(boots) + k
      BY <1>3, <1>8
    <2>2. boots'[b] = new[k]
      BY <1>10
    <2> HIDE DEF k, n
    <2>3. boots'[b].model = queue[k]
      BY <1>7, <2>1, <2>2
    <2> QED BY <2>1, <2>3
  <1>14. \A b \in (Len(boots) + 1)..Len(boots') : boots'[b].model \in Fresh
    <2> TAKE b \in (Len(boots) + 1)..Len(boots')
    <2>1. PICK i \in 1..n : boots'[b].model = queue[i]
      BY <1>10, <1>13
    <2>2. queue[i] \in Fresh
      BY <1>3
    <2> QED BY <2>1, <2>2
  <1>15. \A b, c \in (Len(boots) + 1)..Len(boots') : boots'[b].model = boots'[c].model => b = c
    <2> TAKE b \in (Len(boots) + 1)..Len(boots'), c \in (Len(boots) + 1)..Len(boots')
    <2> HAVE boots'[b].model = boots'[c].model
    <2>1. PICK i \in 1..n : b = Len(boots) + i /\ boots'[b].model = queue[i]
      BY <1>10, <1>13
    <2>2. PICK j \in 1..n : c = Len(boots) + j /\ boots'[c].model = queue[j]
      BY <1>10, <1>13
    <2>3. i = j
      BY <1>3, <2>1, <2>2
    <2> QED BY <2>1, <2>2, <2>3
  <1>16. \A m \in Fresh : \E b \in (Len(boots) + 1)..Len(boots') : boots'[b].model = m
    <2> TAKE m \in Fresh
    <2>1. PICK i \in 1..n : queue[i] = m
      BY <1>3
    <2>2. Len(boots) + i \in (Len(boots) + 1)..(Len(boots) + n) /\ (Len(boots) + i) - Len(boots) = i
      BY <1>3, <1>8
    <2>3. boots'[Len(boots) + i].model = m
      <3>1. PICK j \in 1..n : Len(boots) + i = Len(boots) + j /\ boots'[Len(boots) + i].model = queue[j]
        BY <1>13, <2>2
      <3>2. i = j
        BY <1>3, <1>8, <3>1
      <3> QED BY <2>1, <3>1, <3>2
    <2> QED BY <1>10, <2>2, <2>3
  <1>11. DOMAIN pending \subseteq Model /\ \A m \in DOMAIN pending : pending[m] \in 1..Len(boots)
    BY DEF Routed
  <1>12. \A m \in DOMAIN pending' : pending'[m] \in 1..Len(boots')
    <2> TAKE m \in DOMAIN pending'
    <2>1. CASE m \in Fresh
      BY <1>3, <1>5, <1>8, <1>9, <1>10, <2>1
    <2>2. CASE m \notin Fresh
      BY <1>3, <1>5, <1>8, <1>10, <1>11, <2>2
    <2> QED BY <2>1, <2>2
  <1>17. \A m \in DOMAIN pending' : \/ m \in DOMAIN pending /\ pending'[m] = pending[m]
                                   \/ boots'[pending'[m]].model = m
    <2> TAKE m \in DOMAIN pending'
    <2>1. CASE m \in Fresh
      <3>1. pending'[m] = number(m) /\ number(m) \in (Len(boots) + 1)..(Len(boots) + n)
        BY <1>5, <1>9, <2>1
      <3>2. PICK i \in 1..n : number(m) = Len(boots) + i /\ boots'[number(m)].model = queue[i]
        BY <1>13, <3>1
      <3>3. number(m) - Len(boots) = i
        BY <1>3, <1>8, <3>2
      <3> QED BY <1>9, <2>1, <3>1, <3>2, <3>3
    <2> QED BY <1>5, <2>1
  <1> QED BY <1>1, <1>3, <1>5, <1>10, <1>11, <1>12, <1>14, <1>15, <1>16, <1>17

\* The end of the load of the boot in hand.
LEMMA BootEndsIs ==
  ASSUME Routed, BootEnds
  PROVE  /\ boots' \in Seq(Boot) /\ Len(boots') = Len(boots)
         /\ \A b \in 1..Len(boots) : boots'[b].model = boots[b].model
  <1> DEFINE b == boots[current]
             up == engine[b.model] = "ready"
             to == CASE up /\ b.told -> "wasted"
                     [] b.status # "in_progress" /\ ~(up /\ b.told) -> b.status
                     [] b.status = "in_progress" /\ up /\ ~b.told -> "completed"
                     [] OTHER -> "failed"
             r == [b EXCEPT !.status = to]
  <1>1. boots \in Seq(Boot) /\ Len(boots) \in Nat /\ current \in 1..Len(boots)
    BY DEF Routed, BootEnds, At
  <1>2. b \in Boot
    BY <1>1
  <1>3. boots' = [boots EXCEPT ![current] = r]
    BY DEF BootEnds
  <1> HIDE DEF b
  <1>4. b.status \in Outcome
    BY <1>2 DEF Boot
  <1>5. to \in Outcome
    BY <1>4 DEF Outcome
  <1> HIDE DEF to
  <1>6. r \in Boot /\ r.model = b.model
    BY <1>2, <1>5 DEF Boot
  <1> HIDE DEF r
  <1> QED BY <1>1, <1>3, <1>6 DEF b

\* No step takes a boot back, or makes it one of another engine.
LEMMA BootsStep ==
  ASSUME Routed, Next
  PROVE  /\ boots' \in Seq(Boot) /\ Len(boots') >= Len(boots) /\ Len(boots) \in Nat
         /\ \A b \in 1..Len(boots) : boots'[b].model = boots[b].model
  <1>1. boots \in Seq(Boot) /\ Len(boots) \in Nat /\ \A b \in 1..Len(boots) : boots[b] \in Boot
    BY DEF Routed
  <1>2. CASE BootsAlone
    BY <1>1, <1>2, BootsStay
  <1>3. ASSUME NEW p \in Plans, NEW extracted \in BOOLEAN, PlanEnds(p, extracted)
        PROVE  /\ boots' \in Seq(Boot) /\ Len(boots') >= Len(boots)
               /\ \A b \in 1..Len(boots) : boots'[b].model = boots[b].model
    <2>1. boots' = boots \/ \E x : boots' = Append(boots, NewBoot(ModelFor(x), 0)) \/ boots' = Append(boots, NewBoot(Worker, 0))
      BY <1>3 DEF PlanEnds, PrefetchWorker
    <2>2. \A m \in Own : NewBoot(m, 0) \in Boot
      BY RoutingConstants DEF NewBoot, Boot, Outcome
    <2>3. boots' = boots \/ \E r \in Boot : boots' = Append(boots, r)
      BY <2>1, <2>2, ConfigType DEF Routed
    <2> QED BY <1>1, <2>3
  <1>4. ASSUME NEW x \in Specialist \cup {None}, RouteTask(x)
        PROVE  /\ boots' \in Seq(Boot) /\ Len(boots') >= Len(boots)
               /\ \A b \in 1..Len(boots) : boots'[b].model = boots[b].model
    <2>1. \/ boots' = boots
          \/ boots' = [b \in DOMAIN boots |-> IF b = transition THEN Cancelled(boots[b]) ELSE boots[b]]
      BY <1>4 DEF RouteTask
    <2>2. \A b \in 1..Len(boots) : /\ Cancelled(boots[b]) \in Boot
                                   /\ Cancelled(boots[b]).model = boots[b].model
      BY <1>1, EditedBoot
    <2> QED BY <1>1, <2>1, <2>2
  <1>5. CASE Consume
    <2>1. \/ boots' = boots
          \/ \E S : boots' = [b \in DOMAIN boots |-> IF b \in S THEN Used(boots[b]) ELSE boots[b]]
      BY <1>5 DEF Consume
    <2>2. \A b \in 1..Len(boots) : Used(boots[b]) \in Boot /\ Used(boots[b]).model = boots[b].model
      BY <1>1, EditedBoot
    <2> QED BY <1>1, <2>1, <2>2
  <1>6. CASE Maintain
    BY <1>1, <1>6, MaintainIs
  <1>7. CASE BootEnds
    BY <1>1, <1>7, BootEndsIs
  <1> QED BY <1>1, <1>2, <1>3, <1>4, <1>5, <1>6, <1>7, StepKinds

\* How an engine may move in a step: it comes up by itself, is stopped or put to
\* sleep, or is started or woken by a thread that has made room for it; the
\* aggregator is started on GPUs of its own.
Moves(m) ==
    \/ engine'[m] = engine[m]
    \/ engine'[m] \notin Vram /\ (engine[m] \in Down => engine'[m] \in Down)
    \/ engine[m] = "loading" /\ engine'[m] = "ready"
    \/ \E t \in Thread : thread[t].pc \in {"start", "bring"} /\ m = Subject(t)
    \/ m = config.aggregator

LEMMA SetIs ==
  ASSUME engine \in [Model -> Standing], NEW m \in Model, NEW s \in Standing, Set(m, s)
  PROVE  /\ engine' \in [Model -> Standing] /\ engine'[m] = s
         /\ \A n \in Model : n # m => engine'[n] = engine[n]
  BY DEF Set

LEMMA StartIs ==
  ASSUME engine \in [Model -> Standing], NEW m \in Model, Start(m)
  PROVE  /\ engine' \in [Model -> Standing]
         /\ \A n \in Model : n # m => engine'[n] = engine[n]
  <1>1. {"loading", "raced"} \subseteq Standing
    BY DEF Standing, Down, Vram
  <1> QED BY <1>1, SetIs DEF Start

LEMMA SubjectType ==
  ASSUME Routed
  PROVE  /\ Subject("callback") \in Own /\ Own \subseteq Model
         /\ ~At("executor", "idle") => Subject("executor") \in Own
  <1>1. Chosen \in Own /\ Own \subseteq Model
    BY ConfigType DEF Routed
  <1>2. ASSUME ~At("executor", "idle")
        PROVE  boots[current].model \in Own
    <2>1. boots \in Seq(Boot) /\ current \in 1..Len(boots)
      BY <1>2 DEF Routed
    <2>2. boots[current] \in Boot
      BY <2>1
    <2> QED BY <2>2 DEF Boot
  <1> QED BY <1>1, <1>2 DEF Subject

LEMMA EngineIs ==
  ASSUME Routed, Next
  PROVE  engine' \in [Model -> Standing] /\ \A m \in Model : Moves(m)
  <1>1. engine \in [Model -> Standing]
    BY DEF Routed
  <1>2. /\ Down \subseteq Standing /\ Vram \subseteq Standing /\ "asleep" \in Standing
        /\ {"off", "evicted", "wasted", "failed", "raced"} = Down /\ {"loading", "ready"} = Vram
        /\ Down \cap Vram = {} /\ "asleep" \notin Vram /\ "asleep" \notin Down
    BY DEF Standing, Down, Vram
  \* One engine moves, the others stay.
  <1>3. ASSUME NEW m \in Model, NEW s \in Standing, Set(m, s), engine'[m] = s => Moves(m)
        PROVE  engine' \in [Model -> Standing] /\ \A n \in Model : Moves(n)
    <2>1. /\ engine' \in [Model -> Standing] /\ engine'[m] = s
          /\ \A n \in Model : n # m => engine'[n] = engine[n]
      BY <1>1, <1>3, SetIs
    <2> QED BY <1>3, <2>1 DEF Moves
  <1>4. ASSUME NEW t \in Thread, thread[t].pc \in {"start", "bring"}, Subject(t) \in Model,
               Start(Subject(t)) \/ Set(Subject(t), "ready")
        PROVE  engine' \in [Model -> Standing] /\ \A n \in Model : Moves(n)
    <2>1. Moves(Subject(t))
      BY <1>4 DEF Moves
    <2>2. {"loading", "raced", "ready"} \subseteq Standing
      BY <1>2
    <2> QED BY <1>3, <1>4, <2>1, <2>2 DEF Start
  <1>5. ASSUME NEW m \in Model, NEW s \in Standing \ Vram, Set(m, s), engine[m] \in Down => s \in Down
        PROVE  engine' \in [Model -> Standing] /\ \A n \in Model : Moves(n)
    <2>1. engine'[m] = s => Moves(m)
      BY <1>5 DEF Moves
    <2> QED BY <1>3, <1>5, <2>1
  <1>6. ASSUME engine' = engine
        PROVE  engine' \in [Model -> Standing] /\ \A n \in Model : Moves(n)
    BY <1>1, <1>6 DEF Moves
  <1>7. Subject("callback") \in Model /\ Subject("callback") = Chosen
    BY SubjectType DEF Subject
  <1>8. ASSUME NEW m \in Model, EngineReady(m) \/ EngineFails(m)
        PROVE  engine' \in [Model -> Standing] /\ \A n \in Model : Moves(n)
    <2>1. CASE EngineReady(m)
      <3>1. engine[m] = "loading" /\ Set(m, "ready") /\ "ready" \in Standing
        BY <1>2, <2>1 DEF EngineReady
      <3>2. engine'[m] = "ready" => Moves(m)
        BY <3>1 DEF Moves
      <3> QED BY <1>3, <3>1, <3>2
    <2>2. CASE EngineFails(m)
      BY <1>2, <1>5, <2>2 DEF EngineFails
    <2> QED BY <1>8, <2>1, <2>2
  <1>9. ASSUME NEW p \in Plans, NEW extracted \in BOOLEAN, PlanEnds(p, extracted)
        PROVE  engine' \in [Model -> Standing] /\ \A n \in Model : Moves(n)
    <2>1. \/ engine' = engine \/ \E m \in Model : ReleaseGpusFor(m)
      BY <1>9, ConfigType DEF PlanEnds, PrefetchWorker, Routed
    <2>2. \/ engine' = engine \/ \E r \in Running : Set(r, "asleep") \/ Set(r, "off")
      BY <2>1 DEF ReleaseGpusFor
    <2>3. ASSUME NEW r \in Running, Set(r, "asleep") \/ Set(r, "off")
          PROVE  engine' \in [Model -> Standing] /\ \A n \in Model : Moves(n)
      <3>1. r \in Model /\ engine[r] \notin Down
        BY <2>3 DEF Running
      <3> QED BY <1>2, <1>5, <2>3, <3>1
    <2> QED BY <1>6, <2>2, <2>3
  <1>10. ASSUME NEW t \in Thread, StopOverlapping(t) \/ SwapSleeps(t)
         PROVE  engine' \in [Model -> Standing] /\ \A n \in Model : Moves(n)
    <2>1. thread[t].todo \subseteq Model
      BY DEF Routed, Machine
    <2>2. CASE StopOverlapping(t)
      <3>1. engine' = engine \/ \E m \in Model : Set(m, "off")
        BY <2>1, <2>2 DEF StopOverlapping
      <3> QED BY <1>2, <1>5, <1>6, <3>1
    <2>3. CASE SwapSleeps(t)
      <3>1. engine' = engine \/ \E m \in Model : \E s \in Sleeps(engine[m]) : Set(m, s)
        BY <2>1, <2>3 DEF SwapSleeps
      <3>2. ASSUME NEW m \in Model, NEW s \in Sleeps(engine[m]), Set(m, s)
            PROVE  engine' \in [Model -> Standing] /\ \A n \in Model : Moves(n)
        <4>1. engine[m] \in Standing
          BY <1>1
        <4>2. s \in Standing \ Vram /\ (engine[m] \in Down => s \in Down)
          BY <4>1, <3>2, <1>2 DEF Sleeps, Standing
        <4> QED BY <1>5, <3>2, <4>2
      <3> QED BY <1>6, <3>1, <3>2
    <2> QED BY <1>10, <2>2, <2>3
  <1>11. ASSUME NEW t \in Thread, SwapBrings(t)
         PROVE  engine' \in [Model -> Standing] /\ \A n \in Model : Moves(n)
    <2>1. thread[t].pc = "bring" /\ (engine' = engine \/ Start(Subject(t)) \/ Set(Subject(t), "ready"))
      BY <1>11 DEF SwapBrings, At
    <2>2. Subject(t) \in Model
      BY <2>1, SubjectType DEF Thread, At
    <2> QED BY <1>4, <1>6, <2>1, <2>2
  <1>12. CASE StartOnDemand
    <2>1. thread["callback"].pc = "start" /\ Start(Subject("callback")) /\ "callback" \in Thread
      BY <1>7, <1>12 DEF StartOnDemand, At, Thread
    <2> QED BY <1>4, <1>7, <2>1
  <1>13. CASE StartBoot
    <2>1. thread["executor"].pc = "start" /\ Start(Subject("executor")) /\ "executor" \in Thread
      BY <1>13 DEF StartBoot, At, Thread
    <2>2. Subject("executor") \in Model
      BY <2>1, SubjectType DEF At
    <2> QED BY <1>4, <2>1, <2>2
  <1>14. CASE ReapWasted
    <2>1. engine' = engine \/ (Subject("executor") \in Running /\ Set(Subject("executor"), "wasted"))
      BY <1>14 DEF ReapWasted
    <2>2. Subject("executor") \in Running => Subject("executor") \in Model /\ engine[Subject("executor")] \notin Down
      BY DEF Running
    <2> QED BY <1>2, <1>5, <1>6, <2>1, <2>2
  <1>15. CASE EnsembleStarts \/ AggregatorAgent
    <2>1. config.aggregator \in Model /\ (engine' = engine \/ Start(config.aggregator))
      BY <1>15, ConfigType DEF EnsembleStarts, AggregatorAgent, Routed
    <2>2. Moves(config.aggregator) /\ {"loading", "raced"} \subseteq Standing
      BY <1>2 DEF Moves
    <2> QED BY <1>3, <1>6, <2>1, <2>2 DEF Start
  <1>16. ASSUME NEW m \in Model, EvictOne(m)
         PROVE  engine' \in [Model -> Standing] /\ \A n \in Model : Moves(n)
    <2>1. engine' = engine \/ Set(m, "evicted")
      BY <1>16 DEF EvictOne
    <2> QED BY <1>2, <1>5, <1>6, <2>1
  <1>17. CASE \/ \E x \in Specialist \cup {None} : RouteTask(x)
              \/ \E t \in Thread : SwapBegins(t)
              \/ NextTurn \/ Decide \/ SwapServes \/ Consume \/ Wait \/ Flip \/ Maintain \/ Ask \/ Answer
              \/ StageTransition \/ AggregatorReady \/ TakeBoot \/ BootEnds
    <2>1. engine' = engine
      BY <1>17 DEF RouteTask, SwapBegins, NextTurn, Decide, SwapServes, Consume, Wait, Flip, Maintain, Ask,
         Answer, StageTransition, AggregatorReady, TakeBoot, BootEnds
    <2> QED BY <1>6, <2>1
  <1> QED BY <1>8, <1>9, <1>10, <1>11, <1>12, <1>13, <1>14, <1>15, <1>16, <1>17
          DEF Next, Callback, Executor, Thread

\* Where a thread brings an engine up: while it makes room, and when it starts.
Rooming == {"stop", "sleep"}
Starting == {"start", "bring"}

\* How a thread may move while it brings an engine up.
Turns(t) ==
    \/ thread'[t] = thread[t] /\ Subject(t)' = Subject(t)
    \/ thread'[t].pc \notin Rooming \cup Starting
    \/ thread'[t].pc \in Rooming /\ thread'[t].todo = InTheWay(Subject(t)') /\ engine' = engine
    \/ /\ thread[t].pc \in Rooming /\ thread'[t].pc = thread[t].pc /\ Subject(t)' = Subject(t)
       /\ \E m \in Model : thread'[t].todo = thread[t].todo \ {m} /\ engine'[m] \notin Vram
    \/ /\ thread[t].pc \in Rooming /\ thread[t].todo = {} /\ thread'[t].pc \in Starting
       /\ Subject(t)' = Subject(t) /\ engine' = engine
    \/ /\ t = "executor" /\ config.arm = "swap" /\ current < Len(boots) /\ current' = current + 1
       /\ engine' = engine /\ thread'[t].pc \in Starting /\ Subject(t)' = boots[current + 1].model

LEMMA SubjectStays ==
  ASSUME Routed, Next
  PROVE  /\ ~At("callback", "idle") => Subject("callback")' = Subject("callback")
         /\ ~At("executor", "idle") => Subject("executor")' = Subject("executor")
  <1>1. config' = config
    BY ConfigStays
  <1>2. ASSUME ~At("callback", "idle")
        PROVE  Chosen' = Chosen
    <2>1. worker'.marker = worker.marker
      <3>1. worker \in WorkerTask
        BY DEF Routed
      <3>2. CASE worker' = worker
        BY <3>2
      <3>3. CASE Consume
        <4>1. worker' = [worker EXCEPT !.consumed = TRUE]
          BY <3>3 DEF Consume
        <4> QED BY <3>1, <4>1 DEF WorkerTask
      <3>4. worker' = worker \/ Consume
        BY <1>2 DEF Next, Callback, Executor, PlanEnds, RouteTask, NextTurn, Decide, StopOverlapping,
           StartOnDemand, SwapBegins, SwapSleeps, SwapBrings, SwapServes, Wait, Flip, Maintain, Ask, Answer,
           StageTransition, EnsembleStarts, AggregatorAgent, AggregatorReady, TakeBoot, StartBoot, BootEnds,
           ReapWasted, EvictOne, EngineReady, EngineFails, adapter
      <3> QED BY <3>2, <3>3, <3>4
    <2> QED BY <1>1, <2>1 DEF Chosen, ModelFor, Specialist, Worker
  <1>3. ASSUME ~At("executor", "idle")
        PROVE  boots'[current'].model = boots[current].model
    <2>1. current' = current
      BY <1>3 DEF Next, Callback, Executor, PlanEnds, RouteTask, NextTurn, Decide, StopOverlapping,
         StartOnDemand, SwapBegins, SwapSleeps, SwapBrings, SwapServes, Consume, Wait, Flip, Maintain, Ask,
         Answer, StageTransition, EnsembleStarts, AggregatorAgent, AggregatorReady, TakeBoot, StartBoot,
         BootEnds, ReapWasted, EvictOne, EngineReady, EngineFails
    <2>2. current \in 1..Len(boots)
      BY <1>3, BootsStep DEF Routed
    <2> QED BY <2>1, <2>2, BootsStep
  <1> QED BY <1>2, <1>3 DEF Subject

\* Threads move one at a time.
LEMMA MachineIs ==
  ASSUME Routed, Next
  PROVE  thread' \in [Thread -> Machine] /\ \A t \in Thread : Turns(t)
  <1>1. thread \in [Thread -> Machine]
    BY DEF Routed
  <1>2. /\ {"idle", "decide", "consume", "wait", "flip", "maintain", "serving", "asked", "aggregate",
            "reap", "done", "lost", "unserved", "swap", "load"} \cap (Rooming \cup Starting) = {}
        /\ {"idle", "decide", "stop", "start", "swap", "sleep", "bring", "load", "consume",
            "wait", "flip", "maintain", "serving", "asked", "aggregate", "reap", "done", "lost",
            "unserved"} = Pc
    BY DEF Rooming, Starting, Pc
  \* A thread that does not bring an engine up, or still does the same.
  <1>3. ASSUME NEW t \in Thread, thread'[t] = thread[t]
        PROVE  Turns(t)
    <2>1. CASE thread[t].pc = "idle"
      BY <1>2, <1>3, <2>1 DEF Turns
    <2>2. CASE thread[t].pc # "idle"
      BY <1>3, <2>2, SubjectStays DEF Turns, At, Thread
    <2> QED BY <2>1, <2>2
  <1>4. ASSUME NEW t \in Thread, NEW r \in Machine, thread' = [thread EXCEPT ![t] = r], r = thread'[t] => Turns(t)
        PROVE  thread' \in [Thread -> Machine] /\ \A u \in Thread : Turns(u)
    <2>1. thread' \in [Thread -> Machine] /\ thread'[t] = r /\ \A u \in Thread : u # t => thread'[u] = thread[u]
      BY <1>1, <1>4
    <2> QED BY <1>3, <1>4, <2>1
  <1>5. ASSUME thread' = thread
        PROVE  thread' \in [Thread -> Machine] /\ \A u \in Thread : Turns(u)
    BY <1>1, <1>3, <1>5
  <1>6. ASSUME NEW t \in Thread, NEW p \in Pc \ (Rooming \cup Starting), Goto(t, p)
        PROVE  thread' \in [Thread -> Machine] /\ \A u \in Thread : Turns(u)
    <2> DEFINE r == [thread[t] EXCEPT !.pc = p]
    <2>1. r \in Machine /\ r.pc = p
      BY <1>1 DEF Machine
    <2>2. thread' = [thread EXCEPT ![t] = r]
      BY <1>6 DEF Goto
    <2> HIDE DEF r
    <2>3. r = thread'[t] => Turns(t)
      BY <1>6, <2>1 DEF Turns
    <2> QED BY <1>4, <2>1, <2>2, <2>3
  <1>7. ASSUME NEW t \in Thread, NEW p \in Starting, Goto(t, p), thread[t].pc \in Rooming, thread[t].todo = {},
               engine' = engine
        PROVE  thread' \in [Thread -> Machine] /\ \A u \in Thread : Turns(u)
    <2> DEFINE r == [thread[t] EXCEPT !.pc = p]
    <2>1. r \in Machine /\ r.pc = p
      BY <1>1, <1>2 DEF Machine, Starting
    <2>2. thread' = [thread EXCEPT ![t] = r]
      BY <1>7 DEF Goto
    <2> HIDE DEF r
    <2>3. Subject(t)' = Subject(t)
      BY <1>7, SubjectStays DEF At, Rooming, Thread
    <2>4. r = thread'[t] => Turns(t)
      BY <1>7, <2>1, <2>3 DEF Turns
    <2> QED BY <1>4, <2>1, <2>2, <2>4
  <1>8. ASSUME NEW t \in Thread, NEW m \in Model, thread' = [thread EXCEPT ![t].todo = @ \ {m}],
               thread[t].pc \in Rooming, engine'[m] \notin Vram
        PROVE  thread' \in [Thread -> Machine] /\ \A u \in Thread : Turns(u)
    <2> DEFINE r == [thread[t] EXCEPT !.todo = @ \ {m}]
    <2>1. r \in Machine /\ r.pc = thread[t].pc /\ r.todo = thread[t].todo \ {m}
      BY <1>1 DEF Machine
    <2>2. thread' = [thread EXCEPT ![t] = r]
      BY <1>8
    <2> HIDE DEF r
    <2>3. Subject(t)' = Subject(t)
      BY <1>8, SubjectStays DEF At, Rooming, Thread
    <2>4. r = thread'[t] => Turns(t)
      BY <1>8, <2>1, <2>3 DEF Turns
    <2> QED BY <1>4, <2>1, <2>2, <2>4
  <1>9. "callback" \in Thread /\ "executor" \in Thread /\ Subject("callback") = Chosen
    BY DEF Thread, Subject
  <1>10. \A m : InTheWay(m) \subseteq Model
    BY DEF InTheWay, Running
  <1>11. CASE \/ \E m \in Model : EvictOne(m) \/ EngineReady(m) \/ EngineFails(m)
              \/ \E p \in Plans, extracted \in BOOLEAN : PlanEnds(p, extracted)
              \/ StageTransition \/ EnsembleStarts
    <2>1. thread' = thread
      BY <1>11 DEF EvictOne, EngineReady, EngineFails, PlanEnds, StageTransition, EnsembleStarts
    <2> QED BY <1>5, <2>1
  <1>12. CASE \/ \E x \in Specialist \cup {None} : RouteTask(x)
              \/ NextTurn \/ StartOnDemand \/ SwapServes \/ Consume \/ Wait \/ Flip \/ Maintain
              \/ Ask \/ Answer \/ AggregatorAgent \/ AggregatorReady
    <2>1. \E p \in Pc \ (Rooming \cup Starting) : Goto("callback", p)
      <3>1. CASE \E x \in Specialist \cup {None} : RouteTask(x)
        BY <1>2, <3>1 DEF RouteTask
      <3>2. CASE NextTurn \/ StartOnDemand \/ SwapServes \/ Consume
        BY <1>2, <3>2 DEF NextTurn, StartOnDemand, SwapServes, Consume
      <3>3. CASE Wait \/ Flip \/ Maintain
        BY <1>2, <3>3 DEF Wait, Flip, Maintain
      <3>4. CASE Ask \/ Answer \/ AggregatorAgent \/ AggregatorReady
        BY <1>2, <3>4 DEF Ask, Answer, AggregatorAgent, AggregatorReady
      <3> QED BY <1>12, <3>1, <3>2, <3>3, <3>4
    <2> QED BY <1>6, <1>9, <2>1
  <1>13. CASE StartBoot \/ BootEnds \/ ReapWasted
    <2>1. \E p \in Pc \ (Rooming \cup Starting) : Goto("executor", p)
      BY <1>2, <1>13 DEF StartBoot, BootEnds, ReapWasted
    <2> QED BY <1>6, <1>9, <2>1
  <1>14. ASSUME NEW t \in Thread, SwapBrings(t)
         PROVE  thread' \in [Thread -> Machine] /\ \A u \in Thread : Turns(u)
    BY <1>2, <1>6, <1>14 DEF SwapBrings
  <1>15. ASSUME NEW t \in Thread, StopOverlapping(t)
         PROVE  thread' \in [Thread -> Machine] /\ \A u \in Thread : Turns(u)
    <2>1. thread[t].pc \in Rooming /\ thread[t].todo \subseteq Model /\ "start" \in Starting
      BY <1>1, <1>15 DEF StopOverlapping, At, Rooming, Machine, Starting
    <2>2. CASE thread[t].todo = {} /\ Goto(t, "start") /\ engine' = engine
      BY <1>7, <2>1, <2>2
    <2>3. ASSUME NEW m \in thread[t].todo, Set(m, "off"), thread' = [thread EXCEPT ![t].todo = @ \ {m}]
          PROVE  thread' \in [Thread -> Machine] /\ \A u \in Thread : Turns(u)
      <3>1. m \in Model /\ engine'[m] = "off" /\ "off" \notin Vram
        BY <2>1, <2>3 DEF Set, Vram, Routed
      <3> QED BY <1>8, <2>1, <2>3, <3>1
    <2> QED BY <1>15, <2>2, <2>3 DEF StopOverlapping
  <1>16. ASSUME NEW t \in Thread, SwapSleeps(t)
         PROVE  thread' \in [Thread -> Machine] /\ \A u \in Thread : Turns(u)
    <2>1. thread[t].pc \in Rooming /\ thread[t].todo \subseteq Model /\ "bring" \in Starting
      BY <1>1, <1>16 DEF SwapSleeps, At, Rooming, Machine, Starting
    <2>2. CASE thread[t].todo = {} /\ Goto(t, "bring") /\ engine' = engine
      BY <1>7, <2>1, <2>2
    <2>3. ASSUME NEW m \in thread[t].todo, NEW s \in Sleeps(engine[m]), Set(m, s),
                 thread' = [thread EXCEPT ![t].todo = @ \ {m}]
          PROVE  thread' \in [Thread -> Machine] /\ \A u \in Thread : Turns(u)
      <3>1. m \in Model /\ engine'[m] = s
        BY <2>1, <2>3 DEF Set, Routed
      <3>2. s \notin Vram
        BY <2>3 DEF Sleeps, Vram
      <3> QED BY <1>8, <2>1, <2>3, <3>1, <3>2
    <2> QED BY <1>16, <2>2, <2>3 DEF SwapSleeps
  <1>17. ASSUME NEW t \in Thread, SwapBegins(t)
         PROVE  thread' \in [Thread -> Machine] /\ \A u \in Thread : Turns(u)
    <2> DEFINE r == [pc |-> "sleep", alive |-> engine[Subject(t)] \notin Down, todo |-> InTheWay(Subject(t))]
    <2>1. r \in Machine /\ r.pc \in Rooming /\ r.todo = InTheWay(Subject(t))
      BY <1>2, <1>10 DEF Machine, Rooming
    <2>2. thread' = [thread EXCEPT ![t] = r] /\ engine' = engine /\ thread[t].pc = "swap"
      BY <1>17 DEF SwapBegins, At
    <2> HIDE DEF r
    <2>3. Subject(t)' = Subject(t)
      BY <2>2, SubjectStays DEF At, Thread
    <2>4. r = thread'[t] => Turns(t)
      BY <2>1, <2>2, <2>3 DEF Turns
    <2> QED BY <1>4, <2>1, <2>2, <2>4
  <1>18. CASE Decide
    <2> DEFINE c == thread["callback"]
    <2>1. Subject("callback")' = Subject("callback") /\ engine' = engine
      BY <1>18, SubjectStays DEF Decide, At
    <2>2. \/ Goto("callback", "swap") \/ Goto("callback", "consume")
          \/ thread' = [thread EXCEPT !["callback"] = [c EXCEPT !.pc = "stop", !.todo = InTheWay(Chosen)]]
      BY <1>18 DEF Decide, Goto
    <2>3. ASSUME thread' = [thread EXCEPT !["callback"] = [c EXCEPT !.pc = "stop", !.todo = InTheWay(Chosen)]]
          PROVE  thread' \in [Thread -> Machine] /\ \A u \in Thread : Turns(u)
      <3> DEFINE r == [c EXCEPT !.pc = "stop", !.todo = InTheWay(Chosen)]
      <3>1. c \in Machine
        BY <1>1, <1>9
      <3>2. InTheWay(Chosen) \in SUBSET Model
        BY <1>10
      <3>3. r \in Machine /\ r.pc = "stop" /\ r.todo = InTheWay(Chosen)
        BY <1>2, <3>1, <3>2 DEF Machine
      <3> HIDE DEF r
      <3>4. r = thread'["callback"] => Turns("callback")
        BY <1>9, <2>1, <3>3 DEF Turns, Rooming
      <3> QED BY <1>4, <1>9, <2>3, <3>3, <3>4 DEF r
    <2> QED BY <1>2, <1>6, <1>9, <2>2, <2>3
  <1>19. CASE TakeBoot
    <2> DEFINE c == thread["executor"]
               m == boots[current + 1].model
    <2>1. engine' = engine /\ boots' = boots /\ current < Len(boots) /\ current' = current + 1
      BY <1>19 DEF TakeBoot
    <2>2. Subject("executor")' = m
      BY <2>1 DEF Subject
    <2>3. \/ Goto("executor", "swap")
          \/ thread' = [thread EXCEPT !["executor"] = [c EXCEPT !.pc = "stop", !.todo = InTheWay(m)]]
          \/ config.arm = "swap" /\ Goto("executor", "start")
      <3>1. config.arm \in {"pool", "sleep_wake", "swap"}
        BY ConfigType DEF Routed
      <3> QED BY <1>19, <3>1 DEF TakeBoot, Goto
    <2>4. ASSUME thread' = [thread EXCEPT !["executor"] = [c EXCEPT !.pc = "stop", !.todo = InTheWay(m)]]
          PROVE  thread' \in [Thread -> Machine] /\ \A u \in Thread : Turns(u)
      <3> DEFINE r == [c EXCEPT !.pc = "stop", !.todo = InTheWay(m)]
      <3>1. c \in Machine
        BY <1>1, <1>9
      <3>2. InTheWay(m) \in SUBSET Model
        BY <1>10
      <3>3. r \in Machine /\ r.pc = "stop" /\ r.todo = InTheWay(m)
        BY <1>2, <3>1, <3>2 DEF Machine
      <3> HIDE DEF r
      <3>4. r = thread'["executor"] => Turns("executor")
        BY <1>9, <2>1, <2>2, <3>3 DEF Turns, Rooming
      <3> QED BY <1>4, <1>9, <2>4, <3>3, <3>4 DEF r
    <2>5. ASSUME config.arm = "swap", Goto("executor", "start")
          PROVE  thread' \in [Thread -> Machine] /\ \A u \in Thread : Turns(u)
      <3> DEFINE r == [c EXCEPT !.pc = "start"]
      <3>1. r \in Machine /\ r.pc = "start"
        BY <1>1, <1>2, <1>9 DEF Machine
      <3>2. thread' = [thread EXCEPT !["executor"] = r]
        BY <2>5 DEF Goto
      <3> HIDE DEF r
      <3>3. r = thread'["executor"] => Turns("executor")
        BY <2>1, <2>2, <2>5, <3>1 DEF Turns, Starting
      <3> QED BY <1>4, <1>9, <3>1, <3>2, <3>3
    <2> QED BY <1>2, <1>6, <1>9, <2>3, <2>4, <2>5
  <1> QED BY <1>9, <1>11, <1>12, <1>13, <1>14, <1>15, <1>16, <1>17, <1>18, <1>19 DEF Next, Callback, Executor

-------------------------------------------------------------------------------
(* The type invariant.                                                     *)

LEMMA InitRouted ==
  ASSUME Init
  PROVE  Routed
  <1>1. config \in Configs /\ Specialist \cup {Worker} \subseteq Model
    BY ConfigType DEF Init, Own
  <1>2. engine \in [Model -> Standing]
    BY DEF Init, Standing, Vram, Down
  <1>3. thread \in [Thread -> Machine]
    BY DEF Init, Thread, Machine, Pc
  <1>4. worker \in WorkerTask
    BY RoutingConstants DEF Init, WorkerTask
  <1>5. boots \in Seq(Boot) /\ boots = <<>> /\ Len(boots) = 0
    BY DEF Init
  <1>6. At("executor", "idle")
    BY DEF Init, At
  <1>7. DOMAIN pending = {} /\ current = 0 /\ transition = 0 /\ stagedFor = 0
    BY DEF Init
  <1>8. 0 \in 0..Len(boots) /\ 0 \in 0..NTasks
    BY <1>5, RoutingConstants
  <1>9. plan = None /\ staged = {} /\ aggStarted = FALSE /\ evicting = {} /\ target = None /\ overlooked = {}
    BY DEF Init
  <1> QED BY <1>1, <1>2, <1>3, <1>4, <1>5, <1>6, <1>7, <1>8, <1>9 DEF Routed

LEMMA WorkerStep ==
  ASSUME Routed, Next
  PROVE  worker' \in WorkerTask
  <1> DEFINE Times == 0..NTasks
             Turn == 0..NTurns
  <1>1. worker \in WorkerTask /\ WorkerTask = [task : Times, turn : Turn, marker : Model \cup {None}, consumed : BOOLEAN]
    BY DEF Routed, WorkerTask
  <1>2. worker.turn \in Turn /\ worker.task \in Times
    BY <1>1
  <1>3. NTasks \in Nat \ {0} /\ NTurns \in Nat \ {0}
    BY RoutingConstants
  <1>4. \/ worker' = worker \/ NextTurn \/ Consume
        \/ \E x \in Specialist \cup {None} : RouteTask(x)
    BY DEF Next, Callback, Executor, PlanEnds, Decide, StopOverlapping, StartOnDemand,
       SwapBegins, SwapSleeps, SwapBrings, SwapServes, Wait, Flip, Maintain, Ask, Answer, StageTransition,
       EnsembleStarts, AggregatorAgent, AggregatorReady, TakeBoot, StartBoot, BootEnds, ReapWasted,
       EvictOne, EngineReady, EngineFails, adapter
  <1>5. CASE NextTurn
    <2>1. worker' = [worker EXCEPT !.turn = worker.turn + 1] /\ worker.turn + 1 \in Turn
      BY <1>2, <1>3, <1>5 DEF NextTurn
    <2> HIDE DEF Times, Turn
    <2> QED BY <1>1, <2>1
  <1>6. CASE Consume
    <2>1. worker' = [worker EXCEPT !.consumed = TRUE]
      BY <1>6 DEF Consume
    <2> HIDE DEF Times, Turn
    <2> QED BY <1>1, <2>1
  <1>7. ASSUME NEW x \in Specialist \cup {None}, RouteTask(x)
        PROVE  worker' \in WorkerTask
    <2> DEFINE k == worker.task + 1
               a == IF x # None THEN x ELSE PlannedAt(k)
    <2>1. worker' = [task |-> k, turn |-> 1, marker |-> a, consumed |-> FALSE] /\ k <= NTasks
      BY <1>7 DEF RouteTask
    <2>2. k \in Times /\ 1 \in Turn
      BY <1>2, <1>3, <2>1
    <2>3. Specialist \subseteq Model /\ PlannedAt(k) \in Model \cup {None}
      BY ConfigType, PlannedType DEF Routed
    <2>4. a \in Model \cup {None}
      BY <2>3
    <2> HIDE DEF Times, Turn, k, a
    <2> QED BY <1>1, <2>1, <2>2, <2>4
  <1> QED BY <1>1, <1>4, <1>5, <1>6, <1>7

LEMMA PlanStep ==
  ASSUME Routed, Next
  PROVE  /\ plan' \in Plans \cup {None, <<>>} /\ staged' \subseteq Model
         /\ stagedFor' \in 0..NTasks /\ aggStarted' \in BOOLEAN
  <1>1. /\ Own \subseteq Model /\ Specialist \subseteq Own /\ Worker \in Own
        /\ \A x : ModelFor(x) \in Own
    BY ConfigType DEF Routed
  <1>2. \/ UNCHANGED <<plan, staged, stagedFor, aggStarted>>
        \/ \E p \in Plans, extracted \in BOOLEAN : PlanEnds(p, extracted)
        \/ StageTransition \/ EnsembleStarts \/ Maintain
    BY DEF Next, Callback, Executor, RouteTask, NextTurn, Decide, StopOverlapping, StartOnDemand,
       SwapBegins, SwapSleeps, SwapBrings, SwapServes, Consume, Wait, Flip, Ask, Answer,
       AggregatorAgent, AggregatorReady, TakeBoot, StartBoot, BootEnds, ReapWasted,
       EvictOne, EngineReady, EngineFails, adapter
  <1>3. CASE UNCHANGED <<plan, staged, stagedFor, aggStarted>>
    BY <1>3 DEF Routed
  <1>4. ASSUME NEW p \in Plans, NEW extracted \in BOOLEAN, PlanEnds(p, extracted)
        PROVE  /\ plan' \in Plans \cup {None, <<>>} /\ staged' \subseteq Model
               /\ UNCHANGED <<stagedFor, aggStarted>>
    BY <1>1, <1>4 DEF PlanEnds, Routed
  <1>5. CASE StageTransition
    <2>1. worker.task \in 0..NTasks
      BY DEF Routed, WorkerTask
    <2>2. stagedFor' = worker.task /\ UNCHANGED <<plan, aggStarted>>
      BY <1>5 DEF StageTransition
    <2>3. staged' \subseteq Model
      BY <1>1, <1>5 DEF StageTransition, Routed
    <2> QED BY <2>1, <2>2, <2>3 DEF Routed
  <1>6. CASE EnsembleStarts
    BY <1>6 DEF EnsembleStarts, Routed
  <1>7. CASE Maintain
    <2>1. staged' = staged \cup ToPreboot /\ UNCHANGED <<plan, stagedFor, aggStarted>>
      BY <1>7 DEF Maintain
    <2> QED BY <1>1, <2>1, PrebootType DEF Routed
  <1> QED BY <1>2, <1>3, <1>4, <1>5, <1>6, <1>7 DEF Routed

LEMMA BootNumbersStep ==
  ASSUME Routed, Next
  PROVE  /\ transition' \in {CacheStage} \cup 0..Len(boots')
         /\ DOMAIN pending' \subseteq Model /\ \A m \in DOMAIN pending' : pending'[m] \in 1..Len(boots')
  <1> DEFINE Numbered ==
               /\ transition' \in {CacheStage} \cup 0..Len(boots')
               /\ DOMAIN pending' \subseteq Model
               /\ \A m \in DOMAIN pending' : pending'[m] \in 1..Len(boots')
  <1>1. /\ transition \in {CacheStage} \cup 0..Len(boots) /\ DOMAIN pending \subseteq Model
        /\ \A m \in DOMAIN pending : pending[m] \in 1..Len(boots)
    BY DEF Routed
  <1>2. Len(boots) \in Nat /\ Len(boots') \in Nat /\ Len(boots') >= Len(boots)
    BY BootsStep
  <1>3. \A m : DOMAIN Without(m) = DOMAIN pending \ {m} /\ \A n \in DOMAIN Without(m) : Without(m)[n] = pending[n]
    BY DEF Without
  <1>4. ASSUME pending' = pending \/ \E m : pending' = Without(m), transition' \in {transition, 0, CacheStage}
        PROVE  Numbered
    <2>1. DOMAIN pending' \subseteq DOMAIN pending /\ \A m \in DOMAIN pending' : pending'[m] = pending[m]
      BY <1>3, <1>4
    <2> QED BY <1>1, <1>2, <1>4, <2>1
  <1>5. CASE Maintain
    <2>1. transition' = transition \/ transition' = Len(boots) + Cardinality(Fresh)
      BY <1>5 DEF Maintain, Fresh
    <2> QED BY <1>1, <1>2, <1>5, <2>1, MaintainIs
  <1>6. \/ UNCHANGED <<pending, transition>> \/ Consume \/ StageTransition \/ Maintain
        \/ \E x \in Specialist \cup {None} : RouteTask(x)
    BY DEF Next, Callback, Executor, PlanEnds, NextTurn, Decide, StopOverlapping, StartOnDemand,
       SwapBegins, SwapSleeps, SwapBrings, SwapServes, Wait, Flip, Ask, Answer,
       EnsembleStarts, AggregatorAgent, AggregatorReady, TakeBoot, StartBoot, BootEnds, ReapWasted,
       EvictOne, EngineReady, EngineFails, adapter
  <1>7. CASE Consume \/ StageTransition
    BY <1>4, <1>7 DEF Consume, StageTransition
  <1>8. ASSUME NEW x \in Specialist \cup {None}, RouteTask(x)
        PROVE  Numbered
    BY <1>4, <1>8 DEF RouteTask
  <1> QED BY <1>4, <1>5, <1>6, <1>7, <1>8

LEMMA CurrentStep ==
  ASSUME Routed, Next
  PROVE  current' \in 0..Len(boots') /\ (thread'["executor"].pc # "idle" => current' # 0)
  <1>1. /\ current \in 0..Len(boots) /\ (thread["executor"].pc # "idle" => current # 0)
        /\ thread \in [Thread -> Machine]
    BY DEF Routed, At
  <1>2. Len(boots) \in Nat /\ Len(boots') \in Nat /\ Len(boots') >= Len(boots)
    BY BootsStep
  <1>3. CASE TakeBoot
    BY <1>1, <1>2, <1>3 DEF TakeBoot
  <1>4. CASE StopOverlapping("executor") \/ StartBoot \/ SwapBegins("executor") \/ SwapSleeps("executor")
             \/ SwapBrings("executor") \/ BootEnds \/ ReapWasted
    <2>1. current' = current /\ thread["executor"].pc # "idle"
      BY <1>4 DEF At, StopOverlapping, StartBoot, SwapBegins, SwapSleeps, SwapBrings, BootEnds, ReapWasted
    <2> QED BY <1>1, <1>2, <2>1
  <1>5. CASE Callback \/ \E m \in Model : EvictOne(m) \/ EngineReady(m) \/ EngineFails(m)
    <2>1. current' = current /\ thread'["executor"] = thread["executor"]
      BY <1>1, <1>5 DEF Goto, Thread, Callback, PlanEnds, RouteTask, NextTurn, Decide, StopOverlapping,
         StartOnDemand, SwapBegins, SwapSleeps, SwapBrings, SwapServes, Consume, Wait, Flip, Maintain, Ask,
         Answer, StageTransition, EnsembleStarts, AggregatorAgent, AggregatorReady,
         EvictOne, EngineReady, EngineFails
    <2> QED BY <1>1, <1>2, <2>1
  <1> QED BY <1>3, <1>4, <1>5 DEF Next, Executor

LEMMA EnginesStep ==
  ASSUME Routed, Next
  PROVE  evicting' \subseteq Model /\ target' \in Model \cup {None} /\ overlooked' \subseteq Model
  <1>1. /\ Own \subseteq Model /\ Chosen \in Own /\ \A x : ModelFor(x) \in Own
    BY ConfigType DEF Routed
  <1>2. evicting \subseteq Model /\ target \in Model \cup {None} /\ overlooked \subseteq Model
    BY DEF Routed
  <1>3. Running \subseteq Model /\ Idle \subseteq Model /\ ToPreboot \subseteq Own
    BY PrebootType DEF Running, Idle
  <1>4. \/ UNCHANGED <<evicting, target, overlooked>> \/ Decide \/ Flip \/ Maintain
        \/ \E x \in Specialist \cup {None} : RouteTask(x)
        \/ \E m \in Model : EvictOne(m)
    BY DEF Next, Callback, Executor, PlanEnds, NextTurn, StopOverlapping, StartOnDemand,
       SwapBegins, SwapSleeps, SwapBrings, SwapServes, Consume, Wait, Ask, Answer, StageTransition,
       EnsembleStarts, AggregatorAgent, AggregatorReady, TakeBoot, StartBoot, BootEnds, ReapWasted,
       EngineReady, EngineFails
  <1>5. CASE Decide \/ Flip
    BY <1>1, <1>2, <1>5 DEF Decide, Flip
  <1>6. CASE Maintain
    <2>1. /\ evicting' = evicting \cup Idle /\ target' = target
          /\ overlooked' = overlooked \cup {m \in Fresh : Underway(m) # {} \/ m \in evicting}
      BY <1>6 DEF Maintain, Fresh
    <2> QED BY <1>1, <1>2, <1>3, <2>1 DEF Fresh
  <1>7. ASSUME NEW x \in Specialist \cup {None}, RouteTask(x)
        PROVE  evicting' \subseteq Model /\ target' = target /\ overlooked' = overlooked
    <2>1. evicting' \subseteq evicting \cup Own
      BY <1>1, <1>7 DEF RouteTask
    <2> QED BY <1>1, <1>2, <1>7, <2>1 DEF RouteTask
  <1>8. CASE \E m \in Model : EvictOne(m)
    BY <1>2, <1>8 DEF EvictOne
  <1> QED BY <1>2, <1>4, <1>5, <1>6, <1>7, <1>8

\* Every step keeps the types.
LEMMA RoutedStep ==
  ASSUME Routed, Next \/ UNCHANGED vars
  PROVE  Routed'
  <1>1. CASE Next
    <2>1. config' \in Configs /\ Boot' = Boot /\ Own' = Own
      BY <1>1, ConfigStays DEF Routed
    <2>2. engine' \in [Model -> Standing] /\ thread' \in [Thread -> Machine]
      BY <1>1, EngineIs, MachineIs
    <2>3. boots' \in Seq(Boot)
      BY <1>1, BootsStep
    <2> QED BY <1>1, <2>1, <2>2, <2>3, WorkerStep, PlanStep, BootNumbersStep, CurrentStep, EnginesStep
            DEF Routed, At
  <1>2. CASE UNCHANGED vars
    BY <1>2, ConfigStays DEF vars, adapter, Routed, At
  <1> QED BY <1>1, <1>2

\* chemgraph.py, sleep_wake.py and model_prefetch.py keep their state what it is:
\* every boot, pending entry, transition and routed task names an engine and a
\* boot that exist, in every run.
THEOREM RoutingTypes == Spec => []TypeOK
  <1>1. Init => Routed
    BY InitRouted
  <1>2. Routed /\ [Next]_vars => Routed'
    BY RoutedStep
  <1>3. Routed => TypeOK
    <2> SUFFICES ASSUME Routed PROVE TypeOK
      OBVIOUS
    <2>1. engine \in [Model -> Down \cup Vram \cup {"asleep"}]
      BY DEF Routed, Standing
    <2>2. \A t \in DOMAIN thread : /\ thread[t].pc \in Pc /\ thread[t].alive \in BOOLEAN
                                   /\ thread[t].todo \subseteq Model
      BY DEF Routed, Machine
    <2>3. /\ worker.task \in 0..NTasks /\ worker.turn \in 0..NTurns
          /\ worker.marker \in Model \cup {None} /\ worker.consumed \in BOOLEAN
      BY DEF Routed, WorkerTask
    <2>4. boots \in Seq(Boot) /\ DOMAIN boots = 1..Len(boots) /\ Len(boots) \in Nat
      BY DEF Routed
    <2>5. transition \in {CacheStage, 0} \cup DOMAIN boots
      BY <2>4 DEF Routed
    <2>6. \A b \in DOMAIN boots : boots[b].status \in {"in_progress", "completed", "used", "wasted", "failed"}
      <3>1. \A b \in DOMAIN boots : boots[b] \in Boot
        BY <2>4
      <3> QED BY <3>1 DEF Boot, Outcome
    <2>7. DOMAIN pending \subseteq Model /\ \A m \in DOMAIN pending : pending[m] \in DOMAIN boots
      BY <2>4 DEF Routed
    <2> QED BY <2>1, <2>2, <2>3, <2>5, <2>6, <2>7 DEF Routed, TypeOK
  <1> QED BY <1>1, <1>2, <1>3, PTL DEF Spec

-------------------------------------------------------------------------------
(* Engines that never hold the memory of a GPU together.                   *)

\* The engines that need the planner's GPUs.
Rivals == {m \in Own : Overlap(m, Planner)}
Freed == engine[Planner] \notin Vram

\* An engine on the planner's GPUs came up after the planner's went down.
RivalsAfterPlanner == \A m \in Rivals : engine[m] \in Vram => Freed

\* A thread that brings such an engine up still has the planner's to stop, or
\* found it down.
RoomIsMade ==
    \A t \in Thread :
        thread[t].pc \in Rooming \cup Starting /\ Subject(t) \in Rivals /\ ~Freed =>
            thread[t].pc \in Rooming /\ Planner \in thread[t].todo

\* With whole-node swaps the executor makes no room: the callback released the
\* GPUs before it scheduled the boot, and it never pre-boots.
SwapReleases ==
    config.arm = "swap" =>
        /\ ~At("callback", "maintain")
        /\ \A b \in DOMAIN boots : b > current /\ boots[b].model \in Rivals => Freed

\* Until the planner has ended nothing but its engine is up.
PlannerFirst ==
    plan = None =>
        /\ worker.task = 0 /\ boots = <<>> /\ \A t \in Thread : At(t, "idle")
        /\ \A m \in Model \ {Planner} : engine[m] \in Down

\* Engines nobody is routed to stay down.
OthersDown == \A m \in Model \ (Own \cup {Planner, config.aggregator}) : engine[m] \notin Vram

VramInv == RivalsAfterPlanner /\ RoomIsMade /\ SwapReleases /\ PlannerFirst /\ OthersDown

LEMMA DisjointPoolsIs ==
  ASSUME DisjointPools, config \in Configs
  PROVE  /\ Planner \notin Own /\ \A m, n \in Own : ~Overlap(m, n)
         /\ \A m \in Model : ~Overlap(config.aggregator, m) \/ config.aggregator = None
  BY DEF DisjointPools, Own, Specialist, Worker

\* Before the planner has ended, engines move by themselves only.
LEMMA PlannerFirstStep ==
  ASSUME Routed, PlannerFirst, Next
  PROVE  PlannerFirst'
  <1> SUFFICES ASSUME plan' = None
               PROVE  /\ worker'.task = 0 /\ boots' = <<>> /\ \A t \in Thread : thread'[t].pc = "idle"
                      /\ \A m \in Model \ {Planner} : engine'[m] \in Down
    BY DEF PlannerFirst, At
  <1>1. plan = None
    <2>1. plan' = plan \/ \E p \in Plans, extracted \in BOOLEAN : PlanEnds(p, extracted)
      BY DEF Next, Callback, Executor, RouteTask, NextTurn, Decide, StopOverlapping, StartOnDemand,
         SwapBegins, SwapSleeps, SwapBrings, SwapServes, Consume, Wait, Flip, Maintain, Ask, Answer,
         StageTransition, EnsembleStarts, AggregatorAgent, AggregatorReady, TakeBoot, StartBoot, BootEnds,
         ReapWasted, EvictOne, EngineReady, EngineFails, adapter
    <2>2. \A p \in Plans : p # None /\ <<>> # None
      BY RoutingConstants
    <2> QED BY <2>1, <2>2 DEF PlanEnds
  <1>2. /\ worker.task = 0 /\ boots = <<>> /\ At("callback", "idle") /\ At("executor", "idle")
        /\ \A m \in Model \ {Planner} : engine[m] \in Down
    BY <1>1 DEF PlannerFirst, Thread
  <1>3. Len(boots) = 0 /\ current = 0 /\ NTasks # 0
    BY <1>2, RoutingConstants DEF Routed
  <1>4. ~\E p \in Plans, extracted \in BOOLEAN : PlanEnds(p, extracted)
    BY RoutingConstants DEF PlanEnds
  <1>5. \E m \in Model : EvictOne(m) \/ EngineReady(m) \/ EngineFails(m)
    <2>1. ~\E x \in Specialist \cup {None} : RouteTask(x)
      BY <1>1 DEF RouteTask
    <2>2. ~(NextTurn \/ EnsembleStarts \/ StageTransition \/ AggregatorAgent)
      BY <1>2, <1>3 DEF NextTurn, EnsembleStarts, StageTransition, AggregatorAgent
    <2>3. ~(Decide \/ StopOverlapping("callback") \/ StartOnDemand \/ SwapBegins("callback")
            \/ SwapSleeps("callback") \/ SwapBrings("callback") \/ SwapServes \/ Consume \/ Wait \/ Flip
            \/ Maintain \/ Ask \/ Answer \/ AggregatorReady)
      BY <1>2 DEF At, Decide, StopOverlapping, StartOnDemand, SwapBegins, SwapSleeps, SwapBrings, SwapServes,
         Consume, Wait, Flip, Maintain, Ask, Answer, AggregatorReady
    <2>4. ~Executor
      BY <1>2, <1>3 DEF At, Executor, TakeBoot, StopOverlapping, StartBoot, SwapBegins, SwapSleeps,
         SwapBrings, BootEnds, ReapWasted
    <2> QED BY <1>4, <2>1, <2>2, <2>3, <2>4 DEF Next, Callback
  <1>6. PICK m \in Model : EvictOne(m) \/ EngineReady(m) \/ EngineFails(m)
    BY <1>5
  <1>7. worker' = worker /\ boots' = boots /\ thread' = thread
    BY <1>6 DEF EvictOne, EngineReady, EngineFails, adapter
  <1>8. /\ engine \in [Model -> Standing]
        /\ engine' = engine \/ Set(m, "evicted") \/ (engine[m] = "loading" /\ Set(m, "ready")) \/ Set(m, "failed")
    BY <1>6 DEF Routed, EvictOne, EngineReady, EngineFails
  <1>9. \A n \in Model \ {Planner} : engine'[n] \in Down
    <2>1. "evicted" \in Down /\ "failed" \in Down /\ "loading" \notin Down
      BY DEF Down
    <2> QED BY <1>2, <1>8, <2>1 DEF Set
  <1> QED BY <1>2, <1>7, <1>9 DEF At, Thread

\* The planner's engine does not come up again while another one needs its GPUs.
LEMMA FreedStays ==
  ASSUME DisjointPools, Routed, Freed, Rivals # {}, Next
  PROVE  engine'[Planner] \notin Vram
  <1>1. Planner \in Model /\ config \in Configs /\ None \notin Model
    BY RoutingConstants DEF Routed
  <1>2. Planner \notin Own
    BY <1>1, DisjointPoolsIs
  <1>3. config.aggregator # Planner
    <2>1. PICK m \in Own : Overlap(m, Planner)
      BY DEF Rivals
    <2>2. m \in Model /\ Overlap(Planner, m)
      BY <1>1, <2>1, ConfigType DEF Overlap
    <2> QED BY <1>1, <2>2, DisjointPoolsIs
  <1>4. Moves(Planner)
    BY <1>1, EngineIs
  <1>5. \A t \in Thread : thread[t].pc \in {"start", "bring"} => Subject(t) \in Own
    BY SubjectType DEF At, Thread
  <1> QED BY <1>2, <1>3, <1>4, <1>5 DEF Moves, Freed, Vram

LEMMA RivalsStep ==
  ASSUME DisjointPools, Routed, RivalsAfterPlanner, RoomIsMade, Next,
         NEW m \in Rivals, engine'[m] \in Vram
  PROVE  engine'[Planner] \notin Vram
  <1>1. m \in Model /\ Overlap(m, Planner) /\ Planner \in Model /\ config \in Configs /\ None \notin Model
    BY ConfigType, RoutingConstants DEF Rivals, Routed
  <1>2. m # config.aggregator
    BY <1>1, DisjointPoolsIs
  <1>3. Moves(m)
    BY <1>1, EngineIs
  <1>4. Freed
    <2>1. CASE engine[m] \in Vram
      BY <2>1 DEF RivalsAfterPlanner
    <2>2. ASSUME NEW t \in Thread, thread[t].pc \in {"start", "bring"}, m = Subject(t)
          PROVE  Freed
      BY <2>2 DEF RoomIsMade, Rooming, Starting
    <2> QED BY <1>2, <1>3, <2>1, <2>2 DEF Moves, Vram
  <1> QED BY <1>4, FreedStays

LEMMA RoomStep ==
  ASSUME DisjointPools, Routed, RoomIsMade, SwapReleases, Next, NEW t \in Thread,
         thread'[t].pc \in Rooming \cup Starting, Subject(t)' \in Rivals, engine'[Planner] \in Vram
  PROVE  thread'[t].pc \in Rooming /\ Planner \in thread'[t].todo
  <1>1. engine[Planner] \in Vram /\ ~Freed
    BY FreedStays DEF Freed
  <1>2. Turns(t) /\ Planner \in Model /\ Rooming \cap Starting = {}
    BY MachineIs, RoutingConstants DEF Rooming, Starting
  <1>3. thread[t].pc \in Rooming \cup Starting /\ Subject(t) \in Rivals =>
            thread[t].pc \in Rooming /\ Planner \in thread[t].todo
    BY <1>1 DEF RoomIsMade
  <1>4. CASE thread'[t] = thread[t] /\ Subject(t)' = Subject(t)
    BY <1>3, <1>4
  <1>5. CASE thread'[t].pc \in Rooming /\ thread'[t].todo = InTheWay(Subject(t)')
    <2>1. Overlap(Planner, Subject(t)')
      BY DEF Rivals, Overlap
    <2>2. Planner \in Running
      BY <1>1, <1>2 DEF Running, Vram, Down
    <2> QED BY <1>5, <2>1, <2>2 DEF InTheWay
  <1>6. CASE /\ thread[t].pc \in Rooming /\ thread'[t].pc = thread[t].pc /\ Subject(t)' = Subject(t)
             /\ \E m \in Model : thread'[t].todo = thread[t].todo \ {m} /\ engine'[m] \notin Vram
    BY <1>3, <1>6
  <1>7. CASE thread[t].pc \in Rooming /\ thread[t].todo = {} /\ Subject(t)' = Subject(t)
    BY <1>3, <1>7
  <1>8. CASE config.arm = "swap" /\ current < Len(boots) /\ Subject(t)' = boots[current + 1].model
    <2>1. current + 1 \in DOMAIN boots /\ current + 1 > current
      BY <1>8 DEF Routed
    <2> QED BY <1>1, <1>8, <2>1 DEF SwapReleases
  <1> QED BY <1>2, <1>4, <1>5, <1>6, <1>7, <1>8 DEF Turns

LEMMA SwapReleasesStep ==
  ASSUME DisjointPools, Routed, SwapReleases, PlannerFirst, Next, config.arm = "swap"
  PROVE  /\ thread'["callback"].pc # "maintain"
         /\ \A b \in DOMAIN boots' : b > current' /\ boots'[b].model \in Rivals => engine'[Planner] \notin Vram
  <1>1. /\ ~At("callback", "maintain")
        /\ \A b \in DOMAIN boots : b > current /\ boots[b].model \in Rivals => Freed
    BY DEF SwapReleases
  <1>2. thread \in [Thread -> Machine] /\ "callback" \in Thread /\ "executor" \in Thread
    BY DEF Routed, Thread
  <1>3. thread'["callback"].pc # "maintain"
    <2>1. CASE Executor \/ \E m \in Model : EvictOne(m) \/ EngineReady(m) \/ EngineFails(m)
      <3>1. thread'["callback"] = thread["callback"]
        BY <1>2, <2>1 DEF Executor, Goto, TakeBoot, StopOverlapping, StartBoot, SwapBegins, SwapSleeps,
           SwapBrings, BootEnds, ReapWasted, EvictOne, EngineReady, EngineFails
      <3> QED BY <1>1, <3>1 DEF At
    <2>2. CASE Callback
      <3>1. CASE StopOverlapping("callback") \/ SwapBegins("callback") \/ SwapSleeps("callback")
                 \/ SwapBrings("callback") \/ Decide
        <4> DEFINE c == thread["callback"]
        <4>1. c \in Machine /\ c.pc # "maintain"
          BY <1>1, <1>2 DEF At
        <4>2. \/ \E p \in Pc \ {"maintain"} : thread' = [thread EXCEPT !["callback"] = [c EXCEPT !.pc = p]]
              \/ \E S : thread' = [thread EXCEPT !["callback"] = [c EXCEPT !.todo = S]]
              \/ \E S, a : thread' = [thread EXCEPT !["callback"] = [pc |-> "sleep", alive |-> a, todo |-> S]]
              \/ \E S : thread' = [thread EXCEPT !["callback"] = [c EXCEPT !.pc = "stop", !.todo = S]]
          <5>1. CASE StopOverlapping("callback") \/ SwapSleeps("callback")
            BY <5>1 DEF Pc, Goto, StopOverlapping, SwapSleeps
          <5>2. CASE SwapBegins("callback")
            BY <5>2 DEF SwapBegins
          <5>3. CASE SwapBrings("callback")
            BY <5>3 DEF Pc, Goto, SwapBrings
          <5>4. CASE Decide
            <6>1. \/ thread' = [thread EXCEPT !["callback"] = [c EXCEPT !.pc = "swap"]]
                  \/ thread' = [thread EXCEPT !["callback"] = [c EXCEPT !.pc = "consume"]]
                  \/ thread' = [thread EXCEPT !["callback"] = [c EXCEPT !.pc = "stop", !.todo = InTheWay(Chosen)]]
              BY <5>4 DEF Decide
            <6> HIDE DEF c
            <6> QED BY <6>1 DEF Pc
          <5> QED BY <3>1, <5>1, <5>2, <5>3, <5>4
        <4>3. ASSUME NEW r, thread' = [thread EXCEPT !["callback"] = r], r.pc # "maintain"
              PROVE  thread'["callback"].pc # "maintain"
          BY <1>2, <4>3
        <4>4. ASSUME NEW p \in Pc \ {"maintain"}, thread' = [thread EXCEPT !["callback"] = [c EXCEPT !.pc = p]]
              PROVE  thread'["callback"].pc # "maintain"
          <5>1. [c EXCEPT !.pc = p].pc # "maintain"
            BY <4>1 DEF Machine
          <5> QED BY <4>3, <4>4, <5>1
        <4>5. ASSUME NEW S, thread' = [thread EXCEPT !["callback"] = [c EXCEPT !.todo = S]]
              PROVE  thread'["callback"].pc # "maintain"
          <5>1. [c EXCEPT !.todo = S].pc # "maintain"
            BY <4>1 DEF Machine
          <5> QED BY <4>3, <4>5, <5>1
        <4>6. ASSUME NEW S, NEW a,
                     thread' = [thread EXCEPT !["callback"] = [pc |-> "sleep", alive |-> a, todo |-> S]]
              PROVE  thread'["callback"].pc # "maintain"
          <5>1. [pc |-> "sleep", alive |-> a, todo |-> S].pc # "maintain"
            OBVIOUS
          <5> QED BY <4>3, <4>6, <5>1
        <4>7. ASSUME NEW S, thread' = [thread EXCEPT !["callback"] = [c EXCEPT !.pc = "stop", !.todo = S]]
              PROVE  thread'["callback"].pc # "maintain"
          <5>1. [c EXCEPT !.pc = "stop", !.todo = S].pc # "maintain"
            BY <4>1 DEF Machine
          <5> QED BY <4>3, <4>7, <5>1
        <4> HIDE DEF c
        <4> QED BY <4>2, <4>4, <4>5, <4>6, <4>7
      <3>2. CASE \/ \E p \in Plans, extracted \in BOOLEAN : PlanEnds(p, extracted)
                 \/ StageTransition \/ EnsembleStarts
        BY <1>1, <3>2 DEF At, PlanEnds, StageTransition, EnsembleStarts
      <3>3. CASE \/ \E x \in Specialist \cup {None} : RouteTask(x)
                 \/ NextTurn \/ StartOnDemand \/ SwapServes \/ Consume \/ Wait \/ Flip \/ Maintain
                 \/ Ask \/ Answer \/ AggregatorAgent \/ AggregatorReady
        <4>1. \E p \in Pc \ {"maintain"} : Goto("callback", p)
          BY <1>1, <3>3 DEF Pc, RouteTask, NextTurn, StartOnDemand, SwapServes, Consume, Wait, Flip, Maintain,
             Ask, Answer, AggregatorAgent, AggregatorReady
        <4> QED BY <1>2, <4>1 DEF Goto, Machine
      <3> QED BY <2>2, <3>1, <3>2, <3>3 DEF Callback
    <2> QED BY <2>1, <2>2 DEF Next
  <1>4. current \in Nat /\ current' \in Nat /\ current' >= current
    <2>1. current' = current \/ current' = current + 1
      BY DEF Next, Callback, Executor, PlanEnds, RouteTask, NextTurn, Decide, StopOverlapping, StartOnDemand,
         SwapBegins, SwapSleeps, SwapBrings, SwapServes, Consume, Wait, Flip, Maintain, Ask, Answer,
         StageTransition, EnsembleStarts, AggregatorAgent, AggregatorReady, TakeBoot, StartBoot, BootEnds,
         ReapWasted, EvictOne, EngineReady, EngineFails
    <2>2. current \in Nat
      BY DEF Routed
    <2> QED BY <2>1, <2>2
  <1>5. /\ boots \in Seq(Boot) /\ boots' \in Seq(Boot)
        /\ \A b \in 1..Len(boots) : boots'[b].model = boots[b].model
    BY BootsStep, ConfigStays DEF Routed
  <1>6. ASSUME NEW b \in DOMAIN boots', b > current', boots'[b].model \in Rivals, b \in DOMAIN boots
        PROVE  engine'[Planner] \notin Vram
    <2>1. b > current /\ boots[b].model \in Rivals
      BY <1>4, <1>5, <1>6
    <2> QED BY <1>1, <1>6, <2>1, FreedStays
  \* The callback released the GPUs when it scheduled the first boot.
  <1>7. ASSUME NEW b \in DOMAIN boots', boots'[b].model \in Rivals, b \notin DOMAIN boots
        PROVE  engine'[Planner] \notin Vram
    <2>1. PICK p \in Plans, extracted \in BOOLEAN : PlanEnds(p, extracted)
      <3>1. boots' # boots /\ ~Maintain
        BY <1>1, <1>7 DEF Maintain, At
      <3>2. ~BootsAlone
        BY <3>1, BootsStay
      <3>3. ~Consume /\ ~\E x \in Specialist \cup {None} : RouteTask(x)
        BY <1>5, <1>7 DEF Consume, RouteTask
      <3>4. ~BootEnds
        BY <1>5, <1>7, BootEndsIs
      <3> QED BY <3>1, <3>2, <3>3, <3>4, StepKinds
    <2> DEFINE first == IF Specialist # {} /\ p # <<>> THEN ModelFor(p[1]) ELSE Worker
    <2>2. PrefetchWorker(first) /\ boots' # boots /\ plan = None
      BY <1>7, <2>1 DEF PlanEnds
    <2>3. boots' = Append(boots, NewBoot(first, 0)) /\ b = Len(boots) + 1 /\ boots'[b].model = first
      <3>1. boots' = Append(boots, NewBoot(first, 0))
        BY <2>2 DEF PrefetchWorker
      <3> HIDE DEF first
      <3>2. b = Len(boots) + 1 /\ boots'[b] = NewBoot(first, 0)
        BY <1>5, <1>7, <3>1
      <3> QED BY <3>1, <3>2 DEF NewBoot
    <2> HIDE DEF first
    <2>4. first # Planner /\ Planner \in Model
      BY <1>7, <2>3, RoutingConstants DEF Rivals, Overlap
    <2>5. \A m \in Model \ {Planner} : engine[m] \in Down
      BY <2>2 DEF PlannerFirst
    <2>6. CASE engine[Planner] \in Down
      <3>1. Running \ {first} = {}
        BY <2>5, <2>6 DEF Running
      <3>2. engine' = engine
        BY <2>2, <3>1 DEF PrefetchWorker, ReleaseGpusFor
      <3> QED BY <2>6, <3>2 DEF Down, Vram
    <2>7. CASE engine[Planner] \notin Down
      <3>1. Running \ {first} = {Planner}
        BY <2>4, <2>5, <2>7 DEF Running
      <3>2. Set(Planner, "off")
        BY <2>2, <3>1 DEF PrefetchWorker, ReleaseGpusFor
      <3>3. engine'[Planner] = "off"
        BY <2>4, <3>2 DEF Set, Routed
      <3> QED BY <3>3 DEF Vram
    <2> QED BY <2>6, <2>7
  <1> QED BY <1>3, <1>6, <1>7

LEMMA OthersStep ==
  ASSUME Routed, OthersDown, Next, NEW m \in Model \ (Own \cup {Planner, config.aggregator})
  PROVE  engine'[m] \notin Vram
  <1>1. Moves(m) /\ engine[m] \notin Vram
    BY EngineIs DEF OthersDown
  <1>2. \A t \in Thread : thread[t].pc \in {"start", "bring"} => Subject(t) \in Own
    BY SubjectType DEF At, Thread
  <1> QED BY <1>1, <1>2 DEF Moves, Vram

LEMMA VramStep ==
  ASSUME DisjointPools, Routed, VramInv, Next \/ UNCHANGED vars
  PROVE  VramInv'
  <1>1. CASE Next
    <2>1. config' = config /\ Own' = Own /\ Rivals' = Rivals
      BY <1>1, ConfigStays DEF Rivals, Overlap
    <2>2. RivalsAfterPlanner'
      BY <1>1, <2>1, RivalsStep DEF VramInv, RivalsAfterPlanner, Freed
    <2>3. RoomIsMade'
      BY <1>1, <2>1, RoomStep DEF VramInv, RoomIsMade, Freed
    <2>4. SwapReleases'
      BY <1>1, <2>1, SwapReleasesStep DEF VramInv, SwapReleases, Freed, At
    <2>5. PlannerFirst'
      BY <1>1, PlannerFirstStep DEF VramInv
    <2>6. OthersDown'
      BY <1>1, <2>1, OthersStep DEF VramInv, OthersDown
    <2> QED BY <2>2, <2>3, <2>4, <2>5, <2>6 DEF VramInv
  <1>2. CASE UNCHANGED vars
    <2>1. UNCHANGED <<config, engine, thread, worker, plan, boots, current>> /\ Own' = Own
      BY <1>2, ConfigStays DEF vars, adapter
    <2>2. Rivals' = Rivals /\ Freed' = Freed /\ \A t \in Thread : Subject(t)' = Subject(t)
      BY <2>1 DEF Rivals, Overlap, Freed, Subject, Chosen, ModelFor, Specialist, Worker
    <2> QED BY <2>1, <2>2 DEF VramInv, RivalsAfterPlanner, RoomIsMade, SwapReleases, PlannerFirst, OthersDown, At
  <1> QED BY <1>1, <1>2

LEMMA InitVram ==
  ASSUME DisjointPools, Init
  PROVE  VramInv
  <1>1. /\ \A m \in Model : engine[m] = IF m = Planner THEN "ready" ELSE "off"
        /\ \A t \in Thread : thread[t].pc = "idle"
        /\ worker.task = 0 /\ boots = <<>> /\ config \in Configs
    BY DEF Init, Thread
  <1>2. "off" \in Down /\ "off" \notin Vram /\ "idle" \notin Rooming \cup Starting
    BY DEF Down, Vram, Rooming, Starting
  <1>3. Own \subseteq Model /\ Planner \notin Own
    BY <1>1, ConfigType, DisjointPoolsIs
  <1>4. RivalsAfterPlanner /\ OthersDown /\ PlannerFirst
    BY <1>1, <1>2, <1>3 DEF RivalsAfterPlanner, Rivals, OthersDown, PlannerFirst, At
  <1>5. RoomIsMade /\ SwapReleases
    BY <1>1, <1>2 DEF RoomIsMade, SwapReleases, At, Thread
  <1> QED BY <1>4, <1>5 DEF VramInv

LEMMA VramIs ==
  ASSUME DisjointPools, Routed, VramInv
  PROVE  VramExclusive
  <1> SUFFICES ASSUME NEW m \in Model, NEW n \in Model, Overlap(m, n), engine[m] \in Vram, engine[n] \in Vram
               PROVE  FALSE
    BY DEF VramExclusive
  <1>1. config \in Configs /\ None \notin Model /\ Overlap(n, m)
    BY RoutingConstants DEF Routed, Overlap
  <1>2. m # config.aggregator /\ n # config.aggregator
    BY <1>1, DisjointPoolsIs
  <1>3. m \in Own \cup {Planner} /\ n \in Own \cup {Planner}
    BY <1>2 DEF VramInv, OthersDown
  <1>4. \E r \in {m, n} : r \in Own /\ Overlap(r, Planner) /\ engine[r] \in Vram /\ engine[Planner] \in Vram
    BY <1>1, <1>3, DisjointPoolsIs DEF Overlap
  <1> QED BY <1>4 DEF VramInv, RivalsAfterPlanner, Rivals, Freed

\* sleep_wake.py:12-14 and model_prefetch.py:191-193: with disjoint pools two
\* engines that share a GPU never hold its memory together, in every arm, for
\* every plan, divergence, failed boot and interleaving of the three kinds of
\* thread: the planner's engine has left the GPUs before a worker engine that
\* needs them starts.
THEOREM GpuMemoryIsExclusive == DisjointPools => (Spec => []VramExclusive)
  <1> SUFFICES ASSUME DisjointPools PROVE Spec => []VramExclusive
    OBVIOUS
  <1>1. Init => Routed /\ VramInv
    BY InitRouted, InitVram
  <1>2. Routed /\ VramInv /\ [Next]_vars => (Routed /\ VramInv)'
    BY RoutedStep, VramStep
  <1>3. Routed /\ VramInv => VramExclusive
    BY VramIs
  <1> QED BY <1>1, <1>2, <1>3, PTL DEF Spec

-------------------------------------------------------------------------------
(* The bookkeeping of boots.                                               *)

Caller == thread["callback"]
Loader == thread["executor"]

\* Boots whose engine the executor has still to start.
BeforeStart == {"stop", "start", "swap", "sleep", "bring"}
Coming(m) ==
    {b \in DOMAIN boots : /\ boots[b].model = m
                          /\ b > current \/ (b = current /\ Loader.pc \in BeforeStart)}

\* Engines that were started and not taken away.
Begun == {"loading", "ready", "failed", "raced", "wasted"}
Gone == {"failed", "raced", "wasted"}

\* Only disjoint pools are maintained.
PoolsOnly ==
    /\ config.arm # "pool" => DOMAIN pending = {} /\ evicting = {} /\ Caller.pc # "maintain"
    /\ DOMAIN pending \subseteq Own /\ (worker.task = 0 => Caller.pc = "idle")

\* A thread stops what shares GPUs with its engine and nothing else.
TodoOverlaps ==
    \A t \in Thread : thread[t].pc \in Rooming => \A n \in thread[t].todo : Overlap(n, Subject(t))

OwnAwake == \A m \in Own : engine[m] # "asleep"

\* The executor has at most one boot of an engine to start, and then the engine
\* is down, unless the callback lost sight of a boot.
OneComing ==
    \A m \in Own \ overlooked :
        /\ \A b, c \in Coming(m) : b = c
        /\ Coming(m) # {} => engine[m] \in Down
        /\ Loader.pc \in {"sleep", "bring"} /\ m = Subject("executor") => ~Loader.alive

\* The callback brings an engine up that nobody else will start.
OnDemand ==
    Caller.pc \in BeforeStart \cup {"load"} /\ Chosen \notin overlooked =>
        /\ Coming(Chosen) = {}
        /\ \/ Caller.pc \in {"stop", "start"}
           \/ Caller.pc \in {"sleep", "bring"} /\ ~Caller.alive
           => engine[Chosen] \in Down
        /\ Caller.pc \in {"sleep", "bring"} /\ Caller.alive => engine[Chosen] \in Begun

\* The engine of the task is not being evicted, and none with a pending boot is.
Spared ==
    /\ worker.task > 0 => Chosen \notin evicting
    /\ \A m \in DOMAIN pending : m \notin evicting \/ m \in overlooked

\* Engines the callback counts on: pending ones, and that of the task once it
\* has been decided.
Counted(m) ==
    \/ m \in DOMAIN pending
    \/ m = Chosen /\ worker.task > 0 /\ Caller.pc \notin BeforeStart \cup {"decide"}

CountedComeUp == \A m \in Own \ overlooked : Counted(m) => engine[m] \in Begun \/ Coming(m) # {}

\* A request goes to an engine that serves.
Told(m) == \E b \in DOMAIN boots : boots[b].model = m /\ boots[b].told
Serves(m) == engine[m] = "ready" \/ m \in overlooked \/ Told(m)

TargetServes ==
    /\ Caller.pc \in {"flip", "maintain", "serving", "asked"} => Serves(Chosen)
    /\ Caller.pc \in {"maintain", "serving", "asked"} => target = Chosen
    /\ Loader.pc = "reap" => boots[current].told

\* A lost workflow stays lost for its reason.
LostKept ==
    /\ Caller.pc = "lost" /\ Chosen \notin overlooked => engine[Chosen] \in Gone /\ Coming(Chosen) = {}
    /\ Caller.pc \in {"aggregate", "unserved"} =>
            config.aggregator \in Model /\ engine[config.aggregator] \notin {"off", "evicted"}
    /\ Caller.pc = "unserved" => engine[config.aggregator] \in Gone

BootsInv ==
    /\ PoolsOnly /\ TodoOverlaps /\ OwnAwake /\ PendingBootsRespected
    /\ OneComing /\ OnDemand /\ Spared /\ CountedComeUp /\ TargetServes /\ LostKept

Accounted == SettledPools /\ Routed /\ PlannerFirst /\ BootsInv

LEMMA SettledIs ==
  ASSUME SettledPools, config \in Configs
  PROVE  /\ PromptStops /\ Planner \notin Own /\ \A m, n \in Own : ~Overlap(m, n)
         /\ config.aggregator # None => /\ config.arm # "pool" /\ config.aggregator \in Model \ Own
                                        /\ \A m \in Model : ~Overlap(m, config.aggregator)
  <1>1. DisjointPools /\ PromptStops
    BY DEF SettledPools
  <1>2. config.aggregator # None => config.arm # "pool" /\ config.aggregator \notin Own
    BY DEF SettledPools, Own, Specialist, Worker
  <1>3. ASSUME config.aggregator # None
        PROVE  config.aggregator \in Model /\ \A m \in Model : ~Overlap(m, config.aggregator)
    BY <1>1, <1>3, DisjointPoolsIs, ConfigType DEF Overlap
  <1> QED BY <1>1, <1>2, <1>3, DisjointPoolsIs

-------------------------------------------------------------------------------
(* What the steps do to the callback thread and the load thread.           *)

\* The callback thread goes from p to q, and keeps what it knows.
Steps(p, q) ==
    /\ Caller.pc = p /\ Caller'.pc = q /\ Caller'.alive = Caller.alive /\ Loader' = Loader

LEMMA CallerGoes ==
  ASSUME Routed, NEW p, NEW q, At("callback", p), Goto("callback", q)
  PROVE  Steps(p, q)
  <1> DEFINE r == [thread["callback"] EXCEPT !.pc = q]
  <1>1. thread \in [Thread -> Machine] /\ "callback" \in Thread /\ "executor" \in Thread
    BY DEF Routed, Thread
  <1>2. thread["callback"] \in Machine
    BY <1>1
  <1>3. r.pc = q /\ r.alive = thread["callback"].alive
    BY <1>2 DEF Machine
  <1>4. thread' = [thread EXCEPT !["callback"] = r]
    BY DEF Goto
  <1> HIDE DEF r
  <1>5. thread'["callback"] = r /\ thread'["executor"] = thread["executor"]
    BY <1>1, <1>4
  <1> QED BY <1>3, <1>5 DEF Steps, Caller, Loader, At

\* The callback thread, step by step.
LEMMA CallerTurns ==
  ASSUME Routed
  PROVE  /\ (\E x \in Specialist \cup {None} : RouteTask(x)) \/ NextTurn => Steps("idle", "decide")
         /\ StartOnDemand => Steps("start", "consume")
         /\ SwapBrings("callback") => Steps("bring", "load")
         /\ SwapServes => Steps("load", "consume") \/ Steps("load", "lost")
         /\ Consume => Steps("consume", "wait")
         /\ Wait => Steps("wait", "flip") \/ Steps("wait", "lost")
         /\ Flip => Steps("flip", IF config.arm = "pool" THEN "maintain" ELSE "serving")
         /\ Maintain => Steps("maintain", "serving")
         /\ Ask => Steps("serving", "asked")
         /\ Answer => Steps("asked", "idle")
         /\ AggregatorAgent => Steps("idle", "aggregate")
         /\ AggregatorReady => Steps("aggregate", "done") \/ Steps("aggregate", "unserved")
  <1>1. (\E x \in Specialist \cup {None} : RouteTask(x)) \/ NextTurn => Steps("idle", "decide")
    BY CallerGoes DEF RouteTask, NextTurn
  <1>2. /\ StartOnDemand => Steps("start", "consume")
        /\ SwapBrings("callback") => Steps("bring", "load")
        /\ SwapServes => Steps("load", "consume") \/ Steps("load", "lost")
        /\ Consume => Steps("consume", "wait")
    BY CallerGoes DEF StartOnDemand, SwapBrings, SwapServes, Consume
  <1>3. /\ Wait => Steps("wait", "flip") \/ Steps("wait", "lost")
        /\ Flip => Steps("flip", IF config.arm = "pool" THEN "maintain" ELSE "serving")
        /\ Maintain => Steps("maintain", "serving")
    BY CallerGoes DEF Wait, Flip, Maintain
  <1>4. /\ Ask => Steps("serving", "asked")
        /\ Answer => Steps("asked", "idle")
        /\ AggregatorAgent => Steps("idle", "aggregate")
        /\ AggregatorReady => Steps("aggregate", "done") \/ Steps("aggregate", "unserved")
    BY CallerGoes DEF Ask, Answer, AggregatorAgent, AggregatorReady
  <1> QED BY <1>1, <1>2, <1>3, <1>4

\* Setting a field of a thread leaves the others, and the other thread, alone.
LEMMA MachineSet ==
  ASSUME Routed, NEW t \in Thread, NEW r, thread' = [thread EXCEPT ![t] = r]
  PROVE  thread'[t] = r /\ \A u \in Thread : u # t => thread'[u] = thread[u]
  BY DEF Routed

\* A thread makes room for its engine.
LEMMA RoomTurns ==
  ASSUME Routed, NEW t \in Thread, SwapBegins(t) \/ StopOverlapping(t) \/ SwapSleeps(t)
  PROVE  /\ \A u \in Thread : u # t => thread'[u] = thread[u]
         /\ SwapBegins(t) => /\ thread[t].pc = "swap" /\ thread'[t].pc = "sleep"
                             /\ thread'[t].alive = (engine[Subject(t)] \notin Down)
         /\ StopOverlapping(t) => thread[t].pc = "stop" /\ thread'[t].pc \in {"stop", "start"}
         /\ SwapSleeps(t) => /\ thread[t].pc = "sleep" /\ thread'[t].pc \in {"sleep", "bring"}
                             /\ thread'[t].alive = thread[t].alive
  <1>1. thread[t] \in Machine
    BY DEF Routed
  <1>2. CASE SwapBegins(t)
    <2> DEFINE r == [pc |-> "sleep", alive |-> engine[Subject(t)] \notin Down, todo |-> InTheWay(Subject(t))]
    <2>1. thread' = [thread EXCEPT ![t] = r] /\ thread[t].pc = "swap"
      BY <1>2 DEF SwapBegins, At
    <2>2. r.pc = "sleep" /\ r.alive = (engine[Subject(t)] \notin Down)
      OBVIOUS
    <2> HIDE DEF r
    <2>3. thread'[t] = r /\ \A u \in Thread : u # t => thread'[u] = thread[u]
      BY <2>1, MachineSet
    <2>4. ~StopOverlapping(t) /\ ~SwapSleeps(t)
      BY <2>1 DEF StopOverlapping, SwapSleeps, At
    <2> QED BY <2>1, <2>2, <2>3, <2>4
  <1>3. CASE StopOverlapping(t) \/ SwapSleeps(t)
    <2>1. \/ \E p \in {"start", "bring"} : /\ thread' = [thread EXCEPT ![t] = [thread[t] EXCEPT !.pc = p]]
                                           /\ p = IF thread[t].pc = "stop" THEN "start" ELSE "bring"
          \/ \E S : thread' = [thread EXCEPT ![t] = [thread[t] EXCEPT !.todo = S]]
      <3>1. CASE StopOverlapping(t)
        BY <3>1 DEF StopOverlapping, Goto, At
      <3>2. CASE SwapSleeps(t)
        BY <3>2 DEF SwapSleeps, Goto, At
      <3> QED BY <1>3, <3>1, <3>2
    <2>2. ASSUME NEW p \in {"start", "bring"}, thread' = [thread EXCEPT ![t] = [thread[t] EXCEPT !.pc = p]]
          PROVE  /\ thread'[t].pc = p /\ thread'[t].alive = thread[t].alive
                 /\ \A u \in Thread : u # t => thread'[u] = thread[u]
      <3> DEFINE r == [thread[t] EXCEPT !.pc = p]
      <3>1. r.pc = p /\ r.alive = thread[t].alive
        BY <1>1 DEF Machine
      <3> HIDE DEF r
      <3> QED BY <2>2, <3>1, MachineSet DEF r
    <2>3. ASSUME NEW S, thread' = [thread EXCEPT ![t] = [thread[t] EXCEPT !.todo = S]]
          PROVE  /\ thread'[t].pc = thread[t].pc /\ thread'[t].alive = thread[t].alive
                 /\ \A u \in Thread : u # t => thread'[u] = thread[u]
      <3> DEFINE r == [thread[t] EXCEPT !.todo = S]
      <3>1. r.pc = thread[t].pc /\ r.alive = thread[t].alive
        BY <1>1 DEF Machine
      <3> HIDE DEF r
      <3> QED BY <2>3, <3>1, MachineSet DEF r
    <2>4. /\ thread'[t].alive = thread[t].alive /\ \A u \in Thread : u # t => thread'[u] = thread[u]
          /\ \/ thread'[t].pc = thread[t].pc
             \/ thread'[t].pc = IF thread[t].pc = "stop" THEN "start" ELSE "bring"
      BY <2>1, <2>2, <2>3
    <2>5. /\ StopOverlapping(t) => thread[t].pc = "stop"
          /\ SwapSleeps(t) => thread[t].pc = "sleep"
          /\ SwapBegins(t) => thread[t].pc = "swap"
      BY DEF StopOverlapping, SwapSleeps, SwapBegins, At
    <2> QED BY <1>3, <2>4, <2>5
  <1> QED BY <1>2, <1>3

\* The need of the engine of the task.
MustStart == IF config.arm = "pool" THEN MustBoot(Chosen) ELSE engine[Chosen] \in Down

LEMMA DecideTurns ==
  ASSUME Routed, Decide
  PROVE  /\ Caller.pc = "decide" /\ Loader' = Loader
         /\ Caller'.pc = IF config.arm = "sleep_wake" THEN "swap" ELSE IF MustStart THEN "stop" ELSE "consume"
         /\ overlooked' = IF MustStart /\ Underway(Chosen) # {} /\ Chosen \notin DOMAIN pending
                          THEN overlooked \cup {Chosen} ELSE overlooked
  <1> DEFINE c == thread["callback"]
  <1>1. "callback" \in Thread /\ "executor" \in Thread
    BY DEF Thread
  <1>2. c \in Machine
    BY <1>1 DEF Routed
  <1>3. \/ config.arm = "sleep_wake" /\ thread' = [thread EXCEPT !["callback"] = [c EXCEPT !.pc = "swap"]]
        \/ /\ config.arm # "sleep_wake" /\ MustStart
           /\ thread' = [thread EXCEPT !["callback"] = [c EXCEPT !.pc = "stop", !.todo = InTheWay(Chosen)]]
        \/ /\ config.arm # "sleep_wake" /\ ~MustStart
           /\ thread' = [thread EXCEPT !["callback"] = [c EXCEPT !.pc = "consume"]]
    BY DEF Decide, MustStart
  <1>4. /\ [c EXCEPT !.pc = "swap"].pc = "swap" /\ [c EXCEPT !.pc = "consume"].pc = "consume"
        /\ [c EXCEPT !.pc = "stop", !.todo = InTheWay(Chosen)].pc = "stop"
    BY <1>2 DEF Machine
  <1>5. Caller.pc = "decide"
    BY DEF Decide, At, Caller
  <1>6. overlooked' = IF MustStart /\ Underway(Chosen) # {} /\ Chosen \notin DOMAIN pending
                      THEN overlooked \cup {Chosen} ELSE overlooked
    BY DEF Decide, MustStart
  <1> HIDE DEF c
  <1>7. ASSUME NEW r, thread' = [thread EXCEPT !["callback"] = r]
        PROVE  thread'["callback"] = r /\ thread'["executor"] = thread["executor"]
    BY <1>1, <1>7, MachineSet
  <1>8. CASE config.arm = "sleep_wake" /\ thread' = [thread EXCEPT !["callback"] = [c EXCEPT !.pc = "swap"]]
    BY <1>4, <1>5, <1>6, <1>7, <1>8 DEF Caller, Loader
  <1>9. CASE /\ config.arm # "sleep_wake" /\ MustStart
             /\ thread' = [thread EXCEPT !["callback"] = [c EXCEPT !.pc = "stop", !.todo = InTheWay(Chosen)]]
    BY <1>4, <1>5, <1>6, <1>7, <1>9 DEF Caller, Loader
  <1>10. CASE /\ config.arm # "sleep_wake" /\ ~MustStart
              /\ thread' = [thread EXCEPT !["callback"] = [c EXCEPT !.pc = "consume"]]
    BY <1>4, <1>5, <1>6, <1>7, <1>10 DEF Caller, Loader
  <1> QED BY <1>3, <1>8, <1>9, <1>10

\* The load thread, step by step.
LEMMA LoaderTurns ==
  ASSUME Routed
  PROVE  /\ TakeBoot => /\ Loader.pc = "idle" /\ Caller' = Caller
                        /\ Loader'.pc = CASE config.arm = "pool" -> "stop"
                                          [] config.arm = "sleep_wake" -> "swap" [] OTHER -> "start"
         /\ StartBoot => Loader.pc = "start" /\ Loader'.pc = "load" /\ Caller' = Caller
         /\ SwapBrings("executor") => /\ Loader.pc = "bring" /\ Loader'.pc = "load" /\ Caller' = Caller
         /\ BootEnds => /\ Loader.pc = "load" /\ Loader'.pc \in {"reap", "idle"} /\ Caller' = Caller
                        /\ Loader'.pc = "reap" => boots[current].told
         /\ ReapWasted => Loader.pc = "reap" /\ Loader'.pc = "idle" /\ Caller' = Caller
  <1> DEFINE x == thread["executor"]
  <1>1. "callback" \in Thread /\ "executor" \in Thread
    BY DEF Thread
  <1>2. x \in Machine
    BY <1>1 DEF Routed
  <1> HIDE DEF x
  <1>3. ASSUME NEW r, thread' = [thread EXCEPT !["executor"] = r]
        PROVE  Loader' = r /\ Caller' = Caller
    BY <1>1, <1>3, MachineSet DEF Loader, Caller
  <1>4. ASSUME NEW p, Goto("executor", p)
        PROVE  Loader'.pc = p /\ Caller' = Caller
    <2>1. [x EXCEPT !.pc = p].pc = p
      BY <1>2 DEF Machine
    <2>2. thread' = [thread EXCEPT !["executor"] = [x EXCEPT !.pc = p]]
      BY <1>4 DEF Goto, x
    <2> QED BY <1>3, <2>1, <2>2
  <1>5. ASSUME TakeBoot
        PROVE  /\ Loader.pc = "idle" /\ Caller' = Caller
               /\ Loader'.pc = CASE config.arm = "pool" -> "stop"
                                 [] config.arm = "sleep_wake" -> "swap" [] OTHER -> "start"
    <2> DEFINE m == boots[current + 1].model
    <2>1. \/ config.arm = "sleep_wake" /\ Goto("executor", "swap")
          \/ /\ config.arm = "pool"
             /\ thread' = [thread EXCEPT !["executor"] = [x EXCEPT !.pc = "stop", !.todo = InTheWay(m)]]
          \/ config.arm = "swap" /\ Goto("executor", "start")
      <3>1. config.arm \in {"pool", "sleep_wake", "swap"}
        BY ConfigType DEF Routed
      <3> QED BY <1>5, <3>1 DEF TakeBoot, Goto, x
    <2>2. [x EXCEPT !.pc = "stop", !.todo = InTheWay(m)].pc = "stop"
      BY <1>2 DEF Machine
    <2>3. Loader.pc = "idle"
      BY <1>5 DEF TakeBoot, At, Loader
    <2> HIDE DEF m
    <2>4. CASE config.arm = "pool" /\ thread' = [thread EXCEPT !["executor"] = [x EXCEPT !.pc = "stop", !.todo = InTheWay(m)]]
      BY <1>3, <2>2, <2>3, <2>4
    <2> QED BY <1>4, <2>1, <2>3, <2>4
  <1>6. ASSUME BootEnds
        PROVE  /\ Loader.pc = "load" /\ Loader'.pc \in {"reap", "idle"} /\ Caller' = Caller
               /\ Loader'.pc = "reap" => boots[current].told
    <2>1. Loader.pc = "load" /\ \E p \in {"reap", "idle"} : Goto("executor", p) /\ (p = "reap" => boots[current].told)
      BY <1>6 DEF BootEnds, At, Loader
    <2> QED BY <1>4, <2>1
  <1>7. StartBoot => Loader.pc = "start" /\ Goto("executor", "load")
    BY DEF StartBoot, At, Loader
  <1>8. SwapBrings("executor") => Loader.pc = "bring" /\ Goto("executor", "load")
    BY DEF SwapBrings, At, Loader
  <1>9. ReapWasted => Loader.pc = "reap" /\ Goto("executor", "idle")
    BY DEF ReapWasted, At, Loader
  <1> QED BY <1>4, <1>5, <1>6, <1>7, <1>8, <1>9

\* The three kinds of thread leave each other's state alone.
LEMMA CallerAlone ==
  ASSUME Routed, Callback
  PROVE  current' = current /\ Loader' = Loader
  <1>1. \A u \in Thread : u # "callback" => thread'[u] = thread[u]
    <2>1. CASE \/ \E t \in {"callback"} : StopOverlapping(t) \/ SwapBegins(t) \/ SwapSleeps(t)
               \/ \E p \in Plans, extracted \in BOOLEAN : PlanEnds(p, extracted)
               \/ StageTransition \/ EnsembleStarts
      BY <2>1, RoomTurns DEF Thread, PlanEnds, StageTransition, EnsembleStarts
    <2>2. CASE Decide
      BY <2>2, DecideTurns DEF Thread, Loader
    <2>3. CASE \/ \E x \in Specialist \cup {None} : RouteTask(x)
               \/ NextTurn \/ StartOnDemand \/ SwapBrings("callback") \/ SwapServes \/ Consume \/ Wait
               \/ Flip \/ Maintain \/ Ask \/ Answer \/ AggregatorAgent \/ AggregatorReady
      BY <2>3, CallerTurns DEF Thread, Loader, Steps
    <2> QED BY <2>1, <2>2, <2>3 DEF Callback
  <1>2. current' = current
    BY DEF Callback, PlanEnds, RouteTask, NextTurn, Decide, StopOverlapping, StartOnDemand,
       SwapBegins, SwapSleeps, SwapBrings, SwapServes, Consume, Wait, Flip, Maintain, Ask, Answer,
       StageTransition, EnsembleStarts, AggregatorAgent, AggregatorReady
  <1> QED BY <1>1, <1>2 DEF Thread, Loader

\* Engines that come up, fail or are evicted.
EnginesMove == \E m \in Model : EvictOne(m) \/ EngineReady(m) \/ EngineFails(m)

LEMMA LoaderAlone ==
  ASSUME Routed, Executor \/ EnginesMove
  PROVE  /\ Caller' = Caller /\ Chosen' = Chosen /\ evicting' \subseteq evicting
         /\ UNCHANGED <<worker, plan, pending, target, overlooked>>
  <1>1. Caller' = Caller
    <2>1. CASE \E t \in {"executor"} : StopOverlapping(t) \/ SwapBegins(t) \/ SwapSleeps(t)
      BY <2>1, RoomTurns DEF Thread, Caller
    <2>2. CASE TakeBoot \/ StartBoot \/ SwapBrings("executor") \/ BootEnds \/ ReapWasted
      BY <2>2, LoaderTurns
    <2>3. CASE EnginesMove
      BY <2>3 DEF EnginesMove, EvictOne, EngineReady, EngineFails, Caller
    <2> QED BY <2>1, <2>2, <2>3 DEF Executor
  <1>2. evicting' \subseteq evicting /\ UNCHANGED <<worker, plan, pending, target, overlooked>>
    <2>1. CASE Executor
      BY <2>1 DEF Executor, StopOverlapping, SwapBegins, SwapSleeps, TakeBoot, StartBoot, SwapBrings,
         BootEnds, ReapWasted, adapter
    <2>2. CASE EnginesMove
      BY <2>2 DEF EnginesMove, EvictOne, EngineReady, EngineFails, adapter
    <2> QED BY <2>1, <2>2
  <1>3. config' = config
    BY ConfigStays DEF Next, EnginesMove
  <1> QED BY <1>1, <1>2, <1>3 DEF Chosen, ModelFor, Specialist, Worker

LEMMA EnginesAlone ==
  ASSUME EnginesMove
  PROVE  UNCHANGED <<thread, boots, current>>
  BY DEF EnginesMove, EvictOne, EngineReady, EngineFails

LEMMA StepsAre ==
  ASSUME Next
  PROVE  Callback \/ Executor \/ EnginesMove
  BY DEF Next, EnginesMove

\* What a boot is told it is not untold, and only the planner's end and
\* pre-booting schedule boots.
LEMMA ToldStays ==
  ASSUME Routed, Next
  PROVE  /\ \A b \in DOMAIN boots : b \in DOMAIN boots' /\ (boots[b].told => boots'[b].told)
         /\ \/ DOMAIN boots' = DOMAIN boots \/ Maintain
            \/ \E p \in Plans, extracted \in BOOLEAN : PlanEnds(p, extracted)
  <1>1. /\ boots \in Seq(Boot) /\ boots' \in Seq(Boot)
        /\ DOMAIN boots = 1..Len(boots) /\ DOMAIN boots' = 1..Len(boots')
        /\ Len(boots) \in Nat /\ Len(boots') \in Nat /\ Len(boots') >= Len(boots)
    <2>1. boots \in Seq(Boot) /\ boots' \in Seq(Boot) /\ Len(boots') >= Len(boots)
      BY BootsStep DEF Routed
    <2> QED BY <2>1
  <1>2. \A b \in DOMAIN boots : b \in DOMAIN boots'
    BY <1>1
  <1>3. CASE BootsAlone
    BY <1>2, <1>3, BootsStay
  <1>4. ASSUME NEW p \in Plans, NEW extracted \in BOOLEAN, PlanEnds(p, extracted)
        PROVE  \A b \in DOMAIN boots : boots'[b] = boots[b]
    <2>1. \/ boots' = boots \/ \E x : boots' = Append(boots, NewBoot(ModelFor(x), 0))
          \/ boots' = Append(boots, NewBoot(Worker, 0))
      BY <1>4 DEF PlanEnds, PrefetchWorker
    <2>2. \A m \in Own : NewBoot(m, 0) \in Boot
      BY RoutingConstants DEF NewBoot, Boot, Outcome
    <2>3. boots' = boots \/ \E r \in Boot : boots' = Append(boots, r)
      BY <2>1, <2>2, ConfigType DEF Routed
    <2>4. \A r \in Boot : \A b \in 1..Len(boots) : Append(boots, r)[b] = boots[b]
      <3>1. boots \in Seq(Boot)
        BY <1>1
      <3> QED BY <3>1
    <2>5. \A b \in 1..Len(boots) : boots'[b] = boots[b]
      BY <2>3, <2>4
    <2> QED BY <1>1, <2>5
  <1>5. ASSUME NEW S, NEW Edit(_), boots' = [b \in DOMAIN boots |-> IF b \in S THEN Edit(boots[b]) ELSE boots[b]],
               \A b \in DOMAIN boots : boots[b].told => Edit(boots[b]).told
        PROVE  DOMAIN boots' = DOMAIN boots /\ \A b \in DOMAIN boots : boots[b].told => boots'[b].told
    BY <1>5
  <1>6. \A b \in DOMAIN boots : boots[b] \in Boot
    BY <1>1
  <1>7. \A r \in Boot : r.told => Used(r).told /\ Cancelled(r).told
    <2> TAKE r \in Boot
    <2>1. [r EXCEPT !.status = "used"].told = r.told
      BY DEF Boot
    <2>2. [r EXCEPT !.told = TRUE].told /\ [r EXCEPT !.told = TRUE, !.status = "wasted"].told
      BY DEF Boot
    <2> QED BY <2>1, <2>2 DEF Used, Cancelled
  <1>8. CASE \E x \in Specialist \cup {None} : RouteTask(x)
    <2>1. \/ boots' = boots
          \/ boots' = [b \in DOMAIN boots |-> IF b \in {transition} THEN Cancelled(boots[b]) ELSE boots[b]]
      BY <1>8 DEF RouteTask
    <2> QED BY <1>2, <1>5, <1>6, <1>7, <2>1
  <1>9. CASE Consume
    <2>1. \/ boots' = boots
          \/ \E S : boots' = [b \in DOMAIN boots |-> IF b \in S THEN Used(boots[b]) ELSE boots[b]]
      BY <1>9 DEF Consume
    <2> QED BY <1>2, <1>5, <1>6, <1>7, <2>1
  <1>10. CASE Maintain
    BY <1>1, <1>2, <1>10, MaintainIs
  <1>11. CASE BootEnds
    <2>1. \E s : boots' = [boots EXCEPT ![current] = [boots[current] EXCEPT !.status = s]]
      BY <1>11 DEF BootEnds
    <2>2. current \in DOMAIN boots
      BY <1>1, <1>11 DEF Routed, BootEnds, At
    <2>3. \A s : [boots[current] EXCEPT !.status = s].told = boots[current].told
      BY <1>6, <2>2 DEF Boot
    <2> QED BY <1>2, <2>1, <2>2, <2>3
  <1> QED BY <1>2, <1>3, <1>4, <1>8, <1>9, <1>10, <1>11, StepKinds

\* The executor starts the engine of the boot it has in hand.
LoaderStarts == StartBoot \/ SwapBrings("executor")

LEMMA LoaderCounts ==
  ASSUME Routed, Next
  PROVE  \/ current' = current /\ (Loader'.pc \in BeforeStart <=> Loader.pc \in BeforeStart) /\ ~LoaderStarts
         \/ current' = current + 1 /\ Loader'.pc \in BeforeStart /\ Loader.pc = "idle" /\ ~LoaderStarts /\ TakeBoot
         \/ current' = current /\ Loader.pc \in BeforeStart /\ Loader'.pc = "load" /\ LoaderStarts
  <1>1. "idle" \notin BeforeStart /\ "load" \notin BeforeStart /\ "reap" \notin BeforeStart
    BY DEF BeforeStart
  <1>2. LoaderStarts => Loader.pc \in {"start", "bring"}
    BY DEF LoaderStarts, StartBoot, SwapBrings, At, Loader
  <1>3. LoaderStarts => Loader'.pc = "load" /\ current' = current
    <2>1. LoaderStarts => Loader'.pc = "load"
      BY LoaderTurns DEF LoaderStarts
    <2>2. LoaderStarts => current' = current
      BY DEF LoaderStarts, StartBoot, SwapBrings
    <2> QED BY <2>1, <2>2
  <1>4. CASE LoaderStarts
    BY <1>2, <1>3, <1>4 DEF BeforeStart
  <1>5. CASE ~LoaderStarts /\ (Callback \/ EnginesMove)
    BY <1>5, CallerAlone, EnginesAlone DEF Loader
  <1>6. CASE TakeBoot /\ ~LoaderStarts
    <2>1. current' = current + 1 /\ Loader.pc = "idle"
      BY <1>6, LoaderTurns DEF TakeBoot
    <2>2. Loader'.pc \in BeforeStart
      BY <1>6, LoaderTurns DEF BeforeStart
    <2> QED BY <1>6, <2>1, <2>2
  <1>7. CASE ~LoaderStarts /\ (BootEnds \/ ReapWasted)
    <2>1. current' = current
      BY <1>7 DEF BootEnds, ReapWasted
    <2>2. Loader.pc \in {"load", "reap"} /\ Loader'.pc \in {"reap", "idle"}
      BY <1>7, LoaderTurns
    <2> QED BY <1>1, <1>7, <2>1, <2>2
  <1>8. CASE ~LoaderStarts /\ \E t \in {"executor"} : StopOverlapping(t) \/ SwapBegins(t) \/ SwapSleeps(t)
    <2>1. current' = current
      BY <1>8 DEF StopOverlapping, SwapBegins, SwapSleeps
    <2>2. Loader.pc \in BeforeStart /\ Loader'.pc \in BeforeStart
      BY <1>8, RoomTurns DEF BeforeStart, Loader, Thread
    <2> QED BY <1>8, <2>1, <2>2
  <1> QED BY <1>4, <1>5, <1>6, <1>7, <1>8, StepsAre DEF Executor, LoaderStarts

\* Boots are started in order, each once.
LEMMA ComingIs ==
  ASSUME Routed, Next, NEW m
  PROVE  /\ DOMAIN boots' = DOMAIN boots => Coming(m)' \subseteq Coming(m)
         /\ ~LoaderStarts => Coming(m) \subseteq Coming(m)'
         /\ LoaderStarts => /\ Coming(m)' = Coming(m) \ {current}
                            /\ m = Subject("executor") => current \in Coming(m)
                            /\ m # Subject("executor") => current \notin Coming(m)
  <1>1. /\ DOMAIN boots \subseteq DOMAIN boots' /\ DOMAIN boots \subseteq Nat
        /\ \A b \in DOMAIN boots : boots'[b].model = boots[b].model
    <2>1. /\ boots \in Seq(Boot) /\ boots' \in Seq(Boot) /\ Len(boots') >= Len(boots)
          /\ \A b \in 1..Len(boots) : boots'[b].model = boots[b].model
      BY BootsStep DEF Routed
    <2> QED BY <2>1
  <1>2. current \in Nat /\ current' \in Nat
    BY LoaderCounts DEF Routed
  <1>3. LoaderStarts => DOMAIN boots' = DOMAIN boots
    BY DEF LoaderStarts, StartBoot, SwapBrings
  <1> DEFINE due(b) == b > current \/ (b = current /\ Loader.pc \in BeforeStart)
             dueNext(b) == b > current' \/ (b = current' /\ Loader'.pc \in BeforeStart)
  <1>4. \A b : /\ b \in Coming(m) <=> b \in DOMAIN boots /\ boots[b].model = m /\ due(b)
               /\ b \in Coming(m)' <=> b \in DOMAIN boots' /\ boots'[b].model = m /\ dueNext(b)
    BY DEF Coming
  <1>5. ASSUME ~LoaderStarts
        PROVE  \A b \in Nat : due(b) <=> dueNext(b)
    <2>1. "idle" \notin BeforeStart
      BY DEF BeforeStart
    <2> QED BY <1>2, <1>5, <2>1, LoaderCounts
  <1>6. ASSUME LoaderStarts
        PROVE  \A b \in Nat : dueNext(b) <=> due(b) /\ b # current
    <2>1. current' = current /\ Loader'.pc \notin BeforeStart
      BY <1>6, LoaderCounts DEF BeforeStart
    <2> QED BY <1>2, <2>1
  <1>7. ASSUME LoaderStarts
        PROVE  due(current) /\ current \in DOMAIN boots
    <2>1. Loader.pc \in BeforeStart /\ ~At("executor", "idle")
      BY <1>7, LoaderCounts DEF BeforeStart, At, Loader
    <2>2. current \in 1..Len(boots) /\ boots \in Seq(Boot)
      BY <2>1 DEF Routed
    <2> QED BY <2>1, <2>2
  <1>8. Subject("executor") = boots[current].model
    BY DEF Subject
  <1> HIDE DEF due, dueNext
  <1>9. DOMAIN boots' = DOMAIN boots => Coming(m)' \subseteq Coming(m)
    BY <1>1, <1>4, <1>5, <1>6
  <1>10. ~LoaderStarts => Coming(m) \subseteq Coming(m)'
    BY <1>1, <1>4, <1>5
  <1>11. LoaderStarts => Coming(m)' = Coming(m) \ {current}
    BY <1>1, <1>3, <1>4, <1>6
  <1> QED BY <1>4, <1>7, <1>8, <1>9, <1>10, <1>11

LEMMA ComingUnderway ==
  ASSUME NEW m
  PROVE  Coming(m) \subseteq Underway(m)
  BY DEF Coming, Underway, BeforeStart, Loader

\* Pre-booting adds one boot for each engine that needs one.
LEMMA PrebootComing ==
  ASSUME Routed, Maintain, NEW m
  PROVE  /\ m \notin Fresh => Coming(m)' \subseteq Coming(m)
         /\ m \in Fresh => \E k \in Coming(m)' : Coming(m)' \subseteq Coming(m) \cup {k}
  <1>1. /\ DOMAIN boots = 1..Len(boots) /\ DOMAIN boots' = 1..Len(boots')
        /\ Len(boots) \in Nat /\ Len(boots') \in Nat
    <2>1. boots \in Seq(Boot) /\ boots' \in Seq(Boot)
      BY MaintainIs DEF Routed
    <2> QED BY <2>1
  <1>2. current' = current /\ Loader' = Loader /\ current \in 0..Len(boots)
    BY CallerAlone DEF Callback, Routed
  <1>3. \A b \in 1..Len(boots) : boots'[b] = boots[b]
    BY MaintainIs
  <1> DEFINE new == (Len(boots) + 1)..Len(boots')
  <1>4. \A b \in Coming(m)' : b \in Coming(m) \/ (b \in new /\ boots'[b].model = m)
    BY <1>1, <1>2, <1>3 DEF Coming
  <1>5. \A b \in new : boots'[b].model = m => b \in Coming(m)'
    BY <1>1, <1>2 DEF Coming
  <1>6. /\ \A b \in new : boots'[b].model \in Fresh
        /\ \A b, c \in new : boots'[b].model = boots'[c].model => b = c
        /\ \A n \in Fresh : \E b \in new : boots'[b].model = n
    BY MaintainIs
  <1> HIDE DEF new
  <1> QED BY <1>4, <1>5, <1>6

\* The end of the planner schedules the first boot and stops the planner's
\* engine only.
LEMMA PlannerEnds ==
  ASSUME SettledPools, Routed, PlannerFirst, NEW p \in Plans, NEW extracted \in BOOLEAN, PlanEnds(p, extracted)
  PROVE  /\ \A m \in Own : engine'[m] = engine[m] /\ engine[m] \in Down /\ \A b, c \in Coming(m)' : b = c
         /\ worker.task = 0 /\ Caller.pc = "idle" /\ Loader.pc = "idle" /\ DOMAIN pending = {}
         /\ UNCHANGED <<thread, worker, pending, current, evicting, target, overlooked>>
  <1>1. /\ plan = None /\ UNCHANGED <<thread, worker, pending, current, evicting, target, overlooked>>
        /\ boots' = boots \/ \E r : boots' = Append(boots, r)
    BY DEF PlanEnds, PrefetchWorker
  <1>2. /\ worker.task = 0 /\ boots = <<>> /\ Caller.pc = "idle" /\ Loader.pc = "idle"
        /\ \A m \in Model \ {Planner} : engine[m] \in Down
    BY <1>1 DEF PlannerFirst, Thread, At, Caller, Loader
  <1>3. Own \subseteq Model /\ Planner \notin Own
    BY SettledIs, ConfigType DEF Routed
  <1>4. DOMAIN pending = {}
    <2>1. 1..Len(boots) = {}
      BY <1>2
    <2> HIDE DEF Routed
    <2>2. \A m \in DOMAIN pending : pending[m] \in 1..Len(boots)
      BY DEF Routed
    <2> QED BY <2>1, <2>2
  <1>5. DOMAIN boots' \subseteq {1}
    <2>1. boots' = <<>> \/ \E r : boots' = <<r>>
      BY <1>1, <1>2
    <2> QED BY <2>1
  <1>6. \A m \in Own : \A b, c \in Coming(m)' : b = c
    BY <1>5 DEF Coming
  <1>7. \A m \in Own : engine'[m] = engine[m]
    <2>1. Running \subseteq {Planner}
      BY <1>2 DEF Running
    <2>2. engine' = engine \/ \E s : Set(Planner, s)
      BY <2>1 DEF PlanEnds, PrefetchWorker, ReleaseGpusFor
    <2>3. engine \in [Model -> Standing]
      BY DEF Routed
    <2> QED BY <1>3, <2>2, <2>3 DEF Set
  <1> QED BY <1>1, <1>2, <1>3, <1>4, <1>6, <1>7

\* How an engine of the worker tasks may move: it comes up by itself, is evicted
\* or stopped as a wasted boot, or is started by one of the two threads.
Starts(m, machine) ==
    /\ machine.pc = "start" \/ (machine.pc = "bring" /\ ~machine.alive)
    /\ engine'[m] = IF engine[m] \in Down THEN "loading" ELSE "raced"

\* The callback starts the engine of the task.
CallerStarts == StartOnDemand \/ SwapBrings("callback")

OwnMoves(m) ==
    \/ engine'[m] = engine[m]
    \/ engine[m] = "loading" /\ engine'[m] \in {"ready", "failed"}
    \/ m \in evicting /\ engine[m] \notin Down /\ engine'[m] = "evicted"
    \/ Loader.pc = "reap" /\ m = Subject("executor") /\ engine[m] \notin Down /\ engine'[m] = "wasted"
    \/ m = Chosen /\ Starts(m, Caller) /\ CallerStarts
    \/ m = Subject("executor") /\ Starts(m, Loader) /\ LoaderStarts

LEMMA OwnMovesIs ==
  ASSUME Accounted, Next, NEW m \in Own
  PROVE  OwnMoves(m)
  <1>1. Routed /\ PlannerFirst /\ TodoOverlaps /\ OwnAwake /\ config \in Configs /\ SettledPools
    BY DEF Accounted, BootsInv, Routed
  <1>2. engine \in [Model -> Standing] /\ m \in Model /\ Own \subseteq Model
    BY <1>1, ConfigType DEF Routed
  <1>3. \A n \in Own : ~Overlap(n, m) /\ ~Overlap(m, n)
    BY <1>1, SettledIs
  <1>4. ASSUME engine' = engine \/ \E n, s : n # m /\ Set(n, s)
        PROVE  engine'[m] = engine[m]
    BY <1>2, <1>4 DEF Set
  <1>5. \A n, s : Set(n, s) => engine'[m] = IF n = m THEN s ELSE engine[m]
    BY <1>2 DEF Set
  <1>6. CASE \E n \in Model : EvictOne(n) \/ EngineReady(n) \/ EngineFails(n)
    <2>1. PICK n \in Model : EvictOne(n) \/ EngineReady(n) \/ EngineFails(n)
      BY <1>6
    <2>2. CASE EvictOne(n)
      BY <1>4, <1>5, <2>2 DEF EvictOne, OwnMoves
    <2>3. CASE EngineReady(n) \/ EngineFails(n)
      BY <1>5, <2>3 DEF EngineReady, EngineFails, OwnMoves
    <2> QED BY <2>1, <2>2, <2>3
  <1>7. ASSUME NEW t \in Thread, StopOverlapping(t) \/ SwapSleeps(t)
        PROVE  engine'[m] = engine[m]
    <2>1. thread[t].pc \in Rooming
      BY <1>7 DEF StopOverlapping, SwapSleeps, At, Rooming
    <2>2. Subject(t) \in Own
      BY <1>1, <2>1, SubjectType DEF Thread, At, Rooming
    <2>3. m \notin thread[t].todo
      BY <1>1, <1>3, <2>1, <2>2 DEF TodoOverlaps
    <2> QED BY <1>4, <1>7, <2>3 DEF StopOverlapping, SwapSleeps
  <1>8. Start(m) => engine'[m] = IF engine[m] \in Down THEN "loading" ELSE "raced"
    BY <1>5 DEF Start
  <1>9. \A n : n # m /\ Start(n) => engine'[m] = engine[m]
    BY <1>5 DEF Start
  <1>10. ASSUME NEW t \in Thread, SwapBrings(t)
         PROVE  \/ engine'[m] = engine[m] \/ (m = Subject(t) /\ Starts(m, thread[t]))
    <2>1. thread[t].pc = "bring"
      BY <1>10 DEF SwapBrings, At
    <2>2. CASE ~thread[t].alive
      BY <1>8, <1>9, <1>10, <2>1, <2>2 DEF SwapBrings, Starts
    <2>3. CASE thread[t].alive
      <3>1. Subject(t) \in Own
        BY <1>1, <2>1, SubjectType DEF Thread, At
      <3>2. engine[Subject(t)] # "asleep"
        BY <1>1, <3>1 DEF OwnAwake
      <3>3. engine' = engine
        BY <1>10, <2>3, <3>2 DEF SwapBrings
      <3> QED BY <3>3
    <2> QED BY <2>2, <2>3
  <1>11. CASE StartOnDemand
    BY <1>8, <1>9, <1>11 DEF StartOnDemand, Starts, OwnMoves, At, Caller, CallerStarts
  <1>12. CASE StartBoot
    BY <1>8, <1>9, <1>12 DEF StartBoot, Starts, OwnMoves, At, Loader, LoaderStarts
  <1>13. CASE SwapBrings("callback")
    BY <1>10, <1>13 DEF OwnMoves, Thread, Caller, Subject, CallerStarts
  <1>14. CASE SwapBrings("executor")
    BY <1>10, <1>14 DEF OwnMoves, Thread, Loader, LoaderStarts
  <1>15. CASE ReapWasted
    <2>1. Loader.pc = "reap"
      BY <1>15, <1>1, LoaderTurns
    <2>2. CASE Subject("executor") \in Running /\ Set(Subject("executor"), "wasted")
      BY <1>5, <2>1, <2>2 DEF OwnMoves, Running
    <2> QED BY <1>15, <2>2 DEF ReapWasted, OwnMoves
  <1>16. CASE EnsembleStarts \/ AggregatorAgent
    <2>1. config.aggregator # m
      BY <1>1, <1>16, SettledIs DEF EnsembleStarts, AggregatorAgent
    <2> QED BY <1>9, <1>16, <2>1 DEF EnsembleStarts, AggregatorAgent, OwnMoves
  <1>17. CASE \E p \in Plans, extracted \in BOOLEAN : PlanEnds(p, extracted)
    BY <1>1, <1>17, PlannerEnds DEF OwnMoves
  <1>18. CASE \/ \E x \in Specialist \cup {None} : RouteTask(x)
              \/ \E t \in Thread : SwapBegins(t)
              \/ NextTurn \/ Decide \/ SwapServes \/ Consume \/ Wait \/ Flip \/ Maintain \/ Ask \/ Answer
              \/ StageTransition \/ AggregatorReady \/ TakeBoot \/ BootEnds
    <2>1. engine' = engine
      BY <1>18 DEF RouteTask, SwapBegins, NextTurn, Decide, SwapServes, Consume, Wait, Flip, Maintain, Ask,
         Answer, StageTransition, AggregatorReady, TakeBoot, BootEnds
    <2> QED BY <2>1 DEF OwnMoves
  <1> QED BY <1>6, <1>7, <1>11, <1>12, <1>13, <1>14, <1>15, <1>16, <1>17, <1>18
          DEF Next, Callback, Executor, Thread, OwnMoves

\* Nobody starts an engine beside another boot of it but where the callback lost
\* sight of that boot; an engine that was started stays so.
LEMMA NoSecondStart ==
  ASSUME Accounted, Next, NEW m \in Own, m \notin overlooked
  PROVE  /\ m = Chosen /\ Starts(m, Caller) => engine[m] \in Down /\ engine'[m] = "loading" /\ Coming(m) = {}
         /\ m = Subject("executor") /\ Starts(m, Loader) /\ LoaderStarts =>
                engine[m] \in Down /\ engine'[m] = "loading"
  <1>1. Routed /\ OnDemand /\ OneComing
    BY DEF Accounted, BootsInv
  <1>2. ASSUME m = Chosen, Starts(m, Caller)
        PROVE  engine[m] \in Down /\ engine'[m] = "loading" /\ Coming(m) = {}
    BY <1>1, <1>2 DEF Starts, OnDemand, BeforeStart
  <1>3. ASSUME m = Subject("executor"), Starts(m, Loader), LoaderStarts
        PROVE  engine[m] \in Down /\ engine'[m] = "loading"
    <2>1. current \in Coming(m)
      BY <1>1, <1>3, ComingIs
    <2>2. engine[m] \in Down
      BY <1>1, <2>1 DEF OneComing
    <2> QED BY <1>3, <2>2 DEF Starts
  <1> QED BY <1>2, <1>3

\* How the other engines may move: the aggregator is started when it is down,
\* and only engines that are not the aggregator make room.
ForeignMoves(m) ==
    \/ engine'[m] = engine[m]
    \/ engine[m] = "loading" /\ engine'[m] \in {"ready", "failed"}
    \/ engine'[m] = "loading" /\ engine[m] \in Down /\ Caller.pc = "idle"
    \/ engine'[m] \in {"off", "asleep", "evicted"} /\ (m # config.aggregator \/ Caller.pc = "idle")

LEMMA ForeignMovesIs ==
  ASSUME Accounted, Next, NEW m \in Model \ Own
  PROVE  ForeignMoves(m)
  <1>1. Routed /\ PlannerFirst /\ TodoOverlaps /\ PoolsOnly /\ config \in Configs /\ SettledPools /\ None \notin Model
    BY ConfigType DEF Accounted, BootsInv, Routed
  <1>2. engine \in [Model -> Standing] /\ m \in Model /\ Own \subseteq Model
    BY <1>1, ConfigType DEF Routed
  <1>3. \A n, s : Set(n, s) => engine'[m] = IF n = m THEN s ELSE engine[m]
    BY <1>2 DEF Set
  <1>4. m = config.aggregator => evicting = {} /\ \A n \in Model : ~Overlap(m, n)
    BY <1>1, SettledIs DEF PoolsOnly, Overlap
  <1>5. CASE EnginesMove
    <2>1. PICK n \in Model : EvictOne(n) \/ EngineReady(n) \/ EngineFails(n)
      BY <1>5 DEF EnginesMove
    <2>2. CASE EvictOne(n)
      BY <1>3, <1>4, <2>2 DEF EvictOne, ForeignMoves
    <2>3. CASE EngineReady(n) \/ EngineFails(n)
      BY <1>3, <2>3 DEF EngineReady, EngineFails, ForeignMoves
    <2> QED BY <2>1, <2>2, <2>3
  <1>6. ASSUME NEW t \in Thread, StopOverlapping(t) \/ SwapSleeps(t)
        PROVE  ForeignMoves(m)
    <2>1. thread[t].pc \in Rooming
      BY <1>6 DEF StopOverlapping, SwapSleeps, At, Rooming
    <2>2. Subject(t) \in Own
      BY <1>1, <2>1, SubjectType DEF Thread, At, Rooming
    <2>3. m = config.aggregator => m \notin thread[t].todo
      BY <1>1, <1>2, <1>4, <2>1, <2>2 DEF TodoOverlaps
    <2>4. \/ engine' = engine
          \/ \E n \in thread[t].todo : Set(n, "off") \/ \E s \in Sleeps(engine[n]) : Set(n, s)
      BY <1>6 DEF StopOverlapping, SwapSleeps
    <2>5. \A s : s \in Sleeps(engine[m]) => s \in {"off", "asleep", engine[m]}
      BY DEF Sleeps
    <2> QED BY <1>3, <2>3, <2>4, <2>5 DEF ForeignMoves
  <1>7. ASSUME NEW n \in Own, Start(n)
        PROVE  engine'[m] = engine[m]
    BY <1>2, <1>3, <1>7 DEF Start
  <1>8. CASE StartOnDemand \/ StartBoot \/ \E t \in Thread : SwapBrings(t)
    <2>1. \E t \in Thread : Subject(t) \in Own /\ (engine' = engine \/ Start(Subject(t)) \/ Set(Subject(t), "ready"))
      <3>1. CASE StartOnDemand
        BY <1>1, <3>1, SubjectType DEF StartOnDemand, Subject, Thread
      <3>2. CASE StartBoot
        BY <1>1, <3>2, SubjectType DEF StartBoot, At, Thread
      <3>3. ASSUME NEW t \in Thread, SwapBrings(t)
            PROVE  Subject(t) \in Own /\ (engine' = engine \/ Start(Subject(t)) \/ Set(Subject(t), "ready"))
        BY <1>1, <3>3, SubjectType DEF SwapBrings, At, Thread
      <3> QED BY <1>8, <3>1, <3>2, <3>3
    <2> QED BY <1>3, <1>7, <2>1 DEF ForeignMoves
  <1>9. CASE ReapWasted
    <2>1. Subject("executor") \in Own
      BY <1>1, <1>9, SubjectType DEF ReapWasted, At
    <2> QED BY <1>3, <1>9, <2>1 DEF ReapWasted, ForeignMoves
  <1>10. CASE EnsembleStarts \/ AggregatorAgent
    <2>1. engine' = engine \/ (config.aggregator \in Model \ Running /\ Start(config.aggregator) /\ Caller.pc = "idle")
      BY <1>1, <1>10, SettledIs DEF EnsembleStarts, AggregatorAgent, At, Caller
    <2>2. CASE config.aggregator \in Model \ Running /\ Start(config.aggregator) /\ Caller.pc = "idle"
      BY <1>3, <2>2 DEF Start, Running, ForeignMoves
    <2> QED BY <2>1, <2>2 DEF ForeignMoves
  <1>11. CASE \E p \in Plans, extracted \in BOOLEAN : PlanEnds(p, extracted)
    <2>1. PICK p \in Plans, extracted \in BOOLEAN : PlanEnds(p, extracted)
      BY <1>11
    <2>2. Caller.pc = "idle"
      BY <1>1, <2>1, PlannerEnds
    <2>3. engine' = engine \/ \E r : Set(r, "off") \/ Set(r, "asleep")
      BY <2>1 DEF PlanEnds, PrefetchWorker, ReleaseGpusFor
    <2> QED BY <1>3, <2>2, <2>3 DEF ForeignMoves
  <1>12. CASE \/ \E x \in Specialist \cup {None} : RouteTask(x)
              \/ \E t \in Thread : SwapBegins(t)
              \/ NextTurn \/ Decide \/ SwapServes \/ Consume \/ Wait \/ Flip \/ Maintain \/ Ask \/ Answer
              \/ StageTransition \/ AggregatorReady \/ TakeBoot \/ BootEnds
    <2>1. engine' = engine
      BY <1>12 DEF RouteTask, SwapBegins, NextTurn, Decide, SwapServes, Consume, Wait, Flip, Maintain, Ask,
         Answer, StageTransition, AggregatorReady, TakeBoot, BootEnds
    <2> QED BY <2>1 DEF ForeignMoves
  <1> QED BY <1>5, <1>6, <1>8, <1>9, <1>10, <1>11, <1>12
          DEF Next, Callback, Executor, Thread, EnginesMove

LEMMA OverlookedGrows ==
  ASSUME Next
  PROVE  overlooked \subseteq overlooked'
  BY DEF Next, Callback, Executor, PlanEnds, RouteTask, NextTurn, Decide, StopOverlapping, StartOnDemand,
     SwapBegins, SwapSleeps, SwapBrings, SwapServes, Consume, Wait, Flip, Maintain, Ask, Answer,
     StageTransition, EnsembleStarts, AggregatorAgent, AggregatorReady, TakeBoot, StartBoot, BootEnds,
     ReapWasted, EvictOne, EngineReady, EngineFails

\* Engines stay started, unless they are evicted.
LEMMA BegunStays ==
  ASSUME Accounted, Next, NEW m \in Own, m \notin overlooked, m \notin evicting, engine[m] \in Begun
  PROVE  engine'[m] \in Begun
  BY OwnMovesIs, NoSecondStart DEF OwnMoves, Begun

-------------------------------------------------------------------------------
(* Each part of the invariant.                                             *)

LEMMA RacedStep ==
  ASSUME Accounted, Next, NEW m \in Model, engine'[m] = "raced"
  PROVE  m \in overlooked'
  <1>1. engine[m] = "raced" => m \in overlooked
    BY DEF Accounted, BootsInv, PendingBootsRespected
  <1>2. CASE m \in Own
    BY <1>1, <1>2, OwnMovesIs, NoSecondStart, OverlookedGrows DEF OwnMoves
  <1>3. CASE m \notin Own
    BY <1>1, <1>3, ForeignMovesIs, OverlookedGrows DEF ForeignMoves
  <1> QED BY <1>2, <1>3

LEMMA AwakeStep ==
  ASSUME Accounted, Next, NEW m \in Own
  PROVE  engine'[m] # "asleep"
  <1>1. engine[m] # "asleep"
    BY DEF Accounted, BootsInv, OwnAwake
  <1> QED BY <1>1, OwnMovesIs DEF OwnMoves, Starts

LEMMA TodoStep ==
  ASSUME Accounted, Next, NEW t \in Thread, thread'[t].pc \in Rooming, NEW n \in thread'[t].todo
  PROVE  Overlap(n, Subject(t)')
  <1>1. Routed /\ Turns(t) /\ Rooming \cap Starting = {}
    BY MachineIs DEF Accounted, Rooming, Starting
  <1>2. thread[t].pc \in Rooming => \A k \in thread[t].todo : Overlap(k, Subject(t))
    BY DEF Accounted, BootsInv, TodoOverlaps
  <1>3. CASE thread'[t] = thread[t] /\ Subject(t)' = Subject(t)
    BY <1>2, <1>3
  <1>4. CASE thread'[t].todo = InTheWay(Subject(t)')
    BY <1>4 DEF InTheWay
  <1>5. CASE /\ thread[t].pc \in Rooming /\ Subject(t)' = Subject(t)
             /\ \E k \in Model : thread'[t].todo = thread[t].todo \ {k}
    BY <1>2, <1>5
  <1> QED BY <1>1, <1>3, <1>4, <1>5 DEF Turns

-------------------------------------------------------------------------------
(* What the steps do to the callback's books.                              *)

Routes == \E x \in Specialist \cup {None} : RouteTask(x)

\* Routing a task takes an engine off the books before it is evicted, and never
\* the one the task is routed to.
LEMMA RoutesIs ==
  ASSUME Routed, SettledPools, NEW x \in Specialist \cup {None}, RouteTask(x)
  PROVE  /\ DOMAIN pending' \subseteq DOMAIN pending /\ worker'.task \in Nat \ {0}
         /\ evicting' \cap DOMAIN pending = {} /\ Chosen' \notin evicting'
         /\ config.arm # "pool" => evicting' = {}
  <1> DEFINE k == worker.task + 1
             p == PlannedAt(k)
             a == IF x # None THEN x ELSE p
             wrong == ModelFor(p)
  <1>1. evicting = {} /\ worker' = [task |-> k, turn |-> 1, marker |-> a, consumed |-> FALSE]
    BY DEF RouteTask, SettledPools
  <1>2. \/ evicting' = evicting
        \/ evicting' = evicting \cup {wrong} /\ wrong # ModelFor(a) /\ wrong \notin DOMAIN pending /\ config.arm = "pool"
    BY DEF RouteTask
  <1>3. pending' = pending \/ pending' = Without(wrong)
    BY DEF RouteTask
  <1>4. Chosen' = ModelFor(a)
    <2>1. config' = config
      BY DEF RouteTask
    <2>2. worker'.marker = a
      BY <1>1
    <2> HIDE DEF a
    <2> QED BY <2>1, <2>2 DEF Chosen, ModelFor, Specialist, Worker
  <1>5. worker.task \in Nat /\ worker'.task = k
    BY <1>1 DEF Routed, WorkerTask
  <1> HIDE DEF p, a, wrong
  <1>6. worker'.task \in Nat \ {0}
    BY <1>5
  <1>7. DOMAIN pending' \subseteq DOMAIN pending
    BY <1>3 DEF Without
  <1> QED BY <1>1, <1>2, <1>4, <1>6, <1>7

LEMMA BookStep ==
  ASSUME Accounted, Next
  PROVE  \/ /\ DOMAIN pending' \subseteq DOMAIN pending /\ evicting' \subseteq evicting
            /\ worker'.task = worker.task /\ Chosen' = Chosen /\ ~Routes /\ ~Maintain
         \/ /\ Routes /\ DOMAIN pending' \subseteq DOMAIN pending /\ worker'.task \in Nat \ {0}
            /\ evicting' \cap DOMAIN pending = {} /\ Chosen' \notin evicting'
            /\ config.arm # "pool" => evicting' = {}
         \/ /\ Maintain /\ DOMAIN pending' = (DOMAIN pending \ Idle) \cup Fresh /\ evicting' = evicting \cup Idle
            /\ overlooked' = overlooked \cup {m \in Fresh : Underway(m) # {} \/ m \in evicting}
            /\ worker' = worker /\ Chosen' = Chosen /\ engine' = engine
  <1>1. Routed /\ SettledPools /\ config' = config
    BY ConfigStays DEF Accounted
  <1>2. CASE Routes
    BY <1>1, <1>2, RoutesIs DEF Routes
  <1>3. worker' = worker => Chosen' = Chosen
    BY <1>1 DEF Chosen, ModelFor, Specialist, Worker
  <1>4. CASE Maintain
    BY <1>1, <1>3, <1>4, MaintainIs DEF Maintain, Fresh
  <1>5. CASE ~Routes /\ ~Maintain
    <2>1. \/ pending' = pending /\ evicting' \subseteq evicting /\ worker' = worker
          \/ NextTurn \/ Consume
      BY <1>5 DEF Next, Callback, Executor, PlanEnds, Routes, Decide, StopOverlapping, StartOnDemand,
         SwapBegins, SwapSleeps, SwapBrings, SwapServes, Wait, Flip, Ask, Answer, StageTransition,
         EnsembleStarts, AggregatorAgent, AggregatorReady, TakeBoot, StartBoot, BootEnds, ReapWasted,
         EvictOne, EngineReady, EngineFails, adapter
    <2>2. worker \in WorkerTask
      BY <1>1 DEF Routed
    <2>3. NextTurn \/ Consume => worker'.task = worker.task /\ worker'.marker = worker.marker
      <3>1. \A i : [worker EXCEPT !.turn = i].task = worker.task /\ [worker EXCEPT !.turn = i].marker = worker.marker
        BY <2>2 DEF WorkerTask
      <3>2. /\ [worker EXCEPT !.consumed = TRUE].task = worker.task
            /\ [worker EXCEPT !.consumed = TRUE].marker = worker.marker
        BY <2>2 DEF WorkerTask
      <3> QED BY <3>1, <3>2 DEF NextTurn, Consume
    <2>4. NextTurn \/ Consume => Chosen' = Chosen
      BY <1>1, <2>3 DEF Chosen, ModelFor, Specialist, Worker
    <2>5. NextTurn \/ Consume => DOMAIN pending' \subseteq DOMAIN pending /\ evicting' = evicting
      BY DEF NextTurn, Consume, Without
    <2> QED BY <1>3, <1>5, <2>1, <2>3, <2>4, <2>5
  <1> QED BY <1>2, <1>4, <1>5

\* The callback thread in any step.
CallerMoves ==
    \/ Caller'.pc = Caller.pc /\ (Caller.pc = "stop" \/ Caller'.alive = Caller.alive) /\ ~Routes
    \/ (Routes \/ NextTurn) /\ Steps("idle", "decide")
    \/ Decide
    \/ Caller.pc = "stop" /\ Caller'.pc = "start" /\ engine' = engine
    \/ StartOnDemand /\ Steps("start", "consume")
    \/ SwapBegins("callback")
    \/ Caller.pc = "sleep" /\ Caller'.pc = "bring" /\ Caller'.alive = Caller.alive
    \/ SwapBrings("callback") /\ Steps("bring", "load")
    \/ SwapServes /\ (Steps("load", "consume") \/ Steps("load", "lost"))
    \/ Consume /\ Steps("consume", "wait")
    \/ Wait /\ (Steps("wait", "flip") \/ Steps("wait", "lost"))
    \/ Flip /\ Steps("flip", IF config.arm = "pool" THEN "maintain" ELSE "serving")
    \/ Maintain /\ Steps("maintain", "serving")
    \/ Steps("serving", "asked") \/ Steps("asked", "idle")
    \/ AggregatorAgent /\ Steps("idle", "aggregate")
    \/ AggregatorReady /\ (Steps("aggregate", "done") \/ Steps("aggregate", "unserved"))

LEMMA CallerMovesIs ==
  ASSUME Routed, Next
  PROVE  CallerMoves
  <1>1. CASE Executor \/ EnginesMove
    <2>1. Caller' = Caller
      BY <1>1, LoaderAlone
    <2>2. ~Routes \/ Steps("idle", "decide")
      BY CallerTurns DEF Routes
    <2> QED BY <2>1, <2>2 DEF CallerMoves
  <1>2. CASE Routes \/ NextTurn
    BY <1>2, CallerTurns DEF Routes, CallerMoves
  <1>3. CASE ~Routes /\ ((\E p \in Plans, extracted \in BOOLEAN : PlanEnds(p, extracted)) \/ StageTransition \/ EnsembleStarts)
    <2>1. thread' = thread
      BY <1>3 DEF PlanEnds, StageTransition, EnsembleStarts
    <2> QED BY <1>3, <2>1 DEF CallerMoves, Caller
  <1>4. CASE ~Routes /\ StopOverlapping("callback")
    <2>1. \/ engine' = engine /\ Goto("callback", "start")
          \/ \E S : thread' = [thread EXCEPT !["callback"] = [thread["callback"] EXCEPT !.todo = S]]
      BY <1>4 DEF StopOverlapping
    <2>2. thread["callback"].pc = "stop" /\ thread["callback"] \in Machine /\ "callback" \in Thread
      BY <1>4 DEF StopOverlapping, At, Routed, Thread
    <2>3. \A S : [thread["callback"] EXCEPT !.todo = S].pc = "stop"
      BY <2>2 DEF Machine
    <2>4. (\E S : thread' = [thread EXCEPT !["callback"] = [thread["callback"] EXCEPT !.todo = S]]) =>
              Caller'.pc = "stop"
      BY <2>2, <2>3, MachineSet DEF Caller
    <2>5. engine' = engine /\ Goto("callback", "start") => Caller'.pc = "start"
      BY <2>2, CallerGoes DEF Steps, At
    <2> QED BY <1>4, <2>1, <2>2, <2>4, <2>5 DEF CallerMoves, Caller
  <1>5. CASE ~Routes /\ SwapSleeps("callback")
    BY <1>5, RoomTurns DEF CallerMoves, Caller, Thread
  <1>6. CASE Decide \/ SwapBegins("callback")
    BY <1>6 DEF CallerMoves
  <1>7. CASE StartOnDemand \/ SwapBrings("callback") \/ SwapServes \/ Consume \/ Wait \/ Flip \/ Maintain
    BY <1>7, CallerTurns DEF CallerMoves
  <1>8. CASE Ask \/ Answer \/ AggregatorAgent \/ AggregatorReady
    BY <1>8, CallerTurns DEF CallerMoves
  <1>9. CASE Callback
    BY <1>2, <1>3, <1>4, <1>5, <1>6, <1>7, <1>8, <1>9 DEF Callback, Routes
  <1> QED BY <1>1, <1>9, StepsAre

-------------------------------------------------------------------------------
(* The other parts of the invariant.                                       *)

LEMMA PoolsStep ==
  ASSUME Accounted, Next
  PROVE  PoolsOnly'
  <1>1. Routed /\ PoolsOnly /\ config' = config /\ Own' = Own /\ NTasks # 0
    BY ConfigStays, RoutingConstants DEF Accounted, BootsInv
  <1>2. Fresh \subseteq Own
    BY PrebootType DEF Fresh
  <1>3. Maintain => Caller.pc = "maintain"
    BY DEF Maintain, At, Caller
  <1>4. config.arm # "pool" => DOMAIN pending' = {} /\ evicting' = {}
    BY <1>1, <1>3, BookStep DEF PoolsOnly
  <1>5. DOMAIN pending' \subseteq Own
    BY <1>1, <1>2, BookStep DEF PoolsOnly
  <1>6. config.arm # "pool" => Caller'.pc # "maintain"
    BY <1>1, CallerMovesIs, DecideTurns, RoomTurns DEF PoolsOnly, CallerMoves, Steps, Caller, Thread
  <1>7. ASSUME worker'.task = 0
        PROVE  Caller'.pc = "idle"
    <2>1. worker.task = 0 /\ Caller.pc = "idle" /\ ~Routes
      <3>1. Routes => Caller.pc = "idle"
        BY DEF Routes, RouteTask, At, Caller
      <3> QED BY <1>1, <1>3, <1>7, <3>1, BookStep DEF PoolsOnly
    <2>2. ~NextTurn /\ ~AggregatorAgent
      BY <1>1, <2>1 DEF NextTurn, AggregatorAgent
    <2>3. ~Decide /\ ~SwapBegins("callback")
      BY <2>1 DEF Decide, SwapBegins, At, Caller
    <2> QED BY <1>1, <2>1, <2>2, <2>3, CallerMovesIs DEF CallerMoves, Steps
  <1> QED BY <1>1, <1>4, <1>5, <1>6, <1>7 DEF PoolsOnly

LEMMA OneComingStep ==
  ASSUME Accounted, Next, NEW m \in Own, m \notin overlooked'
  PROVE  /\ \A b, c \in Coming(m)' : b = c
         /\ Coming(m)' # {} => engine'[m] \in Down
         /\ Loader'.pc \in {"sleep", "bring"} /\ m = Subject("executor")' => ~Loader'.alive
  <1>1. /\ Routed /\ m \notin overlooked /\ "loading" \notin Down
        /\ {"evicted", "wasted"} \subseteq Down
    BY OverlookedGrows DEF Accounted, Down
  <1> DEFINE OneNext == (\A b, c \in Coming(m)' : b = c) /\ (Coming(m)' # {} => engine'[m] \in Down)
  <1>2. /\ \A b, c \in Coming(m) : b = c
        /\ Coming(m) # {} => engine[m] \in Down
        /\ Loader.pc \in {"sleep", "bring"} /\ m = Subject("executor") => ~Loader.alive
    BY <1>1 DEF Accounted, BootsInv, OneComing
  <1>3. LoaderStarts => Coming(m)' = Coming(m) \ {current}
    BY <1>1, ComingIs
  \* An engine with a boot to come stays down.
  <1>4. ASSUME Coming(m)' # {}, Coming(m)' \subseteq Coming(m)
        PROVE  engine'[m] \in Down
    <2>1. Coming(m) # {} /\ engine[m] \in Down
      BY <1>2, <1>4
    <2>2. ~(m = Chosen /\ Starts(m, Caller))
      BY <1>1, <2>1, NoSecondStart
    <2>3. ~(m = Subject("executor") /\ LoaderStarts)
      BY <1>1, <1>2, <1>3, <1>4, ComingIs
    <2> QED BY <1>1, <2>1, <2>2, <2>3, OwnMovesIs DEF OwnMoves
  <1>5. Coming(m)' \subseteq Coming(m) => OneNext
    BY <1>2, <1>4
  <1>6. ASSUME Maintain
        PROVE  OneNext
    <2>1. CASE m \in Fresh
      <3>1. Underway(m) = {} /\ engine' = engine
        BY <1>1, <1>6, <2>1, BookStep DEF Maintain, Fresh
      <3>2. Coming(m) = {}
        BY <3>1, ComingUnderway
      <3>3. engine[m] \in Down
        BY <1>1, <2>1, ConfigType, PrebootType DEF Fresh, Running, Routed
      <3> QED BY <1>1, <1>6, <2>1, <3>1, <3>2, <3>3, PrebootComing
    <2>2. CASE m \notin Fresh
      BY <1>1, <1>5, <1>6, <2>2, PrebootComing
    <2> QED BY <2>1, <2>2
  <1>7. (\E p \in Plans, extracted \in BOOLEAN : PlanEnds(p, extracted)) => OneNext
    BY PlannerEnds DEF Accounted
  <1>8. OneNext
    BY <1>1, <1>5, <1>6, <1>7, ToldStays, ComingIs
  <1>9. ASSUME Loader'.pc \in {"sleep", "bring"}, m = Subject("executor")'
        PROVE  ~Loader'.alive
    <2>1. CASE Loader' = Loader
      <3>1. ~At("executor", "idle")
        BY <1>9, <2>1 DEF At, Loader
      <3> QED BY <1>1, <1>2, <1>9, <2>1, <3>1, SubjectStays
    <2>2. CASE SwapBegins("executor")
      <3>1. Loader.pc = "swap" /\ Loader'.alive = (engine[Subject("executor")] \notin Down)
        BY <1>1, <2>2, RoomTurns DEF Thread, Loader
      <3>2. Subject("executor") = m
        BY <1>1, <1>9, <3>1, SubjectStays DEF At, Loader
      <3>3. current \in Coming(m)
        <4>1. current \in DOMAIN boots
          <5>1. current \in 1..Len(boots) /\ boots \in Seq(Boot)
            BY <1>1, <3>1 DEF Routed, At, Loader
          <5> QED BY <5>1
        <4> QED BY <3>1, <3>2, <4>1 DEF Coming, BeforeStart, Subject
      <3> QED BY <1>2, <3>1, <3>2, <3>3
    <2>3. CASE SwapSleeps("executor")
      <3>1. Loader.pc = "sleep" /\ Loader'.alive = Loader.alive
        BY <1>1, <2>3, RoomTurns DEF Thread, Loader
      <3>2. Subject("executor") = m
        BY <1>1, <1>9, <3>1, SubjectStays DEF At, Loader
      <3> QED BY <1>2, <3>1, <3>2
    <2>4. CASE TakeBoot \/ StartBoot \/ SwapBrings("executor") \/ BootEnds \/ ReapWasted \/ StopOverlapping("executor")
      <3>1. StopOverlapping("executor") => Loader'.pc \in {"stop", "start"}
        BY <1>1, RoomTurns DEF Thread, Loader
      <3> QED BY <1>1, <1>9, <2>4, <3>1, LoaderTurns
    <2> QED BY <1>1, <2>1, <2>2, <2>3, <2>4, StepsAre, CallerAlone, EnginesAlone DEF Executor, Loader
  <1> QED BY <1>8, <1>9

\* While the callback thread has a task, the engine of the task is not evicted.
LEMMA TaskSpared ==
  ASSUME Accounted, Caller.pc # "idle"
  PROVE  Chosen \notin evicting /\ worker.task > 0
  <1>1. worker.task \in Nat
    BY DEF Accounted, Routed, WorkerTask
  <1>2. worker.task # 0
    BY DEF Accounted, BootsInv, PoolsOnly
  <1>3. worker.task > 0
    BY <1>1, <1>2
  <1> QED BY <1>3 DEF Accounted, BootsInv, Spared

\* In the middle of a task nothing is scheduled but by pre-booting.
LEMMA NothingComes ==
  ASSUME Accounted, Next, Caller.pc \notin {"idle", "maintain"}, NEW m
  PROVE  Chosen' = Chosen /\ Coming(m)' \subseteq Coming(m) /\ ~Routes
  <1>1. Routed /\ PlannerFirst /\ SettledPools /\ config \in Configs
    BY DEF Accounted, Routed
  <1>2. ~Maintain
    BY DEF Maintain, At, Caller
  <1>3. ~\E p \in Plans, extracted \in BOOLEAN : PlanEnds(p, extracted)
    BY <1>1, PlannerEnds
  <1>4. ~At("callback", "idle") /\ ~Routes
    BY DEF At, Caller, Routes, RouteTask
  <1>5. Chosen' = Chosen
    BY <1>1, <1>4, SubjectStays DEF Subject
  <1> QED BY <1>1, <1>2, <1>3, <1>4, <1>5, ToldStays, ComingIs

LEMMA OnDemandStep ==
  ASSUME Accounted, Next, NEW m \in Own, m = Chosen', m \notin overlooked', Caller'.pc \in BeforeStart \cup {"load"}
  PROVE  /\ Coming(m)' = {}
         /\ \/ Caller'.pc \in {"stop", "start"}
            \/ Caller'.pc \in {"sleep", "bring"} /\ ~Caller'.alive
            => engine'[m] \in Down
         /\ Caller'.pc \in {"sleep", "bring"} /\ Caller'.alive => engine'[m] \in Begun
  <1>1. /\ Routed /\ m \notin overlooked /\ {"evicted", "wasted"} \subseteq Down /\ "loading" \notin Down
        /\ engine[m] \in Standing /\ engine[m] # "asleep"
    <2>1. m \in Model /\ engine \in [Model -> Standing]
      BY ConfigType DEF Accounted, Routed
    <2> QED BY <2>1, OverlookedGrows DEF Accounted, Down, BootsInv, OwnAwake
  <1>2. CallerMoves
    BY <1>1, CallerMovesIs
  \* Only a decision leads to these states, and only from there on.
  <1>3. \/ Decide
        \/ Caller.pc \in BeforeStart \cup {"load"}
    BY <1>2 DEF CallerMoves, Steps, BeforeStart, Caller, SwapBegins, At
  <1>4. Caller.pc \notin {"idle", "maintain"}
    BY <1>1, <1>3, DecideTurns DEF BeforeStart
  <1>5. m = Chosen /\ Coming(m)' \subseteq Coming(m) /\ m \notin evicting
    BY <1>4, NothingComes, TaskSpared
  <1>6. CASE Decide
    <2>1. /\ Caller'.pc = IF config.arm = "sleep_wake" THEN "swap" ELSE IF MustStart THEN "stop" ELSE "consume"
          /\ overlooked' = IF MustStart /\ Underway(Chosen) # {} /\ Chosen \notin DOMAIN pending
                           THEN overlooked \cup {Chosen} ELSE overlooked
      BY <1>1, <1>6, DecideTurns
    <2>2. engine' = engine
      BY <1>6 DEF Decide
    <2>3. Caller'.pc = "stop" => engine[m] \in Down
      BY <1>5, <2>1 DEF MustStart, MustBoot
    <2>4. MustStart => Chosen \notin DOMAIN pending
      BY DEF MustStart, MustBoot, Accounted, BootsInv, PoolsOnly
    <2>5. Coming(m) = {}
      <3>1. CASE MustStart
        <4>1. Underway(m) = {}
          BY <1>5, <2>1, <2>4, <3>1
        <4> QED BY <4>1, ComingUnderway
      <3>2. CASE ~MustStart
        <4>1. engine[m] \notin Down
          BY <1>5, <2>1, <3>2 DEF BeforeStart, MustStart
        <4> QED BY <1>1, <4>1 DEF Accounted, BootsInv, OneComing
      <3> QED BY <3>1, <3>2
    <2> QED BY <1>5, <2>1, <2>2, <2>3, <2>5
  <1>7. CASE Caller.pc \in BeforeStart \cup {"load"}
    <2>1. /\ Coming(m) = {}
          /\ \/ Caller.pc \in {"stop", "start"}
             \/ Caller.pc \in {"sleep", "bring"} /\ ~Caller.alive
             => engine[m] \in Down
          /\ Caller.pc \in {"sleep", "bring"} /\ Caller.alive => engine[m] \in Begun
      BY <1>1, <1>5, <1>7 DEF Accounted, BootsInv, OnDemand
    <2>2. Coming(m)' = {}
      BY <1>5, <2>1
    <2>3. engine[m] \in Begun => engine'[m] \in Begun
      BY <1>1, <1>5, BegunStays
    <2>4. engine[m] \in Down /\ ~CallerStarts => engine'[m] \in Down
      <3>1. ~(m = Subject("executor") /\ LoaderStarts)
        BY <1>1, <2>1, ComingIs
      <3> QED BY <1>1, <3>1, OwnMovesIs DEF OwnMoves
    <2>5. CallerStarts => Caller'.pc \in {"consume", "load"}
      BY <1>1, CallerTurns DEF CallerStarts, Steps
    <2>6. SwapBegins("callback") => /\ Caller'.pc = "sleep" /\ Caller'.alive = (engine[m] \notin Down)
                                    /\ engine' = engine
      <3>1. Subject("callback") = m
        BY <1>5 DEF Subject
      <3>2. SwapBegins("callback") => engine' = engine
        BY DEF SwapBegins
      <3> QED BY <1>1, <3>1, <3>2, RoomTurns DEF Thread, Caller
    <2>7. engine[m] \notin Down => engine[m] \in Begun
      BY <1>1 DEF Standing, Vram, Begun
    <2>8. ~Decide
      BY <1>1, <1>7, DecideTurns DEF BeforeStart
    <2>9. CASE SwapBegins("callback")
      BY <2>2, <2>6, <2>7, <2>9
    <2>10. CASE ~SwapBegins("callback")
      <3>1. \/ Caller'.pc = Caller.pc /\ (Caller.pc = "stop" \/ Caller'.alive = Caller.alive)
            \/ Caller.pc = "stop" /\ Caller'.pc = "start"
            \/ Caller.pc = "sleep" /\ Caller'.pc = "bring" /\ Caller'.alive = Caller.alive
            \/ Caller'.pc = "load"
        BY <1>2, <1>7, <2>8, <2>10 DEF CallerMoves, Steps, BeforeStart
      <3> QED BY <2>1, <2>2, <2>3, <2>4, <2>5, <3>1
    <2> QED BY <2>9, <2>10
  <1> QED BY <1>3, <1>6, <1>7

LEMMA SparedStep ==
  ASSUME Accounted, Next
  PROVE  /\ worker'.task > 0 => Chosen' \notin evicting'
         /\ \A m \in DOMAIN pending' : m \notin evicting' \/ m \in overlooked'
  <1>1. Spared /\ Routed /\ PoolsOnly
    BY DEF Accounted, BootsInv
  <1>2. CASE Maintain
    <2>1. /\ DOMAIN pending' = (DOMAIN pending \ Idle) \cup Fresh /\ evicting' = evicting \cup Idle
          /\ overlooked' = overlooked \cup {m \in Fresh : Underway(m) # {} \/ m \in evicting}
          /\ worker' = worker /\ Chosen' = Chosen
      <3>1. ~Routes
        BY <1>2 DEF Maintain, Routes, RouteTask, At
      <3> QED BY <1>2, <3>1, BookStep
    <2>2. Chosen \notin Idle /\ Fresh \cap Idle = {}
      BY PrebootType DEF Idle, Fresh
    <2>3. worker.task > 0 => Chosen \notin evicting
      BY <1>1 DEF Spared
    <2> QED BY <1>1, <2>1, <2>2, <2>3 DEF Spared
  <1>3. CASE ~Maintain
    <2>1. CASE Routes
      BY <1>3, <2>1, BookStep
    <2>2. CASE ~Routes
      BY <1>1, <1>3, <2>2, BookStep, OverlookedGrows DEF Spared
    <2> QED BY <2>1, <2>2
  <1> QED BY <1>2, <1>3

\* A thread that starts its engine moves it.
LEMMA StartMoves ==
  ASSUME Routed, NEW m \in Own,
         \/ m = Chosen /\ (StartOnDemand \/ (SwapBrings("callback") /\ ~Caller.alive))
         \/ m = Subject("executor") /\ (StartBoot \/ (SwapBrings("executor") /\ ~Loader.alive))
  PROVE  engine'[m] \in {"loading", "raced"}
  <1>1. Start(m)
    BY DEF StartOnDemand, StartBoot, SwapBrings, Subject, Caller, Loader
  <1>2. m \in Model /\ engine \in [Model -> Standing]
    BY ConfigType DEF Routed
  <1> QED BY <1>1, <1>2 DEF Start, Set

\* An engine that came up or has a boot to come keeps it so.
LEMMA ComeUpStays ==
  ASSUME Accounted, Next, NEW m \in Own, m \notin overlooked, m \notin evicting,
         engine[m] \in Begun \/ Coming(m) # {}
  PROVE  engine'[m] \in Begun \/ Coming(m)' # {}
  <1>1. Routed
    BY DEF Accounted
  <1>2. CASE engine[m] \in Begun
    BY <1>2, BegunStays
  <1>3. CASE Coming(m) # {} /\ ~(LoaderStarts /\ m = Subject("executor"))
    BY <1>1, <1>3, ComingIs
  <1>4. CASE LoaderStarts /\ m = Subject("executor")
    <2>1. SwapBrings("executor") => ~Loader.alive
      <3>1. SwapBrings("executor") => Loader.pc = "bring"
        BY DEF SwapBrings, At, Loader
      <3> QED BY <1>4, <3>1 DEF Accounted, BootsInv, OneComing
    <2> QED BY <1>1, <1>4, <2>1, StartMoves DEF LoaderStarts, Begun
  <1> QED BY <1>2, <1>3, <1>4

LEMMA CountedStep ==
  ASSUME Accounted, Next, NEW m \in Own, m \notin overlooked',
         \/ m \in DOMAIN pending'
         \/ m = Chosen' /\ worker'.task > 0 /\ Caller'.pc \notin BeforeStart \cup {"decide"}
  PROVE  engine'[m] \in Begun \/ Coming(m)' # {}
  <1>1. Routed /\ m \notin overlooked /\ PoolsOnly /\ Spared /\ OnDemand /\ CountedComeUp /\ CallerMoves
    BY OverlookedGrows, CallerMovesIs DEF Accounted, BootsInv
  <1>2. m \in DOMAIN pending => m \notin evicting /\ (engine[m] \in Begun \/ Coming(m) # {})
    BY <1>1 DEF Spared, CountedComeUp, Counted
  <1>3. CASE m \in DOMAIN pending'
    <2>1. CASE m \in DOMAIN pending
      BY <1>1, <1>2, <2>1, ComeUpStays
    <2>2. CASE m \notin DOMAIN pending
      BY <1>1, <1>3, <2>2, BookStep, PrebootComing
    <2> QED BY <2>1, <2>2
  <1>4. CASE m = Chosen' /\ worker'.task > 0 /\ Caller'.pc \notin BeforeStart \cup {"decide"}
    <2>1. ~Steps("idle", "decide") /\ ~Routes
      BY <1>1, <1>4, CallerTurns DEF Steps, Routes
    <2>2. m = Chosen /\ worker.task > 0
      <3>1. Maintain => worker' = worker /\ Chosen' = Chosen
        BY <2>1, BookStep
      <3> QED BY <1>4, <2>1, <3>1, BookStep
    <2>3. m \notin evicting
      BY <1>1, <2>2 DEF Spared
    <2>4. CASE Caller.pc \notin BeforeStart \cup {"decide"}
      BY <1>1, <2>2, <2>3, <2>4, ComeUpStays DEF CountedComeUp, Counted
    <2>5. CASE Decide
      <3>1. config.arm # "sleep_wake" /\ ~MustStart
        BY <1>1, <1>4, <2>5, DecideTurns DEF BeforeStart
      <3>2. engine[m] \notin Down \/ m \in DOMAIN pending
        BY <2>2, <3>1 DEF MustStart, MustBoot
      <3>3. engine[m] \notin Down => engine[m] \in Begun
        <4>1. engine[m] \in Standing /\ engine[m] # "asleep"
          BY <1>1, ConfigType DEF Routed, Accounted, BootsInv, OwnAwake
        <4> QED BY <4>1 DEF Standing, Vram, Begun
      <3> QED BY <1>1, <1>2, <2>3, <3>2, <3>3, ComeUpStays
    <2>6. CASE StartOnDemand
      BY <1>1, <2>2, <2>6, StartMoves DEF Begun
    <2>7. CASE SwapBrings("callback")
      <3>1. CASE ~Caller.alive
        BY <1>1, <2>2, <2>7, <3>1, StartMoves DEF Begun
      <3>2. CASE Caller.alive
        <4>1. Caller.pc = "bring"
          BY <2>7 DEF SwapBrings, At, Caller
        <4>2. engine[m] \in Begun
          BY <1>1, <2>2, <3>2, <4>1 DEF OnDemand, BeforeStart
        <4> QED BY <1>1, <2>3, <4>2, ComeUpStays
      <3> QED BY <3>1, <3>2
    <2>8. CASE SwapBegins("callback")
      BY <1>1, <1>4, <2>8, RoomTurns DEF Thread, Caller, BeforeStart
    <2> QED BY <1>1, <1>4, <2>1, <2>4, <2>5, <2>6, <2>7, <2>8 DEF CallerMoves, Steps, BeforeStart
  <1> QED BY <1>3, <1>4

LEMMA TargetStep ==
  ASSUME Accounted, Next
  PROVE  TargetServes'
  <1>1. Routed /\ TargetServes /\ CallerMoves /\ config \in Configs /\ Own \subseteq Model /\ Chosen \in Own
    BY CallerMovesIs, ConfigType DEF Accounted, BootsInv, Routed
  <1>2. \A m : Told(m) => Told(m)'
    <2>1. \A b \in DOMAIN boots : boots'[b].model = boots[b].model
      <3>1. boots \in Seq(Boot) /\ DOMAIN boots = 1..Len(boots)
        BY <1>1 DEF Routed
      <3> QED BY <1>1, <3>1, BootsStep
    <2> QED BY <1>1, <2>1, ToldStays DEF Told
  <1>3. Loader'.pc = "reap" => boots'[current'].told
    <2>1. CASE Loader' = Loader /\ current' = current
      <3>1. Loader.pc = "reap" => current \in DOMAIN boots /\ boots[current].told
        <4>1. Loader.pc = "reap" => current \in 1..Len(boots) /\ boots \in Seq(Boot)
          BY <1>1 DEF Routed, At, Loader
        <4> QED BY <1>1, <4>1 DEF TargetServes
      <3> QED BY <1>1, <2>1, <3>1, ToldStays
    <2>2. CASE BootEnds
      <3>1. current \in DOMAIN boots
        <4>1. current \in 1..Len(boots) /\ boots \in Seq(Boot)
          BY <1>1, <2>2 DEF Routed, BootEnds, At
        <4> QED BY <4>1
      <3>2. current' = current
        BY <2>2 DEF BootEnds
      <3> QED BY <1>1, <2>2, <3>1, <3>2, ToldStays, LoaderTurns
    <2>3. CASE TakeBoot \/ StartBoot \/ SwapBrings("executor") \/ ReapWasted
      <3>1. TakeBoot => Loader'.pc \in {"stop", "swap", "start"}
        BY <1>1, LoaderTurns
      <3> QED BY <1>1, <2>3, <3>1, LoaderTurns
    <2>4. CASE \E t \in {"executor"} : StopOverlapping(t) \/ SwapBegins(t) \/ SwapSleeps(t)
      BY <1>1, <2>4, RoomTurns DEF Thread, Loader
    <2> QED BY <1>1, <2>1, <2>2, <2>3, <2>4, StepsAre, CallerAlone, EnginesAlone DEF Executor, Loader
  \* The engine that serves goes on serving.
  <1>4. ASSUME NEW m, m = Chosen, Serves(m), Caller.pc # "idle"
        PROVE  Serves(m)'
    <2>1. m \in Own /\ m \notin evicting /\ m \in Model
      BY <1>1, <1>4, TaskSpared
    <2>2. engine[m] = "ready" => engine'[m] = "ready" \/ engine'[m] \in {"raced", "wasted"}
      BY <2>1, OwnMovesIs DEF OwnMoves, Starts, Down
    <2>3. engine'[m] = "raced" => m \in overlooked'
      BY <2>1, RacedStep
    <2>4. engine[m] = "ready" /\ engine'[m] = "wasted" => Told(m)
      <3>1. engine[m] = "ready" /\ engine'[m] = "wasted" => Loader.pc = "reap" /\ m = Subject("executor")
        BY <2>1, OwnMovesIs DEF OwnMoves, Starts, Down
      <3>2. Loader.pc = "reap" => current \in DOMAIN boots
        <4>1. Loader.pc = "reap" => current \in 1..Len(boots) /\ boots \in Seq(Boot)
          BY <1>1 DEF Routed, At, Loader
        <4> QED BY <4>1
      <3> QED BY <1>1, <3>1, <3>2 DEF TargetServes, Told, Subject
    <2> QED BY <1>2, <1>4, <2>2, <2>3, <2>4, OverlookedGrows DEF Serves
  <1>5. Caller.pc # "idle" => Chosen' = Chosen
    BY <1>1, SubjectStays DEF At, Caller, Subject
  <1>6. \A m : m = Chosen' => (Serves(Chosen)' <=> Serves(m)')
    BY DEF Serves, Told
  <1>8. Caller'.pc \in {"flip", "maintain", "serving", "asked"} =>
            \/ Caller.pc \in {"flip", "maintain", "serving", "asked"}
            \/ Wait /\ Steps("wait", "flip")
    BY <1>1, DecideTurns, RoomTurns DEF CallerMoves, Steps, Thread, Caller
  <1>9. Wait /\ Steps("wait", "flip") => engine[Chosen] = "ready"
    <2>1. Goto("callback", "lost") => Steps("wait", "lost") \/ ~At("callback", "wait")
      BY <1>1, CallerGoes
    <2> QED BY <2>1 DEF Wait, Steps
  <1>10. Caller'.pc \in {"flip", "maintain", "serving", "asked"} => Serves(Chosen)'
    <2> SUFFICES ASSUME Caller'.pc \in {"flip", "maintain", "serving", "asked"}, NEW m, m = Chosen
                 PROVE  Serves(Chosen)'
      OBVIOUS
    <2>1. Caller.pc # "idle"
      BY <1>8 DEF Steps
    <2>2. Serves(m)
      BY <1>1, <1>8, <1>9 DEF TargetServes, Serves
    <2>3. Serves(m)'
      BY <1>4, <2>1, <2>2
    <2>4. m = Chosen'
      BY <1>5, <2>1
    <2> QED BY <1>6, <2>3, <2>4
  <1>11. Caller'.pc \in {"maintain", "serving", "asked"} => target' = Chosen'
    <2> SUFFICES ASSUME Caller'.pc \in {"maintain", "serving", "asked"}
                 PROVE  target' = Chosen'
      OBVIOUS
    <2>1. Caller.pc # "idle"
      BY <1>8 DEF Steps
    <2>2. CASE Flip
      BY <1>5, <2>1, <2>2 DEF Flip
    <2>3. CASE ~Flip
      <3>1. target' = target
        BY <2>3 DEF Next, Callback, Executor, PlanEnds, RouteTask, NextTurn, Decide, StopOverlapping,
           StartOnDemand, SwapBegins, SwapSleeps, SwapBrings, SwapServes, Consume, Wait, Maintain, Ask, Answer,
           StageTransition, EnsembleStarts, AggregatorAgent, AggregatorReady, TakeBoot, StartBoot, BootEnds,
           ReapWasted, EvictOne, EngineReady, EngineFails
      <3>2. Caller.pc \in {"maintain", "serving", "asked"}
        BY <1>1, <2>3, DecideTurns, RoomTurns DEF CallerMoves, Steps, Thread, Caller
      <3> QED BY <1>1, <1>5, <3>1, <3>2 DEF TargetServes
    <2> QED BY <2>2, <2>3
  <1> QED BY <1>3, <1>10, <1>11 DEF TargetServes

LEMMA LostStep ==
  ASSUME Accounted, Next
  PROVE  /\ \A m \in Own : Caller'.pc = "lost" /\ m = Chosen' /\ m \notin overlooked' =>
                engine'[m] \in Gone /\ Coming(m)' = {}
         /\ Caller'.pc \in {"aggregate", "unserved"} =>
                config.aggregator \in Model /\ engine'[config.aggregator] \notin {"off", "evicted"}
         /\ Caller'.pc = "unserved" => engine'[config.aggregator] \in Gone
  <1>1. /\ Routed /\ LostKept /\ OnDemand /\ CountedComeUp /\ CallerMoves /\ SettledPools /\ config \in Configs
        /\ None \notin Model /\ Gone = Down \cap Begun /\ "load" \notin {"decide"}
    BY CallerMovesIs, ConfigType DEF Accounted, BootsInv, Routed, Gone, Down, Begun
  <1>2. ASSUME NEW m \in Own, Caller'.pc = "lost", m = Chosen', m \notin overlooked'
        PROVE  engine'[m] \in Gone /\ Coming(m)' = {}
    <2>1. \/ Caller.pc = "lost"
          \/ Wait /\ Steps("wait", "lost")
          \/ SwapServes /\ Steps("load", "lost")
      BY <1>1, <1>2, DecideTurns, RoomTurns DEF CallerMoves, Steps, Thread, Caller
    <2>2. /\ Caller.pc \notin {"idle", "maintain"} /\ m \notin overlooked
          /\ m = Chosen /\ Coming(m)' \subseteq Coming(m)
      BY <1>2, <2>1, NothingComes, OverlookedGrows DEF Steps
    <2>3. CASE Caller.pc = "lost"
      <3>1. engine[m] \in Gone /\ Coming(m) = {}
        BY <1>1, <2>2, <2>3 DEF LostKept
      <3>2. ~(m = Subject("executor") /\ LoaderStarts)
        BY <1>1, <3>1, ComingIs
      <3>3. engine'[m] = engine[m]
        BY <2>3, <3>1, <3>2, OwnMovesIs DEF OwnMoves, Starts, Gone, Down
      <3> QED BY <2>2, <3>1, <3>3
    <2>4. ASSUME Caller.pc \in {"wait", "load"}, engine[m] \in Down, Coming(m) = {}, engine' = engine
          PROVE  engine'[m] \in Gone /\ Coming(m)' = {}
      <3>1. Counted(m)
        BY <2>2, <2>4, TaskSpared DEF Counted, BeforeStart
      <3>2. engine[m] \in Begun
        <4>1. Caller.pc = "wait" \/ Caller.pc = "load"
          BY <2>4
        <4> QED BY <1>1, <2>2, <2>4, <3>1 DEF CountedComeUp
      <3> QED BY <1>1, <2>2, <2>4, <3>2
    <2>5. CASE Wait /\ Steps("wait", "lost")
      <3>1. Goto("callback", "flip") => Steps("wait", "flip") \/ ~At("callback", "wait")
        BY <1>1, CallerGoes
      <3>2. engine[m] \in Down /\ Underway(m) = {} /\ engine' = engine
        BY <2>2, <2>5, <3>1 DEF Wait, Steps, Abandoned
      <3> QED BY <2>4, <2>5, <3>2, ComingUnderway DEF Steps
    <2>6. CASE SwapServes /\ Steps("load", "lost")
      <3>1. Goto("callback", "consume") => Steps("load", "consume") \/ ~At("callback", "load")
        BY <1>1, CallerGoes
      <3>2. engine[m] \in Down /\ engine' = engine
        BY <2>2, <2>6, <3>1 DEF SwapServes, Steps
      <3>3. Coming(m) = {}
        BY <1>1, <2>2, <2>6 DEF OnDemand, Steps
      <3> QED BY <2>4, <2>6, <3>2, <3>3 DEF Steps
    <2> QED BY <2>1, <2>3, <2>5, <2>6
  <1>3. ASSUME Caller'.pc \in {"aggregate", "unserved"}
        PROVE  /\ config.aggregator \in Model /\ engine'[config.aggregator] \notin {"off", "evicted"}
               /\ Caller'.pc = "unserved" => engine'[config.aggregator] \in Gone
    <2> DEFINE m == config.aggregator
    <2>1. \/ Caller.pc = Caller'.pc
          \/ AggregatorAgent /\ Steps("idle", "aggregate")
          \/ AggregatorReady /\ Steps("aggregate", "unserved")
      BY <1>1, <1>3, DecideTurns, RoomTurns DEF CallerMoves, Steps, Thread, Caller
    <2>2. CASE Caller.pc = Caller'.pc
      <3>1. m \in Model /\ engine[m] \notin {"off", "evicted"} /\ (Caller.pc = "unserved" => engine[m] \in Gone)
        BY <1>1, <1>3, <2>2 DEF LostKept
      <3>2. m \in Model \ Own
        BY <1>1, <3>1, SettledIs
      <3>3. ForeignMoves(m)
        BY <3>2, ForeignMovesIs
      <3>4. Caller.pc # "idle"
        BY <1>3, <2>2
      <3> QED BY <2>2, <3>1, <3>3, <3>4 DEF ForeignMoves, Gone
    <2>3. CASE AggregatorAgent /\ Steps("idle", "aggregate")
      <3>1. m \in Model
        BY <1>1, <2>3, SettledIs DEF AggregatorAgent
      <3>2. engine \in [Model -> Standing] /\ {"off", "evicted"} \subseteq Down
        BY <1>1 DEF Routed, Down
      <3>3. m \in Running => engine'[m] \notin {"off", "evicted"}
        BY <2>3, <3>2 DEF AggregatorAgent, Running
      <3>4. m \notin Running => engine'[m] \notin {"off", "evicted"}
        BY <2>3, <3>1, <3>2 DEF AggregatorAgent, Start, Set
      <3> QED BY <2>3, <3>1, <3>3, <3>4 DEF Steps
    <2>4. CASE AggregatorReady /\ Steps("aggregate", "unserved")
      <3>1. m \in Model /\ engine[m] \notin {"off", "evicted"} /\ engine' = engine
        BY <1>1, <2>4 DEF LostKept, AggregatorReady, Steps
      <3>2. Goto("callback", "done") => Steps("aggregate", "done") \/ ~At("callback", "aggregate")
        BY <1>1, CallerGoes
      <3>3. engine[m] \in Down
        BY <2>4, <3>2 DEF AggregatorReady, Steps
      <3> QED BY <3>1, <3>3 DEF Gone, Down
    <2> QED BY <2>1, <2>2, <2>3, <2>4
  <1> QED BY <1>2, <1>3

LEMMA BooksStep ==
  ASSUME Accounted, Next
  PROVE  BootsInv'
  <1>1. config' = config /\ Own' = Own /\ Routed /\ Chosen' \in Own
    <2>1. config' = config /\ Own' = Own /\ Routed /\ config \in Configs
      BY ConfigStays DEF Accounted, Routed
    <2>2. \A x : ModelFor(x)' \in Own
      BY <2>1 DEF ModelFor, Own, Specialist, Worker
    <2> QED BY <2>1, <2>2 DEF Chosen, ModelFor
  <1>2. /\ \A m : m = Chosen' => Coming(Chosen)' = Coming(m)' /\ engine[Chosen]' = engine'[m]
        /\ \A m : Counted(m)' <=> \/ m \in DOMAIN pending'
                                  \/ m = Chosen' /\ worker'.task > 0 /\ Caller'.pc \notin BeforeStart \cup {"decide"}
    BY DEF Coming, Counted, BeforeStart
  <1>3. TodoOverlaps'
    BY TodoStep DEF TodoOverlaps, Rooming
  <1>4. OwnAwake' /\ PendingBootsRespected'
    BY <1>1, AwakeStep, RacedStep DEF OwnAwake, PendingBootsRespected
  <1>5. OneComing'
    BY <1>1, OneComingStep DEF OneComing
  <1>6. OnDemand'
    <2> SUFFICES ASSUME NEW m \in Own, m = Chosen', m \notin overlooked', Caller'.pc \in BeforeStart \cup {"load"}
                 PROVE  /\ Coming(Chosen)' = {}
                        /\ \/ Caller'.pc \in {"stop", "start"}
                           \/ Caller'.pc \in {"sleep", "bring"} /\ ~Caller'.alive
                           => engine[Chosen]' \in Down
                        /\ Caller'.pc \in {"sleep", "bring"} /\ Caller'.alive => engine[Chosen]' \in Begun
      BY <1>1 DEF OnDemand, BeforeStart, Down, Begun
    <2> QED BY <1>2, OnDemandStep
  <1>7. Spared'
    BY SparedStep DEF Spared
  <1>8. CountedComeUp'
    BY <1>1, <1>2, CountedStep DEF CountedComeUp, Begun
  <1>9. LostKept'
    <2> SUFFICES ASSUME NEW m \in Own, m = Chosen'
                 PROVE  LostKept'
      BY <1>1
    <2> QED BY <1>1, <1>2, LostStep DEF LostKept, Gone
  <1> QED BY <1>3, <1>4, <1>5, <1>6, <1>7, <1>8, <1>9, PoolsStep, TargetStep DEF BootsInv

LEMMA BooksStay ==
  ASSUME Accounted, UNCHANGED vars
  PROVE  BootsInv'
  <1>1. /\ UNCHANGED <<config, engine, thread, worker, plan, pending, boots, current, evicting, target, overlooked>>
        /\ Own' = Own
    BY ConfigStays DEF vars, adapter
  <1>2. /\ Chosen' = Chosen /\ \A t : Subject(t)' = Subject(t)
    BY <1>1 DEF Chosen, ModelFor, Specialist, Worker, Subject
  <1>3. \A m : Coming(m)' = Coming(m) /\ (Counted(m)' <=> Counted(m)) /\ (Serves(m)' <=> Serves(m))
    BY <1>1, <1>2 DEF Coming, Counted, Serves, Told, Caller, Loader
  <1>4. Coming(Chosen)' = Coming(Chosen) /\ (Serves(Chosen)' <=> Serves(Chosen))
    BY <1>1, <1>2 DEF Coming, Serves, Told, Caller, Loader
  <1>5. (PoolsOnly /\ TodoOverlaps /\ OwnAwake /\ PendingBootsRespected)'
    BY <1>1, <1>2 DEF Accounted, BootsInv, PoolsOnly, TodoOverlaps, OwnAwake, PendingBootsRespected, Caller
  <1>6. (OneComing /\ Spared /\ CountedComeUp)'
    BY <1>1, <1>2, <1>3 DEF Accounted, BootsInv, OneComing, Spared, CountedComeUp, Loader
  <1>7. (OnDemand /\ TargetServes /\ LostKept)'
    BY <1>1, <1>2, <1>4 DEF Accounted, BootsInv, OnDemand, TargetServes, LostKept, Caller, Loader
  <1> QED BY <1>5, <1>6, <1>7 DEF BootsInv

LEMMA InitBooks ==
  ASSUME Init
  PROVE  BootsInv
  <1>1. /\ config \in Configs /\ boots = <<>> /\ DOMAIN pending = {} /\ evicting = {} /\ worker.task = 0
        /\ \A t \in Thread : thread[t].pc = "idle"
        /\ \A m \in Model : engine[m] \in {"ready", "off"}
    BY DEF Init, Thread
  <1>2. Caller.pc = "idle" /\ Loader.pc = "idle" /\ "idle" \notin BeforeStart /\ "idle" \notin Rooming
    BY <1>1 DEF Caller, Loader, Thread, BeforeStart, Rooming
  <1>3. Own \subseteq Model /\ \A m : Coming(m) = {}
    BY <1>1, ConfigType DEF Coming
  <1>4. PoolsOnly /\ TodoOverlaps /\ OwnAwake /\ PendingBootsRespected
    BY <1>1, <1>2, <1>3 DEF PoolsOnly, TodoOverlaps, OwnAwake, PendingBootsRespected
  <1>5. OneComing /\ OnDemand /\ Spared
    BY <1>1, <1>2, <1>3 DEF OneComing, OnDemand, Spared
  <1>6. CountedComeUp /\ TargetServes /\ LostKept
    BY <1>1, <1>2 DEF CountedComeUp, Counted, TargetServes, LostKept
  <1> QED BY <1>4, <1>5, <1>6 DEF BootsInv

LEMMA BooksAre ==
  ASSUME BootsInv, config \in Configs
  PROVE  PendingBootsRespected /\ LostForAReason /\ RequestsReachSpecialist
  <1>1. LostForAReason
    BY DEF BootsInv, LostKept, LostForAReason, Gone, At, Caller
  <1>2. RequestsReachSpecialist
    BY DEF BootsInv, TargetServes, RequestsReachSpecialist, Serves, Told, At, Caller
  <1> QED BY <1>1, <1>2 DEF BootsInv

\* chemgraph.py:423-565: where evictions end before the next task and an
\* aggregator is an engine of its own, an engine is only booted beside another
\* boot of it, a workflow lost, or a request sent to an engine that does not
\* serve, after a boot the callback lost sight of, that failed or was cancelled;
\* in every arm, for every plan and marker, however the three kinds of thread
\* interleave.
THEOREM EveryBootIsAccounted == SettledPools => (Spec => []BootsAccounted)
  <1> SUFFICES ASSUME SettledPools PROVE Spec => []BootsAccounted
    OBVIOUS
  <1> DEFINE Books == Routed /\ PlannerFirst /\ BootsInv
  <1>1. Init => Books
    <2>1. SettledPools => DisjointPools
      BY DEF SettledPools
    <2> QED BY <2>1, InitRouted, InitVram, InitBooks DEF VramInv
  <1>2. Books /\ [Next]_vars => Books'
    <2>1. SettledPools' = SettledPools
      BY DEF SettledPools, DisjointPools, Overlap
    <2> SUFFICES ASSUME Books, Next \/ UNCHANGED vars PROVE Books'
      OBVIOUS
    <2>2. Accounted
      BY DEF Accounted
    <2>3. Routed'
      BY RoutedStep
    <2>4. PlannerFirst'
      <3>1. CASE Next
        BY <3>1, PlannerFirstStep
      <3>2. CASE UNCHANGED vars
        BY <3>2 DEF vars, adapter, PlannerFirst, At
      <3> QED BY <3>1, <3>2
    <2>5. BootsInv'
      BY <2>2, BooksStep, BooksStay
    <2> QED BY <2>3, <2>4, <2>5
  <1>3. Books => PendingBootsRespected /\ LostForAReason /\ RequestsReachSpecialist
    BY BooksAre DEF Routed
  <1>4. Spec => []Books
    BY <1>1, <1>2, PTL DEF Spec
  <1> QED BY <1>3, <1>4, RoutingTypes, PTL DEF BootsAccounted

-------------------------------------------------------------------------------
(* Idle residency.                                                         *)

Swapping == {"swap", "sleep", "bring"}

\* Disjoint pools neither swap nor sleep, and only they are maintained.
PoolsAwake ==
    IF config.arm = "pool"
    THEN /\ \A t \in Thread : thread[t].pc \notin Swapping
         /\ \A m \in Model : engine[m] # "asleep"
    ELSE Caller.pc # "maintain"

\* A pending entry is a boot of its engine.
PendingNamed == \A m \in DOMAIN pending : boots[pending[m]].model = m

\* While the planner's engine holds its GPUs, the executor has still to start
\* every boot that needs them, and no task is served on them.
RivalsWait ==
    ~Freed => /\ \A b \in DOMAIN boots : boots[b].model \in Rivals => b \in Coming(boots[b].model)
              /\ Caller.pc \in {"flip", "maintain"} => Chosen \notin Rivals

ResidencyInv == PoolsAwake /\ PendingNamed /\ RivalsWait

\* Only the release of GPUs at the planner's end and a swap put engines to sleep.
LEMMA AsleepStep ==
  ASSUME Routed, Next, config.arm = "pool", \A t \in Thread : thread[t].pc \notin Swapping,
         NEW m \in Model, engine[m] # "asleep"
  PROVE  engine'[m] # "asleep"
  <1>1. engine \in [Model -> Standing]
    BY DEF Routed
  <1>2. ~\E t \in Thread : SwapBegins(t) \/ SwapSleeps(t) \/ SwapBrings(t)
    BY DEF SwapBegins, SwapSleeps, SwapBrings, At, Swapping
  <1>3. \/ engine' = engine
        \/ \E n : \/ Start(n)
                  \/ \E s \in {"ready", "failed", "off", "evicted", "wasted"} : Set(n, s)
    BY <1>2 DEF Next, Callback, Executor, Thread, PlanEnds, PrefetchWorker, ReleaseGpusFor, RouteTask, NextTurn,
       Decide, StopOverlapping, StartOnDemand, SwapServes, Consume, Wait, Flip, Maintain, Ask, Answer,
       StageTransition, EnsembleStarts, AggregatorAgent, AggregatorReady, TakeBoot, StartBoot, BootEnds,
       ReapWasted, EvictOne, EngineReady, EngineFails
  <1> QED BY <1>1, <1>3 DEF Start, Set

\* A thread begins to swap in the sleep/wake arm only.
LEMMA SwapsStep ==
  ASSUME Routed, Next, config.arm = "pool", \A t \in Thread : thread[t].pc \notin Swapping
  PROVE  Caller'.pc \notin Swapping /\ Loader'.pc \notin Swapping
  <1>1. Caller.pc \notin Swapping /\ Loader.pc \notin Swapping
    BY DEF Caller, Loader, Thread
  <1>2. ~\E t \in Thread : SwapBegins(t) \/ SwapSleeps(t) \/ SwapBrings(t)
    BY DEF SwapBegins, SwapSleeps, SwapBrings, At, Swapping
  <1>3. Caller'.pc \notin Swapping
    BY <1>1, <1>2, CallerMovesIs, DecideTurns DEF CallerMoves, Steps, Swapping, Thread
  <1>4. Loader'.pc \notin Swapping
    <2>1. CASE Callback \/ EnginesMove
      BY <1>1, <2>1, CallerAlone, EnginesAlone DEF Loader
    <2>2. CASE TakeBoot \/ StartBoot \/ BootEnds \/ ReapWasted
      BY <2>2, LoaderTurns DEF Swapping
    <2>3. CASE StopOverlapping("executor")
      BY <2>3, RoomTurns DEF Loader, Thread, Swapping
    <2> QED BY <1>2, <2>1, <2>2, <2>3, StepsAre DEF Executor, Thread
  <1> QED BY <1>3, <1>4

LEMMA PoolsAwakeStep ==
  ASSUME Routed, PoolsAwake, Next
  PROVE  PoolsAwake'
  <1>1. config' = config
    BY ConfigStays
  <1>2. CASE config.arm = "pool"
    BY <1>1, <1>2, AsleepStep, SwapsStep DEF PoolsAwake, Caller, Loader, Thread
  <1>3. CASE config.arm # "pool"
    <2>1. Caller'.pc # "maintain"
      BY <1>3, CallerMovesIs, DecideTurns, RoomTurns DEF PoolsAwake, CallerMoves, Steps, Caller, Thread
    <2> QED BY <1>1, <1>3, <2>1 DEF PoolsAwake
  <1> QED BY <1>2, <1>3

\* Entries are made for the boots that pre-booting schedules, and only removed
\* otherwise.
LEMMA PendingNamedStep ==
  ASSUME Routed, PendingNamed, Next
  PROVE  PendingNamed'
  <1>1. ASSUME NEW m \in DOMAIN pending
        PROVE  boots'[pending[m]].model = m
    <2>1. pending[m] \in 1..Len(boots)
      BY DEF Routed
    <2> QED BY <2>1, BootsStep DEF PendingNamed
  <1>2. \A n : DOMAIN Without(n) = DOMAIN pending \ {n} /\ \A m \in DOMAIN Without(n) : Without(n)[m] = pending[m]
    BY DEF Without
  <1>3. CASE pending' = pending \/ \E n : pending' = Without(n)
    <2>1. \A m \in DOMAIN pending' : m \in DOMAIN pending /\ pending'[m] = pending[m]
      BY <1>2, <1>3
    <2> QED BY <1>1, <2>1 DEF PendingNamed
  <1>4. CASE Maintain
    BY <1>1, <1>4, MaintainIs DEF PendingNamed
  <1>5. CASE Routes \/ Consume
    BY <1>3, <1>5 DEF Routes, RouteTask, Consume
  <1>6. CASE ~(Routes \/ Consume \/ Maintain)
    <2>1. pending' = pending
      BY <1>6 DEF Next, Callback, Executor, PlanEnds, Routes, NextTurn, Decide, StopOverlapping, StartOnDemand,
         SwapBegins, SwapSleeps, SwapBrings, SwapServes, Wait, Flip, Ask, Answer, StageTransition,
         EnsembleStarts, AggregatorAgent, AggregatorReady, TakeBoot, StartBoot, BootEnds, ReapWasted,
         EvictOne, EngineReady, EngineFails, adapter
    <2> QED BY <1>3, <2>1
  <1> QED BY <1>3, <1>4, <1>5, <1>6

\* Boots that need the planner's GPUs are started after its engine went down.
LEMMA RivalsWaitStep ==
  ASSUME DisjointPools, Routed, RoomIsMade, RivalsAfterPlanner, RivalsWait, Next
  PROVE  RivalsWait'
  <1>1. config' = config /\ Own' = Own /\ Rivals' = Rivals
    BY ConfigStays DEF Rivals, Overlap
  <1>2. /\ boots \in Seq(Boot) /\ boots' \in Seq(Boot)
        /\ \A b \in 1..Len(boots) : boots'[b].model = boots[b].model
    BY BootsStep DEF Routed
  <1>3. DOMAIN boots = 1..Len(boots) /\ DOMAIN boots' = 1..Len(boots') /\ Len(boots) \in Nat /\ Len(boots') \in Nat
    BY <1>2
  <1>4. ASSUME NEW b \in DOMAIN boots', boots'[b].model \in Rivals, engine'[Planner] \in Vram
        PROVE  \A m \in Rivals : m = boots'[b].model => b \in Coming(m)'
    <2>1. ~Freed
      BY <1>4, FreedStays
    <2> TAKE m \in Rivals
    <2> HAVE m = boots'[b].model
    <2>2. CASE b \in DOMAIN boots
      <3>1. boots[b].model = m /\ b \in Coming(m)
        BY <1>2, <1>3, <2>1, <2>2 DEF RivalsWait
      <3>2. ASSUME LoaderStarts
            PROVE  m # Subject("executor")
        <4>1. Loader.pc \in Starting
          BY <3>2 DEF LoaderStarts, StartBoot, SwapBrings, At, Loader, Starting
        <4> QED BY <2>1, <4>1 DEF RoomIsMade, Rooming, Starting, Loader, Thread
      <3> QED BY <3>1, <3>2, ComingIs
    <2>3. CASE b \notin DOMAIN boots
      <3>1. Callback
        BY <2>3, ToldStays DEF Callback
      <3>2. current' \in 0..Len(boots)
        BY <3>1, CallerAlone DEF Routed
      <3>3. b > current'
        BY <1>3, <2>3, <3>2
      <3> QED BY <3>3 DEF Coming
    <2> QED BY <2>2, <2>3
  <1>5. ASSUME Caller'.pc \in {"flip", "maintain"}, engine'[Planner] \in Vram, Chosen' \in Rivals
        PROVE  FALSE
    <2>1. ~Freed
      BY <1>5, FreedStays
    <2>2. ~At("callback", "idle") => Chosen' = Chosen
      BY SubjectStays DEF Subject
    <2>3. ~(Caller'.pc = Caller.pc)
      BY <1>5, <2>1, <2>2 DEF RivalsWait, At, Caller
    <2>4. Wait \/ Flip
      BY <1>5, <2>3, CallerMovesIs, DecideTurns, RoomTurns DEF CallerMoves, Steps, Caller, Thread
    <2>5. CASE Wait
      <3>1. Steps("wait", "flip") /\ Chosen' = Chosen
        BY <1>5, <2>2, <2>5, CallerTurns DEF Steps, At, Caller
      <3>2. engine[Chosen] = "ready"
        BY <2>5, <3>1, CallerGoes DEF Wait, Steps
      <3> QED BY <1>5, <2>1, <3>1, <3>2 DEF RivalsAfterPlanner, Vram
    <2>6. CASE Flip
      <3>1. Caller.pc = "flip" /\ Chosen' = Chosen
        BY <2>2, <2>6 DEF Flip, At, Caller
      <3> QED BY <1>5, <2>1, <3>1 DEF RivalsWait
    <2> QED BY <2>4, <2>5, <2>6
  <1> QED BY <1>1, <1>4, <1>5 DEF RivalsWait, Freed

\* An engine that is up, neither of the task nor needed next, stays where it is
\* in the way of the engine that is needed next: that is the planner's.
LEMMA InTheWayIsPlanner ==
  ASSUME DisjointPools, Routed, VramInv, PoolsAwake, config.arm = "pool",
         NEW m \in Running, m # NeededNext, Overlap(m, NeededNext), NeededNext # None
  PROVE  m = Planner /\ ~Freed /\ NeededNext \in Rivals
  <1>1. /\ m \in Model /\ engine[m] \notin Down /\ engine[m] # "asleep" /\ engine[m] \in Standing
        /\ config \in Configs
    BY DEF Running, PoolsAwake, Routed
  <1>2. engine[m] \in Vram
    BY <1>1 DEF Standing
  <1>3. NeededNext \in Own /\ Own \subseteq Model
    BY <1>1, NeededType, ConfigType
  <1>4. m # config.aggregator /\ m \notin Own
    BY <1>1, <1>3, DisjointPoolsIs, ConfigType
  <1>5. m = Planner
    BY <1>1, <1>2, <1>4 DEF VramInv, OthersDown
  <1> QED BY <1>2, <1>3, <1>5 DEF Freed, Rivals, Overlap

\* That engine is then being booted, or has been given a boot.
LEMMA NeededComes ==
  ASSUME DisjointPools, Routed, PendingNamed, RivalsWait, Maintain, ~(config.keepAll /\ Real), ~Freed,
         NeededNext \in Rivals, NeededNext \notin Running
  PROVE  \E n \in Model : n = NeededNext /\ Underway(n)' # {}
  <1> SUFFICES ASSUME NEW n \in Model, n = NeededNext PROVE Underway(n)' # {}
    BY ConfigType DEF Rivals, Routed
  <1>1. /\ DOMAIN boots = 1..Len(boots) /\ DOMAIN boots' = 1..Len(boots')
        /\ Len(boots) \in Nat /\ Len(boots') \in Nat /\ Len(boots) <= Len(boots')
        /\ \A b \in DOMAIN boots : boots'[b] = boots[b]
    <2>1. boots \in Seq(Boot) /\ boots' \in Seq(Boot) /\ Len(boots') = Len(boots) + Cardinality(Fresh)
          /\ Cardinality(Fresh) \in Nat /\ \A b \in 1..Len(boots) : boots'[b] = boots[b]
      BY MaintainIs DEF Routed
    <2> QED BY <2>1
  <1>2. current' = current /\ Loader' = Loader /\ current \in 0..Len(boots)
    BY CallerAlone DEF Callback, Routed
  <1>3. n # Chosen
    BY DEF RivalsWait, Maintain, At, Caller
  <1>4. ~config.keepAll
    BY RoutingConstants, ConfigType DEF NeededNext, Rivals, Routed
  <1>5. n \in ToPreboot
    BY <1>3, <1>4, RoutingConstants DEF ToPreboot
  <1>6. ASSUME NEW b \in DOMAIN boots, boots[b].model = n
        PROVE  Underway(n)' # {}
    <2>1. b > current \/ (b = current /\ Loader.pc \in BeforeStart)
      BY <1>6 DEF RivalsWait, Coming
    <2>2. b \in Underway(n)'
      BY <1>1, <1>2, <1>6, <2>1 DEF Underway, BeforeStart, Loader
    <2> QED BY <2>2
  <1>7. CASE n \in Fresh
    <2>1. PICK b \in (Len(boots) + 1)..Len(boots') : boots'[b].model = n
      BY <1>7, MaintainIs
    <2>2. b \in DOMAIN boots' /\ b > current'
      BY <1>1, <1>2
    <2>3. b \in Underway(n)'
      BY <2>1, <2>2 DEF Underway
    <2> QED BY <2>3
  <1>8. CASE n \in DOMAIN pending
    BY <1>1, <1>6, <1>8 DEF PendingNamed, Routed
  <1>9. CASE Scheduled(n, worker.task)
    BY <1>6, <1>9 DEF Scheduled
  <1> QED BY <1>5, <1>7, <1>8, <1>9 DEF Fresh

LEMMA MaintainJustifies ==
  ASSUME DisjointPools, Routed, VramInv, ResidencyInv, Maintain, ~(config.keepAll /\ Real), NEW m \in Running
  PROVE  \/ m \in {Chosen, NeededNext} \cup evicting' \/ Underway(m)' # {}
         \/ \E n \in Model : Overlap(m, n) /\ Underway(n)' # {}
  <1>1. config.arm = "pool"
    BY DEF ResidencyInv, PoolsAwake, Maintain, At, Caller
  <1>2. evicting' = evicting \cup Idle
    BY DEF Maintain
  <1>3. CASE m \in {Chosen, NeededNext} \cup Idle
    BY <1>2, <1>3
  <1>4. CASE m \notin {Chosen, NeededNext} \cup Idle
    <2>1. NeededNext \notin Running \cup {None} /\ Overlap(m, NeededNext)
      BY <1>4 DEF Idle
    <2>2. ~Freed /\ NeededNext \in Rivals
      BY <1>1, <1>4, <2>1, InTheWayIsPlanner DEF ResidencyInv
    <2> QED BY <2>1, <2>2, NeededComes DEF ResidencyInv
  <1> QED BY <1>3, <1>4

LEMMA InitResidency ==
  ASSUME DisjointPools, Init
  PROVE  ResidencyInv
  <1>1. /\ \A t \in Thread : thread[t].pc = "idle"
        /\ \A m \in Model : engine[m] \in {"ready", "off"}
        /\ boots = <<>> /\ DOMAIN pending = {}
    BY DEF Init, Thread
  <1> QED BY <1>1 DEF ResidencyInv, PoolsAwake, PendingNamed, RivalsWait, Swapping, Caller, Thread

LEMMA ResidencyStep ==
  ASSUME DisjointPools, Routed, VramInv, ResidencyInv, Next \/ UNCHANGED vars
  PROVE  ResidencyInv'
  <1>1. CASE Next
    BY <1>1, PoolsAwakeStep, PendingNamedStep, RivalsWaitStep DEF ResidencyInv, VramInv
  <1>2. CASE UNCHANGED vars
    <2>1. UNCHANGED <<config, engine, thread, worker, pending, boots, current>> /\ Own' = Own
      BY <1>2, ConfigStays DEF vars, adapter
    <2>2. Rivals' = Rivals /\ (Freed' <=> Freed) /\ Chosen' = Chosen /\ \A m : Coming(m)' = Coming(m)
      BY <2>1 DEF Rivals, Overlap, Freed, Chosen, ModelFor, Specialist, Worker, Coming, Loader
    <2> QED BY <2>1, <2>2 DEF ResidencyInv, PoolsAwake, PendingNamed, RivalsWait, Caller
  <1> QED BY <1>1, <1>2

\* chemgraph.py:190-193, "idle residency must be justified": with disjoint pools,
\* whenever the pools have been maintained, an engine that is up serves the
\* task, is needed next, is being evicted or booted, or is in the way of a boot
\* under way.  The one engine that eviction spares is the planner's, while the
\* engine needed next needs its GPUs: and then no boot of that engine has been
\* started before, so that the one on the books or the one just scheduled is
\* still to come and will stop it.
THEOREM ResidencyIsJustified == DisjointPools => (Spec => ResidencyJustified)
  <1> SUFFICES ASSUME DisjointPools PROVE Spec => ResidencyJustified
    OBVIOUS
  <1> DEFINE Resident == Routed /\ VramInv /\ ResidencyInv
  <1>1. Init => Resident
    BY InitRouted, InitVram, InitResidency
  <1>2. Resident /\ [Next]_vars => Resident'
    BY RoutedStep, VramStep, ResidencyStep
  <1>3. Resident /\ [Next]_vars =>
            [At("callback", "maintain") /\ thread'["callback"].pc = "serving"
             /\ ~(config.keepAll /\ Real) =>
                \A m \in Running :
                    \/ m \in {Chosen, NeededNext} \cup evicting' \/ Underway(m)' # {}
                    \/ \E n \in Model : Overlap(m, n) /\ Underway(n)' # {}]_vars
    <2> SUFFICES ASSUME Resident, Next, At("callback", "maintain"), thread'["callback"].pc = "serving"
                 PROVE  Maintain
      BY MaintainJustifies
    <2>1. Caller.pc = "maintain" /\ Caller'.pc = "serving"
      BY DEF At, Caller
    <2> QED BY <2>1, CallerMovesIs, DecideTurns, RoomTurns DEF CallerMoves, Steps, Caller, Thread
  <1> QED BY <1>1, <1>2, <1>3, PTL DEF Spec, ResidencyJustified

-------------------------------------------------------------------------------
(* The inductive invariant.                                                *)

Record == [step : Nat, resources : Seq(Resource) \ {<<>>}, offset : Nat, horizon : Nat,
           status : {"pending", "expired"} \cup Verdicts, judgedAt : 0..NSteps, by : Tool]

Typed == ToolsTypeOK /\ store \in Seq(Record)

\* A prediction made in this call waits for its verdict; one for the next tool
\* never waits longer; one that named its step was judged by that step's tool.
RecordKept(i) ==
    LET c == store[i]
    IN  /\ c.step <= step
        /\ c.step = step => i = pendingCkpt /\ pc \in {"idle", "schedule"}
        /\ c.offset <= 1 /\ c.status \notin Verdicts => c.step = step
        /\ i = pendingCkpt /\ c.offset > 1 => step < c.step + c.offset
        /\ c.status \in Verdicts =>
            /\ c.judgedAt <= step
            /\ c.judgedAt = IF c.offset > 1 THEN Expected(c) ELSE c.step + 1
            /\ c.status = "validated" <=> c.by = Consumer[c.resources[1]]
        /\ c.status = "diverged" /\ ~ablated => c.judgedAt + ConservativeSteps <= until

\* One verdict in a call; what waits has not lapsed at any verdict; nothing is
\* predicted in the conservative window of a divergence.
PairKept(i, j) ==
    LET c == store[i]
        d == store[j]
    IN  /\ {c.status, d.status} \subseteq Verdicts /\ c.judgedAt = d.judgedAt => i = j
        /\ c.status = "pending" /\ d.status \in Verdicts => d.judgedAt <= c.step + c.horizon + 1
        /\ c.status = "diverged" /\ ~ablated =>
            d.step \notin c.judgedAt..(c.judgedAt + ConservativeSteps)

\* The position inside the call.
CallKept ==
    /\ pc = "consume" => Len(todo) = 1
    /\ pc = "schedule" => todo # <<>> /\ pendingCkpt # 0 /\ pendingCkpt = Len(store)
    /\ pc = "cancel" => /\ ~ablated
                        /\ \E k \in DOMAIN store : store[k].status = "diverged" /\ store[k].judgedAt = step

\* What a diverged prediction still holds is about to be cancelled.
SlotKept(r) ==
    slot[r] # "empty" /\ r \notin late =>
        /\ ckptOf[r] \in DOMAIN store
        /\ ~ablated /\ store[ckptOf[r]].status = "diverged" =>
            pc = "cancel" /\ store[ckptOf[r]].judgedAt = step

ToolsInv ==
    /\ Typed /\ CallKept
    /\ \A i \in DOMAIN store : RecordKept(i)
    /\ \A i, j \in DOMAIN store : PairKept(i, j)
    /\ \A r \in Resource : SlotKept(r)

-------------------------------------------------------------------------------
LEMMA InitTools == ToolsInit => ToolsInv
  <1> SUFFICES ASSUME ToolsInit PROVE ToolsInv
    OBVIOUS
  <1> USE DEF ToolsInit
  <1>1. store = <<>> /\ DOMAIN store = {} /\ Len(store) = 0
    OBVIOUS
  <1>2. tool \in Tool
    BY ToolsConstants
  <1>3. Typed
    BY <1>1, <1>2, ToolsConstants DEF Typed, ToolsTypeOK, Slots!Init
  <1>4. CallKept /\ \A r \in Resource : SlotKept(r)
    BY <1>1 DEF CallKept, SlotKept, Slots!Init
  <1> QED BY <1>1, <1>3, <1>4 DEF ToolsInv

LEMMA StillTools == ToolsInv /\ UNCHANGED toolVars => ToolsInv'
  BY DEF ToolsInv, Typed, ToolsTypeOK, CallKept, RecordKept, PairKept, SlotKept, toolVars, callback

\* What may change in a record: its status, or the status with the verdict.
SamePrediction(c, d) ==
    d.step = c.step /\ d.resources = c.resources /\ d.offset = c.offset /\ d.horizon = c.horizon

Ruled(c, v, s, x) == [c EXCEPT !.status = v, !.judgedAt = s, !.by = x]

Outlived(c) == [c EXCEPT !.status = "expired"]

LEMMA Edited ==
  ASSUME NEW c \in Record
  PROVE  /\ \A v \in Verdicts, s \in 1..NSteps, x \in Tool :
             /\ Ruled(c, v, s, x) \in Record /\ SamePrediction(c, Ruled(c, v, s, x))
             /\ Ruled(c, v, s, x).status = v
             /\ Ruled(c, v, s, x).judgedAt = s /\ Ruled(c, v, s, x).by = x
         /\ Outlived(c) \in Record /\ SamePrediction(c, Outlived(c))
         /\ Outlived(c).status = "expired"
         /\ Outlived(c).judgedAt = c.judgedAt /\ Outlived(c).by = c.by
  <1> DEFINE R == Seq(Resource) \ {<<>>}
             T == {"pending", "expired"} \cup Verdicts
             J == 0..NSteps
             C == [step : Nat, resources : R, offset : Nat, horizon : Nat, status : T, judgedAt : J, by : Tool]
  <1>1. c \in C
    BY DEF Record
  <1>2. "expired" \in T /\ Verdicts \subseteq T /\ 1..NSteps \subseteq J
    BY ToolsConstants
  <1> HIDE DEF R, T, J
  <1>3. ASSUME NEW v \in T, NEW s \in J, NEW x \in Tool
        PROVE  /\ Ruled(c, v, s, x) \in C /\ SamePrediction(c, Ruled(c, v, s, x))
               /\ Ruled(c, v, s, x).status = v
               /\ Ruled(c, v, s, x).judgedAt = s /\ Ruled(c, v, s, x).by = x
    BY <1>1 DEF Ruled, SamePrediction
  <1>4. /\ Outlived(c) \in C /\ SamePrediction(c, Outlived(c))
        /\ Outlived(c).status = "expired"
        /\ Outlived(c).judgedAt = c.judgedAt /\ Outlived(c).by = c.by
    BY <1>1, <1>2 DEF Outlived, SamePrediction
  <1>5. C = Record
    BY DEF Record, R, T, J
  <1> HIDE DEF C
  <1> QED BY <1>2, <1>3, <1>4, <1>5

\* What a verdict leaves of the store.
LEMMA Judges ==
  ASSUME store \in Seq(Record), NEW k \in DOMAIN store, store[k].status = "pending",
         NEW s \in 1..NSteps, NEW x \in Tool, NEW v \in Verdicts,
         NEW records, records = ExpireOld(Resolve(store, k, v, s, x), s)
  PROVE  /\ records \in Seq(Record) /\ Len(records) = Len(store) /\ DOMAIN records = DOMAIN store
         /\ \A i \in DOMAIN store : SamePrediction(store[i], records[i])
         /\ records[k].status = v /\ records[k].judgedAt = s /\ records[k].by = x
         /\ \A i \in DOMAIN store \ {k} :
             /\ records[i].judgedAt = store[i].judgedAt /\ records[i].by = store[i].by
             /\ records[i].status = IF Lapsed(store[i], s) THEN "expired" ELSE store[i].status
  <1> DEFINE a == Ruled(store[k], v, s, x)
             resolved == [store EXCEPT ![k] = a]
             old(i) == IF Lapsed(resolved[i], s) THEN Outlived(resolved[i]) ELSE resolved[i]
  <1>1. \A i \in DOMAIN store : store[i] \in Record
    OBVIOUS
  <1>2. a \in Record /\ a.status = v /\ a.judgedAt = s /\ a.by = x /\ SamePrediction(store[k], a)
    <2>1. store[k] \in Record
      BY <1>1
    <2>2. \A w \in Verdicts, u \in 1..NSteps, y \in Tool :
            /\ Ruled(store[k], w, u, y) \in Record /\ SamePrediction(store[k], Ruled(store[k], w, u, y))
            /\ Ruled(store[k], w, u, y).status = w
            /\ Ruled(store[k], w, u, y).judgedAt = u /\ Ruled(store[k], w, u, y).by = y
      BY <2>1, Edited
    <2> QED BY <2>2
  <1>3. Resolve(store, k, v, s, x) = resolved
    BY DEF Resolve, Ruled
  <1> HIDE DEF a
  <1>4. /\ DOMAIN resolved = DOMAIN store /\ resolved[k] = a
        /\ \A i \in DOMAIN store \ {k} : resolved[i] = store[i]
    OBVIOUS
  <1> HIDE DEF resolved
  <1>5. records = [i \in DOMAIN store |-> old(i)]
    BY <1>3, <1>4 DEF ExpireOld, Outlived
  <1>6. records[k] = a
    BY <1>2, <1>4, <1>5 DEF Lapsed, Verdicts
  <1>7. ASSUME NEW i \in DOMAIN store, i # k
        PROVE  /\ records[i] \in Record /\ SamePrediction(store[i], records[i])
               /\ records[i].judgedAt = store[i].judgedAt /\ records[i].by = store[i].by
               /\ records[i].status = IF Lapsed(store[i], s) THEN "expired" ELSE store[i].status
    <2>1. /\ store[i] \in Record
          /\ records[i] = IF Lapsed(store[i], s) THEN Outlived(store[i]) ELSE store[i]
      BY <1>1, <1>4, <1>5, <1>7
    <2>2. CASE Lapsed(store[i], s)
      BY <2>1, <2>2, Edited
    <2>3. CASE ~Lapsed(store[i], s)
      BY <2>1, <2>3 DEF SamePrediction
    <2> QED BY <2>2, <2>3
  <1>8. DOMAIN records = 1..Len(store) /\ \A i \in 1..Len(store) : records[i] \in Record
    BY <1>2, <1>5, <1>6, <1>7
  <1>9. records \in Seq(Record) /\ Len(records) = Len(store)
    <2>1. records = [i \in 1..Len(store) |-> records[i]] /\ Len(store) \in Nat
      BY <1>5, <1>8
    <2>2. records \in [1..Len(store) -> Record]
      BY <1>8, <2>1
    <2> QED BY <2>1, <2>2
  <1> QED BY <1>2, <1>6, <1>7, <1>8, <1>9

\* A step that is neither a verdict nor a prediction leaves the records alone.
LEMMA RecordsStill ==
  ASSUME ToolsInv, UNCHANGED callback, pc' \in {"idle", "schedule"} \/ pc \notin {"idle", "schedule"}
  PROVE  /\ \A i \in DOMAIN store' : RecordKept(i)'
         /\ \A i, j \in DOMAIN store' : PairKept(i, j)'
         /\ store' \in Seq(Record)
  <1>1. UNCHANGED <<ablated, step, store, pendingCkpt, until>>
    BY DEF callback
  <1>2. ASSUME NEW i \in DOMAIN store PROVE RecordKept(i)'
    <2>1. RecordKept(i)
      BY DEF ToolsInv
    <2> QED BY <1>1, <2>1 DEF RecordKept, Expected
  <1>3. ASSUME NEW i \in DOMAIN store, NEW j \in DOMAIN store PROVE PairKept(i, j)'
    <2>1. PairKept(i, j)
      BY DEF ToolsInv
    <2> QED BY <1>1, <2>1 DEF PairKept
  <1> QED BY <1>1, <1>2, <1>3 DEF ToolsInv, Typed

\* The call waits for no resource that is not one.
LEMMA CallInv ==
  ASSUME ToolsInv, ConsumeFirst \/ CancelsDone \/ NoPrediction \/ (\E r \in Resource : CancelOne(r))
  PROVE  ToolsInv'
  <1>1. UNCHANGED callback /\ UNCHANGED ckptOf /\ pc \notin {"idle", "schedule"}
    BY DEF ConsumeFirst, CancelsDone, NoPrediction, CancelOne
  <1>2. /\ \A i \in DOMAIN store' : RecordKept(i)'
        /\ \A i, j \in DOMAIN store' : PairKept(i, j)'
        /\ store' \in Seq(Record)
    BY <1>1, RecordsStill
  <1> USE DEF ToolsInv, Typed, ToolsTypeOK
  <1>3. UNCHANGED <<observe, ablated, step, tool, store, pendingCkpt, until>>
    BY <1>1 DEF callback
  <1>4. CASE ConsumeFirst
    <2>1. pc' = "predict" /\ todo' = <<>>
      BY <1>4 DEF ConsumeFirst
    <2>2. todo[1] \in Resource /\ pc = "consume"
      <3>1. pc = "consume" /\ Len(todo) = 1 /\ todo \in Seq(Resource)
        BY <1>4 DEF ConsumeFirst, CallKept
      <3>2. 1 \in 1..Len(todo)
        BY <3>1
      <3>3. todo[1] \in Resource
        BY <3>1, <3>2, ElementOfSeq
      <3> QED BY <3>1, <3>3
    <2>3. \/ UNCHANGED <<slot, late>>
          \/ slot' = [slot EXCEPT ![todo[1]] = "empty"] /\ late' = late \ {todo[1]}
      BY <1>4 DEF ConsumeFirst, Slots!Release
    <2>4. Typed'
      BY <1>1, <1>2, <1>3, <2>1, <2>2, <2>3
    <2>5. ASSUME NEW r \in Resource PROVE SlotKept(r)'
      BY <1>1, <1>3, <2>2, <2>3 DEF SlotKept
    <2> QED BY <1>2, <2>1, <2>4, <2>5 DEF CallKept
  <1>5. CASE NoPrediction
    <2>1. pc = "predict" /\ pc' = "idle" /\ UNCHANGED <<todo, slot, late>>
      BY <1>5 DEF NoPrediction
    <2>2. Typed' /\ \A r \in Resource : SlotKept(r)'
      BY <1>1, <1>2, <1>3, <2>1 DEF SlotKept
    <2> QED BY <1>2, <2>1, <2>2 DEF CallKept
  <1>6. CASE CancelsDone
    <2>1. pc = "cancel" /\ ToCancel = {} /\ pc' = "predict" /\ UNCHANGED <<todo, slot, late>>
      BY <1>6 DEF CancelsDone
    <2>2. Typed'
      BY <1>1, <1>2, <1>3, <2>1
    <2>3. ASSUME NEW r \in Resource PROVE SlotKept(r)'
      <3> SUFFICES ASSUME slot[r] # "empty", r \notin late, ~ablated,
                          store[ckptOf[r]].status = "diverged"
                   PROVE  FALSE
        BY <1>1, <1>3, <2>1 DEF SlotKept
      <3>1. ckptOf[r] \in DOMAIN store /\ store[ckptOf[r]].judgedAt = step
        BY DEF SlotKept
      <3>2. \A k \in DOMAIN store :
              store[k].status = "diverged" /\ store[k].judgedAt = step => k = ckptOf[r]
        BY <3>1 DEF PairKept, Verdicts
      <3>3. Diverged = ckptOf[r]
        BY <3>1, <3>2 DEF Diverged
      <3> QED BY <2>1, <3>3 DEF ToCancel
    <2> QED BY <1>2, <2>1, <2>2, <2>3 DEF CallKept
  <1>7. ASSUME NEW q \in Resource, CancelOne(q) PROVE ToolsInv'
    <2>1. /\ pc = "cancel" /\ UNCHANGED <<pc, todo>>
          /\ slot' = [slot EXCEPT ![q] = "empty"] /\ late' = late \ {q}
      BY <1>7 DEF CancelOne, Slots!Release
    <2>2. Typed'
      BY <1>1, <1>2, <1>3, <2>1
    <2>3. ASSUME NEW r \in Resource PROVE SlotKept(r)'
      BY <1>1, <1>3, <2>1 DEF SlotKept
    <2>4. CallKept'
      BY <1>3, <2>1 DEF CallKept
    <2> QED BY <1>2, <2>2, <2>3, <2>4
  <1> QED BY <1>4, <1>5, <1>6, <1>7

\* Loads end between any two steps of a call.
LEMMA LoadInv ==
  ASSUME ToolsInv, NEW q \in Resource, LoadEnds(q)
  PROVE  ToolsInv'
  <1>1. UNCHANGED callback /\ UNCHANGED <<pc, todo, ckptOf>>
    BY DEF LoadEnds
  <1>2. /\ \A i \in DOMAIN store' : RecordKept(i)'
        /\ \A i, j \in DOMAIN store' : PairKept(i, j)'
        /\ store' \in Seq(Record)
    BY <1>1, RecordsStill
  <1> USE DEF ToolsInv, Typed, ToolsTypeOK
  <1>3. UNCHANGED <<observe, ablated, step, tool, store, pendingCkpt, until>>
    BY <1>1 DEF callback
  <1>4. \/ /\ slot[q] \in {"claimed", "empty"} /\ slot' = [slot EXCEPT ![q] = "ready"]
           /\ late' = IF slot[q] = "empty" THEN late \cup {q} ELSE late
        \/ slot' = [slot EXCEPT ![q] = "empty"] /\ UNCHANGED late
    BY DEF LoadEnds, Slots!Deliver, Slots!Release
  <1>5. Typed'
    BY <1>1, <1>2, <1>3, <1>4
  <1>6. ASSUME NEW r \in Resource PROVE SlotKept(r)'
    BY <1>1, <1>3, <1>4 DEF SlotKept
  <1>7. CallKept'
    BY <1>1, <1>3 DEF CallKept
  <1> QED BY <1>2, <1>5, <1>6, <1>7

\* What a prediction starts belongs to its checkpoint, which is not judged yet.
LEMMA ScheduleInv ==
  ASSUME ToolsInv, ScheduleOne
  PROVE  ToolsInv'
  <1>1. UNCHANGED callback /\ pc = "schedule" /\ pc' \in {"idle", "schedule"}
    BY DEF ScheduleOne
  <1>2. /\ \A i \in DOMAIN store' : RecordKept(i)'
        /\ \A i, j \in DOMAIN store' : PairKept(i, j)'
        /\ store' \in Seq(Record)
    BY <1>1, RecordsStill
  <1> USE DEF ToolsInv, Typed, ToolsTypeOK
  <1>3. UNCHANGED <<observe, ablated, step, tool, store, pendingCkpt, until>>
    BY <1>1 DEF callback
  <1>4. /\ todo # <<>> /\ pendingCkpt # 0 /\ pendingCkpt = Len(store) /\ store[pendingCkpt].status = "pending"
        /\ pendingCkpt \in DOMAIN store
    BY <1>1 DEF CallKept
  <1>5. /\ todo[1] \in Resource /\ Tail(todo) \in Seq(Resource) /\ Len(todo) \in Nat
        /\ Len(Tail(todo)) = Len(todo) - 1
    BY <1>4
  <1>6. /\ todo' = Tail(todo) /\ pc' = IF Len(todo) = 1 THEN "idle" ELSE "schedule"
        /\ \/ UNCHANGED <<slot, ckptOf, late>>
           \/ /\ slot' = [slot EXCEPT ![todo[1]] = "claimed"]
              /\ ckptOf' = [ckptOf EXCEPT ![todo[1]] = Len(store)]
              /\ late' = late \ {todo[1]}
    BY DEF ScheduleOne, Slots!Claim
  <1>7. Typed'
    <2>1. todo' \in Seq(Resource) /\ late' \subseteq Resource
      BY <1>5, <1>6
    <2>2. /\ slot' \in [Resource -> {"empty", "claimed", "ready"}]
          /\ ckptOf' \in [Resource -> 0..Len(store)]
      BY <1>4, <1>5, <1>6
    <2>3. pc' \in {"idle", "consume", "cancel", "predict", "schedule"}
      BY <1>1
    <2> QED BY <1>2, <1>3, <2>1, <2>2, <2>3
  <1>8. ASSUME NEW r \in Resource PROVE SlotKept(r)'
    BY <1>1, <1>3, <1>4, <1>5, <1>6 DEF SlotKept
  <1>9. CallKept'
    <2>1. pc' = "schedule" => Len(todo') # 0
      BY <1>5, <1>6
    <2> QED BY <1>3, <1>4, <1>6, <2>1 DEF CallKept
  <1> QED BY <1>2, <1>7, <1>8, <1>9

\* A tool that judges nothing: the waiting prediction is about a later one.
LEMMA TooEarly ==
  ASSUME ToolsInv, NEW x \in Tool, ToolStarts(x), ~Due(step + 1)
  PROVE  ToolsInv'
  <1> USE DEF ToolsInv, Typed, ToolsTypeOK
  <1>1. /\ pc = "idle" /\ step < NSteps /\ step' = step + 1 /\ tool' = x /\ pc' = "predict"
        /\ UNCHANGED <<observe, ablated, store, pendingCkpt, until, todo, slot, ckptOf, late>>
    BY DEF ToolStarts
  <1>2. step \in Nat /\ NSteps \in Nat
    BY ToolsConstants
  <1>3. Typed'
    BY <1>1, <1>2
  <1>4. ASSUME NEW i \in DOMAIN store PROVE RecordKept(i)'
    <2>1. RecordKept(i) /\ store[i] \in Record
      OBVIOUS
    <2>2. store[i].step \in Nat /\ store[i].offset \in Nat /\ store[i].judgedAt \in 0..NSteps
      BY <2>1 DEF Record
    <2>3. i = pendingCkpt => store[i].offset > 1
      <3> SUFFICES ASSUME i = pendingCkpt, store[i].offset <= 1 PROVE FALSE
        BY <2>2
      <3>1. store[i].status = "pending"
        OBVIOUS
      <3>2. store[i].step = step
        BY <2>1, <3>1 DEF RecordKept, Verdicts
      <3>3. i \in 1..Len(store)
        OBVIOUS
      <3>4. Expected(store[i]) <= step + 1 /\ pendingCkpt # 0
        BY <1>2, <2>2, <3>2, <3>3 DEF Expected
      <3> QED BY <1>2, <2>2, <3>4 DEF Due, Expected
    <2>4. i = pendingCkpt => step + 1 < store[i].step + store[i].offset
      <3> SUFFICES ASSUME i = pendingCkpt PROVE step + 1 < store[i].step + store[i].offset
        OBVIOUS
      <3>1. Expected(store[i]) = store[i].step + store[i].offset /\ i # 0
        BY <2>2, <2>3 DEF Expected
      <3> QED BY <1>2, <2>2, <3>1 DEF Due
    <2>5. store[i].step < step + 1
      BY <1>2, <2>1, <2>2 DEF RecordKept
    <2>6. store[i].offset <= 1 => store[i].status \in Verdicts
      BY <2>1, <2>2, <2>3 DEF RecordKept
    <2> QED BY <1>1, <1>2, <2>1, <2>2, <2>4, <2>5, <2>6 DEF RecordKept, Expected
  <1>5. ASSUME NEW i \in DOMAIN store, NEW j \in DOMAIN store PROVE PairKept(i, j)'
    <2>1. PairKept(i, j)
      OBVIOUS
    <2> QED BY <1>1, <2>1 DEF PairKept
  <1>6. CallKept' /\ \A r \in Resource : SlotKept(r)'
    BY <1>1 DEF CallKept, SlotKept
  <1> QED BY <1>1, <1>3, <1>4, <1>5, <1>6

\* A tool that judges the waiting prediction.
LEMMA Judging ==
  ASSUME ToolsInv, NEW x \in Tool, ToolStarts(x), Due(step + 1)
  PROVE  ToolsInv'
  <1> USE DEF ToolsInv, Typed, ToolsTypeOK
  <1> DEFINE s == step + 1
             k == pendingCkpt
             first == store[k].resources[1]
             v == IF x = Consumer[first] THEN "validated" ELSE "diverged"
  <1>1. k \in DOMAIN store /\ store[k].status = "pending" /\ k # 0
    BY DEF Due
  <1>2. /\ step \in Nat /\ NSteps \in Nat /\ ConservativeSteps \in Nat /\ s \in 1..NSteps /\ v \in Verdicts
    BY ToolsConstants DEF ToolStarts, Verdicts
  <1>3. /\ pc = "idle" /\ step' = s /\ tool' = x /\ pendingCkpt' = 0
        /\ store' = ExpireOld(Resolve(store, k, v, s, x), s)
        /\ until' = IF v = "diverged" /\ ~ablated THEN s + ConservativeSteps ELSE until
        /\ pc' = IF v = "validated" THEN "consume" ELSE IF ~ablated THEN "cancel" ELSE "predict"
        /\ todo' = IF v = "validated" THEN <<first>> ELSE <<>>
        /\ UNCHANGED <<observe, ablated, slot, ckptOf, late>>
    BY DEF ToolStarts, Window
  <1>4. /\ store' \in Seq(Record) /\ Len(store') = Len(store) /\ DOMAIN store' = DOMAIN store
        /\ \A i \in DOMAIN store : SamePrediction(store[i], store'[i])
        /\ store'[k].status = v /\ store'[k].judgedAt = s /\ store'[k].by = x
        /\ \A i \in DOMAIN store \ {k} :
            /\ store'[i].judgedAt = store[i].judgedAt /\ store'[i].by = store[i].by
            /\ store'[i].status = IF Lapsed(store[i], s) THEN "expired" ELSE store[i].status
    <2> HIDE DEF s, k, v
    <2> QED BY <1>1, <1>2, <1>3, Judges
  <1> HIDE DEF v
  <1>5. \A i \in DOMAIN store : /\ store[i] \in Record /\ store[i].step \in Nat /\ store[i].offset \in Nat
                                /\ store[i].horizon \in Nat /\ store[i].judgedAt \in 0..NSteps
    <2>1. \A i \in DOMAIN store : store[i] \in Record
      OBVIOUS
    <2> QED BY <2>1 DEF Record
  <1>6. first \in Resource
    <2>1. store[k] \in Record
      BY <1>1, <1>5
    <2>2. store[k].resources \in Seq(Resource) /\ store[k].resources # <<>>
      BY <2>1 DEF Record
    <2> QED BY <2>2
  <1>7. Typed'
    <2>1. \A i \in DOMAIN store' : store'[i] \in Record
      BY <1>4
    <2>2. \A i \in DOMAIN store' : /\ store'[i].status \in {"pending", "expired"} \cup Verdicts
                                   /\ store'[i].judgedAt \in 0..NSteps
      BY <2>1 DEF Record
    <2>3. todo' \in Seq(Resource)
      BY <1>3, <1>6
    <2>4. step' \in 0..NSteps /\ until' \in 0..(NSteps + ConservativeSteps) /\ pendingCkpt' \in 0..Len(store')
      BY <1>2, <1>3, <1>4
    <2>5. pc' \in {"idle", "consume", "cancel", "predict", "schedule"} /\ pendingCkpt' = 0
      BY <1>3
    <2> QED BY <1>3, <1>4, <2>2, <2>3, <2>4, <2>5
  <1>8. /\ store[k].offset > 1 => Expected(store[k]) = s
        /\ store[k].offset <= 1 => store[k].step = step
        /\ \A i \in DOMAIN store : i # k /\ store[i].offset <= 1 => store[i].status \in Verdicts
    <2>1. RecordKept(k)
      BY <1>1
    <2>2. store[k].offset > 1 => Expected(store[k]) = store[k].step + store[k].offset
      BY <1>1, <1>5 DEF Expected
    <2>3. \A i \in DOMAIN store : RecordKept(i)
      OBVIOUS
    <2>4. store[k].offset > 1 => Expected(store[k]) = s
      <3> SUFFICES ASSUME store[k].offset > 1 PROVE Expected(store[k]) = s
        OBVIOUS
      <3>1. step < store[k].step + store[k].offset
        BY <2>1 DEF RecordKept
      <3>2. s >= Expected(store[k])
        BY DEF Due
      <3>3. store[k].step \in Nat /\ store[k].offset \in Nat
        BY <1>1, <1>5
      <3>4. Expected(store[k]) = store[k].step + store[k].offset
        BY <2>2
      <3>5. s >= store[k].step + store[k].offset
        BY <3>2, <3>4
      <3>6. s = store[k].step + store[k].offset
        <4> HIDE DEF ToolsInv, k
        <4> QED BY <1>2, <3>1, <3>3, <3>5
      <3> QED BY <3>4, <3>6
    <2>5. store[k].offset <= 1 => store[k].step = step
      BY <1>1, <2>1 DEF RecordKept, Verdicts
    <2>6. \A i \in DOMAIN store : i # k /\ store[i].offset <= 1 => store[i].status \in Verdicts
      BY <2>3 DEF RecordKept
    <2> QED BY <2>4, <2>5, <2>6
  <1>9. ASSUME NEW i \in DOMAIN store PROVE RecordKept(i)'
    <2>1. RecordKept(i) /\ SamePrediction(store[i], store'[i])
      BY <1>4
    <2>2. /\ store'[i].step = store[i].step /\ store'[i].resources = store[i].resources
          /\ store'[i].offset = store[i].offset /\ Expected(store'[i]) = Expected(store[i])
          /\ store[i].step \in Nat /\ store[i].offset \in Nat /\ store[i].judgedAt \in Nat
          /\ store[i].step < s
      BY <1>2, <1>5, <2>1 DEF SamePrediction, Expected, RecordKept
    <2>3. CASE i = k
      <3>1. store'[i].status = "validated" <=> x = Consumer[first]
        BY <1>4, <2>3 DEF v
      <3>2. store'[i].status = "diverged" /\ ~ablated => until' = s + ConservativeSteps
        BY <1>3, <1>4, <2>3
      <3> QED BY <1>1, <1>2, <1>3, <1>4, <1>8, <2>2, <2>3, <3>1, <3>2 DEF RecordKept
    <2>4. CASE i # k
      <3>1. /\ store'[i].judgedAt = store[i].judgedAt /\ store'[i].by = store[i].by
            /\ store'[i].status \in Verdicts \cup {"pending"} => store'[i].status = store[i].status
            /\ store[i].status \in Verdicts => store'[i].status = store[i].status
        BY <1>4, <2>4 DEF Verdicts, Lapsed
      <3>2. store[i].judgedAt <= step => store[i].judgedAt + ConservativeSteps <= s + ConservativeSteps
        BY <1>2, <2>2
      <3>3. store'[i].status = "diverged" /\ ~ablated => store'[i].judgedAt + ConservativeSteps <= until'
        BY <1>3, <2>1, <3>1, <3>2 DEF RecordKept, Verdicts
      <3>4. i # pendingCkpt' /\ step' = s /\ pendingCkpt' = 0 /\ s \in Nat /\ ablated' = ablated
        BY <1>1, <1>2, <1>3, <2>4
      <3>5. store'[i].offset <= 1 => store'[i].status \in Verdicts
        BY <1>8, <2>2, <2>4, <3>1
      <3>6. store'[i].status \in Verdicts =>
              /\ store'[i].judgedAt <= step /\ store'[i].judgedAt \in Nat
              /\ store'[i].judgedAt = IF store'[i].offset > 1 THEN Expected(store'[i]) ELSE store'[i].step + 1
              /\ (store'[i].status = "validated" <=> store'[i].by = Consumer[store'[i].resources[1]])
        BY <2>1, <2>2, <3>1 DEF RecordKept
      <3>7. store'[i].status \in Verdicts => store'[i].judgedAt <= s
        BY <1>2, <3>6
      <3>8. store'[i].step \in Nat /\ store'[i].step < s
        BY <2>2
      <3> HIDE DEF ToolsInv, s
      <3> QED BY <3>8, <3>3, <3>4, <3>5, <3>6, <3>7 DEF RecordKept
    <2> QED BY <2>3, <2>4
  <1>10. ASSUME NEW i \in DOMAIN store, NEW j \in DOMAIN store PROVE PairKept(i, j)'
    <2>1. PairKept(i, j) /\ RecordKept(i) /\ RecordKept(j)
      OBVIOUS
    <2>2. /\ store'[i].step = store[i].step /\ store'[i].horizon = store[i].horizon
          /\ store'[j].step = store[j].step
      BY <1>4 DEF SamePrediction
    <2>3. ASSUME NEW l \in DOMAIN store, l # k
          PROVE  /\ store'[l].judgedAt = store[l].judgedAt
                 /\ store'[l].status \in Verdicts \cup {"pending"} => store'[l].status = store[l].status
                 /\ store'[l].status = "pending" => s <= store[l].step + store[l].horizon + 1
      <3>1. /\ store'[l].judgedAt = store[l].judgedAt
            /\ store'[l].status = IF Lapsed(store[l], s) THEN "expired" ELSE store[l].status
        BY <1>4, <2>3
      <3>2. store[l].step \in Nat /\ store[l].horizon \in Nat /\ s \in Nat
        BY <1>2, <1>5
      <3> HIDE DEF s
      <3> QED BY <3>1, <3>2 DEF Lapsed, Verdicts
    <2>4. ASSUME NEW l \in DOMAIN store, l # k, store'[l].status \in Verdicts
          PROVE  store'[l].judgedAt < s
      <3>1. RecordKept(l) /\ store[l].status \in Verdicts /\ store[l].judgedAt \in Nat
        BY <1>2, <1>5, <2>3, <2>4
      <3>2. store[l].judgedAt <= step
        BY <3>1 DEF RecordKept
      <3> QED BY <1>2, <2>3, <2>4, <3>1, <3>2
    <2>5. {store'[i].status, store'[j].status} \subseteq Verdicts /\ store'[i].judgedAt = store'[j].judgedAt => i = j
      <3> SUFFICES ASSUME store'[i].status \in Verdicts, store'[j].status \in Verdicts,
                          store'[i].judgedAt = store'[j].judgedAt, i # j
                   PROVE  FALSE
        OBVIOUS
      <3>1. CASE i = k
        BY <1>2, <1>4, <2>4, <3>1
      <3>2. CASE j = k
        BY <1>2, <1>4, <2>4, <3>2
      <3>3. CASE i # k /\ j # k
        BY <2>1, <2>3, <3>3 DEF PairKept
      <3> QED BY <3>1, <3>2, <3>3
    <2>6. store'[i].status = "pending" /\ store'[j].status \in Verdicts
            => store'[j].judgedAt <= store'[i].step + store'[i].horizon + 1
      <3> SUFFICES ASSUME store'[i].status = "pending", store'[j].status \in Verdicts
                   PROVE  store'[j].judgedAt <= store[i].step + store[i].horizon + 1
        BY <2>2
      <3>1. i # k
        BY <1>2, <1>4 DEF Verdicts
      <3>2. s <= store[i].step + store[i].horizon + 1
        BY <2>3, <3>1
      <3>3. store'[j].judgedAt <= s /\ store'[j].judgedAt \in Nat
        <4>1. CASE j = k
          BY <1>2, <1>4, <4>1
        <4>2. CASE j # k
          <5>1. store'[j].judgedAt = store[j].judgedAt /\ store'[j].judgedAt < s
            BY <2>3, <2>4, <4>2
          <5>2. store[j].judgedAt \in Nat
            BY <1>5
          <5> HIDE DEF s
          <5> QED BY <1>2, <5>1, <5>2
        <4> QED BY <4>1, <4>2
      <3> QED BY <1>2, <1>5, <3>2, <3>3
    <2>7. store'[i].status = "diverged" /\ ~ablated
            => store'[j].step \notin store'[i].judgedAt..(store'[i].judgedAt + ConservativeSteps)
      <3>1. CASE i = k
        BY <1>2, <1>4, <1>5, <2>1, <2>2, <3>1 DEF RecordKept
      <3>2. CASE i # k
        BY <2>1, <2>2, <2>3, <3>2 DEF PairKept, Verdicts
      <3> QED BY <3>1, <3>2
    <2> QED BY <1>3, <2>5, <2>6, <2>7 DEF PairKept
  <1>11. CallKept'
    <2>1. pc' = "consume" => Len(todo') = 1
      BY <1>3
    <2>2. pc' = "cancel" => ~ablated /\ store'[k].status = "diverged" /\ store'[k].judgedAt = step'
      BY <1>2, <1>3, <1>4 DEF Verdicts
    <2> QED BY <1>1, <1>3, <1>4, <2>1, <2>2 DEF CallKept
  <1>12. ASSUME NEW r \in Resource PROVE SlotKept(r)'
    <2> SUFFICES ASSUME slot[r] # "empty", r \notin late
                 PROVE  /\ ckptOf[r] \in DOMAIN store'
                        /\ ~ablated /\ store'[ckptOf[r]].status = "diverged" =>
                            pc' = "cancel" /\ store'[ckptOf[r]].judgedAt = step'
      BY <1>3 DEF SlotKept
    <2>1. /\ ckptOf[r] \in DOMAIN store
          /\ ~ablated => store[ckptOf[r]].status # "diverged"
      BY <1>3 DEF SlotKept
    <2>2. CASE ckptOf[r] = k
      BY <1>3, <1>4, <2>1, <2>2
    <2>3. CASE ckptOf[r] # k
      BY <1>4, <2>1, <2>3
    <2> QED BY <2>2, <2>3
  <1> QED BY <1>4, <1>7, <1>9, <1>10, <1>11, <1>12

\* A prediction becomes the one that waits; it is not made in the window.
LEMMA PredictInv ==
  ASSUME ToolsInv, NEW p \in Predictions, Predict(p)
  PROVE  ToolsInv'
  <1> USE DEF ToolsInv, Typed, ToolsTypeOK
  <1> DEFINE n == Len(store) + 1
             new == [step |-> step, resources |-> p.resources, offset |-> p.offset,
                     horizon |-> p.horizon, status |-> "pending", judgedAt |-> 0, by |-> tool]
  <1>1. /\ pc = "predict" /\ step > until /\ store' = Append(store, new) /\ pendingCkpt' = n
        /\ pc' \in {"idle", "schedule"} /\ (pc' = "schedule" => todo' = p.resources)
        /\ todo' \in {<<>>, p.resources}
        /\ UNCHANGED <<observe, ablated, step, tool, until, slot, ckptOf, late>>
    BY ToolsConstants DEF Predict, Conservative
  <1>2. /\ step \in Nat /\ NSteps \in Nat /\ ConservativeSteps \in Nat /\ until \in Nat /\ 0 \in 0..NSteps
        /\ p.resources \in Seq(Resource) \ {<<>>} /\ p.offset \in Nat /\ p.horizon \in Nat
    BY ToolsConstants
  <1>3. /\ new \in Record /\ new.step = step /\ new.offset = p.offset /\ new.horizon = p.horizon
        /\ new.status = "pending" /\ new.judgedAt = 0
    BY <1>2 DEF Record
  <1> HIDE DEF new
  <1>4. /\ store' \in Seq(Record) /\ Len(store') = n /\ DOMAIN store' = DOMAIN store \cup {n}
        /\ store'[n] = new /\ n \notin DOMAIN store /\ n # 0
        /\ \A i \in DOMAIN store : store'[i] = store[i]
    BY <1>1, <1>3
  <1>5. \A i \in DOMAIN store : /\ store[i].step \in Nat /\ store[i].offset \in Nat
                                /\ store[i].horizon \in Nat /\ store[i].judgedAt \in 0..NSteps
    <2>1. \A i \in DOMAIN store : store[i] \in Record
      OBVIOUS
    <2> QED BY <2>1 DEF Record
  <1>6. Typed'
    <2>1. \A i \in DOMAIN store' : store'[i] \in Record
      BY <1>4
    <2>2. \A i \in DOMAIN store' : /\ store'[i].status \in {"pending", "expired"} \cup Verdicts
                                   /\ store'[i].judgedAt \in 0..NSteps
      BY <2>1 DEF Record
    <2>3. pendingCkpt' \in 0..Len(store') /\ store'[pendingCkpt'].status = "pending"
      <3> HIDE DEF n
      <3>1. n \in Nat
        BY DEF n
      <3>2. pendingCkpt' = n /\ Len(store') = n /\ store'[n].status = "pending"
        BY <1>1, <1>3, <1>4
      <3> QED BY <3>1, <3>2
    <2>4. todo' \in Seq(Resource)
      <3>1. <<>> \in Seq(Resource) /\ p.resources \in Seq(Resource)
        BY <1>2
      <3> QED BY <1>1, <3>1
    <2>5. ckptOf' \in [Resource -> 0..Len(store')]
      BY <1>1, <1>4
    <2> HIDE DEF n
    <2> QED BY <1>1, <1>4, <2>2, <2>3, <2>4, <2>5
  <1>7. ASSUME NEW i \in DOMAIN store'
        PROVE  RecordKept(i)' /\ (i # n => store[i].step < step)
    <2>1. CASE i = n
      BY <1>1, <1>2, <1>3, <1>4, <2>1 DEF RecordKept, Verdicts
    <2>2. CASE i # n
      <3>1. i \in DOMAIN store /\ RecordKept(i) /\ store'[i] = store[i]
        BY <1>4, <2>2
      <3>2. store[i].step < step
        BY <1>1, <1>2, <1>5, <3>1 DEF RecordKept
      <3> QED BY <1>1, <1>2, <1>5, <2>2, <3>1, <3>2 DEF RecordKept, Expected
    <2> QED BY <2>1, <2>2
  <1>8. ASSUME NEW i \in DOMAIN store', NEW j \in DOMAIN store' PROVE PairKept(i, j)'
    <2>1. CASE i # n /\ j # n
      <3>1. i \in DOMAIN store /\ j \in DOMAIN store
        BY <1>4, <2>1
      <3>2. PairKept(i, j) /\ store'[i] = store[i] /\ store'[j] = store[j]
        BY <1>4, <3>1
      <3> QED BY <1>1, <3>2 DEF PairKept
    <2>2. CASE i = n
      <3>1. store'[i].status = "pending" /\ store'[i].step = step /\ store'[i].horizon \in Nat
        BY <1>2, <1>3, <1>4, <2>2
      <3>2. store'[j].status \in Verdicts => j \in DOMAIN store /\ store'[j] = store[j]
        BY <1>3, <1>4 DEF Verdicts
      <3>3. store'[j].status \in Verdicts => store'[j].judgedAt <= step /\ store'[j].judgedAt \in Nat
        BY <1>2, <1>5, <3>2 DEF RecordKept
      <3> QED BY <1>2, <3>1, <3>3 DEF PairKept, Verdicts
    <2>3. CASE i # n /\ j = n
      <3>1. /\ i \in DOMAIN store /\ RecordKept(i) /\ store'[i] = store[i]
            /\ store'[j].status = "pending" /\ store'[j].step = step
        BY <1>3, <1>4, <2>3
      <3>2. store[i].status = "diverged" /\ ~ablated => store[i].judgedAt + ConservativeSteps < step
        BY <1>1, <1>2, <1>5, <3>1 DEF RecordKept
      <3> QED BY <1>1, <1>2, <1>5, <2>3, <3>1, <3>2 DEF PairKept, Verdicts
    <2> QED BY <2>1, <2>2, <2>3
  <1>9. CallKept'
    BY <1>1, <1>2, <1>4 DEF CallKept
  <1>10. ASSUME NEW r \in Resource PROVE SlotKept(r)'
    BY <1>1, <1>4 DEF SlotKept
  <1> QED BY <1>6, <1>7, <1>8, <1>9, <1>10

LEMMA NextTools == ToolsInv /\ [ToolsNext]_toolVars => ToolsInv'
  BY StillTools, CallInv, LoadInv, ScheduleInv, TooEarly, Judging, PredictInv DEF ToolsNext

\* The invariant of the adapter's predictions is inductive
\* (adapters/chemgraph.py:952-1063).
THEOREM ToolsInductive == ToolsSpec => []ToolsInv
  <1> QED BY InitTools, NextTools, PTL DEF ToolsSpec

\* The single pending prediction gets its verdict from the tool of the step it
\* names, one about the next tool always gets it, and what was superseded while
\* it waited has not outlived its horizon at any verdict
\* (chemgraph.py:952-1004, checkpoint.py:42-43), whatever is predicted.
THEOREM PredictionsJudgedRight == ToolsSpec => []JudgedRight
  <1>1. ToolsInv => JudgedRight
    <2> SUFFICES ASSUME ToolsInv PROVE JudgedRight
      OBVIOUS
    <2> USE DEF ToolsInv
    <2>1. ToolsTypeOK
      BY DEF Typed
    <2>2. JudgedWhenExpected
      BY DEF JudgedWhenExpected, RecordKept
    <2>3. NextToolJudges
      <3> SUFFICES ASSUME NEW i \in DOMAIN store, store[i].offset <= 1, store[i].step < step
                   PROVE  store[i].status \in Verdicts
        BY DEF NextToolJudges
      <3>1. RecordKept(i) /\ step \in Nat
        BY <2>1, ToolsConstants DEF ToolsTypeOK
      <3> QED BY <3>1 DEF RecordKept
    <2>4. SupersededExpire
      BY DEF SupersededExpire, PairKept
    <2> QED BY <2>1, <2>2, <2>3, <2>4 DEF JudgedRight
  <1> QED BY <1>1, ToolsInductive, PTL

\* What a divergence does, for every length of the conservative window: when
\* the call that saw it has ended nothing it revoked is held or in flight, apart
\* from loads that delivered although cancelled, and nothing is predicted in its
\* window (chemgraph.py:985-1003).
THEOREM DivergenceRevokes == ToolsSpec => []DivergenceActs
  <1>1. ToolsInv => DivergenceActs
    <2> SUFFICES ASSUME ToolsInv PROVE DivergenceActs
      OBVIOUS
    <2> USE DEF ToolsInv
    <2>1. DivergedReleased
      BY DEF DivergedReleased, SlotKept
    <2>2. ConservativeSilence
      BY DEF ConservativeSilence, PairKept
    <2> QED BY <2>1, <2>2 DEF DivergenceActs
  <1> QED BY <1>1, ToolsInductive, PTL

===============================================================================
