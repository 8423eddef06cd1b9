--------------------------- MODULE SpecialistRouting ---------------------------
(***************************************************************************)
(* Which vLLM engine serves a worker task: the engine side of the          *)
(* ChemGraph adapter (runtime/adapters/chemgraph.py, on_chain_start,       *)
(* on_chain_end and the pool helpers), with ModelPrefetchExecutor's load   *)
(* thread, prefetch/sleep_wake.py and prefetch/specialist_proxy.py.        *)
(*                                                                         *)
(* Three kinds of thread move engines: the callback thread of the          *)
(* workflow, the single load thread of the executor and the background     *)
(* eviction threads.  The orchestrator that owns the server processes is   *)
(* external: starting an engine that is already up kills both              *)
(* (chemgraph.py:447-450).                                                 *)
(*                                                                         *)
(* Tasks are numbered from 1; task 0 is the time before the first one.     *)
(***************************************************************************)
EXTENDS Integers, Sequences, FiniteSets, SequencesExt

CONSTANTS
    Model,        \* the managed engines
    Planner,      \* the engine of the planner, up when the workflow starts
    Gpus,         \* Gpus[m]: the GPUs of engine m
    Plans,        \* the marker sequences a planner may emit
    Configs,      \* the RuntimeConfigs explored: the arm, the mode and switches,
                  \* vllm_worker_model, specialist_models (the engines a marker can
                  \* name, {} with one worker), vllm_aggregator_model or None
    PromptStops,  \* evictions end before the next task starts (tasks take minutes)
    NTasks,       \* bound: worker tasks of a workflow
    NTurns,       \* bound: LLM turns of a task
    None          \* "no model", "no marker"

ASSUME RoutingConstants ==
    /\ IsFiniteSet(Model) /\ Planner \in Model /\ None \notin Model \cup Plans \cup {<<>>}
    /\ Plans \subseteq Seq(Model \cup {None})
    /\ \A c \in Configs : /\ c.arm \in {"pool", "sleep_wake", "swap"}
                         /\ {c.worker} \cup c.specialists \subseteq Model
                         /\ c.aggregator \in Model \cup {None}
    /\ PromptStops \in BOOLEAN /\ {NTasks, NTurns} \subseteq Nat \ {0}

\* An engine that is down remembers why: stopped by the thread that needed its
\* GPUs (or never started), by an eviction thread, as a wasted pre-boot, by a
\* failed boot, or by a second start.
Down == {"off", "evicted", "wasted", "failed", "raced"}
Vram == {"loading", "ready"}

VARIABLES
    config,       \* the RuntimeConfig of the run
    engine,       \* engine[m]: in Down, "loading", "ready" or "asleep"
    thread,       \* pc, and the locals todo and alive, of "callback" and "executor"
    worker,       \* task, turn, marker, consumed: _worker_task_idx and its fellows
    plan,         \* _specialist_plan; None until the planner has ended
    staged,       \* _staged_models
    stagedFor,    \* _transition_staged_for
    transition,   \* _transition_ckpt_id: a boot, CacheStage, or 0
    pending,      \* _pool_pending_boot: model -> boot
    aggStarted,   \* _aggregator_prefetch_started
    boots,        \* the vllm_model prefetches scheduled, in order
    current,      \* the boot the executor took last
    evicting,     \* engines an eviction thread has still to stop
    target,       \* the engine the worker client reaches (SpecialistProxy._target)
    overlooked    \* history: engines given a boot, on demand or ahead, while one
                  \* was under way that _pool_pending_boot did not show, or while
                  \* an eviction thread was still to stop them

adapter == <<worker, plan, staged, stagedFor, transition, pending, aggStarted>>
vars == <<config, engine, thread, adapter, boots, current, evicting, target, overlooked>>

CacheStage == -1

-------------------------------------------------------------------------------
(* Engines.                                                                *)

\* _running_model_set(): engines with a live process, asleep or not.
Running == {m \in Model : engine[m] \notin Down}

Overlap(m, n) == m # n /\ Gpus[m] \cap Gpus[n] # {}

\* A mistaken list that spares the planner.
InTheWayButPlanner(m) == {n \in Running \ {Planner} : Overlap(n, m)}

\* Engines whose GPUs m needs.
InTheWay(m) == {n \in Running : Overlap(n, m)}

Set(m, s) == engine' = [engine EXCEPT ![m] = s]

\* start_model(): a second start of a live engine kills both.
Start(m) == Set(m, IF engine[m] \in Down THEN "loading" ELSE "raced")

\* The server comes up, or its boot fails.
EngineReady(m) ==
    /\ engine[m] = "loading"
    /\ Set(m, "ready")
    /\ UNCHANGED <<config, thread, adapter, boots, current, evicting, target,
                   overlooked>>

EngineFails(m) ==
    /\ config.fails /\ engine[m] = "loading"
    /\ Set(m, "failed")
    /\ UNCHANGED <<config, thread, adapter, boots, current, evicting, target,
                   overlooked>>

-------------------------------------------------------------------------------
(* Specialists, plans and vllm_model prefetches.                           *)

\* _specialist_model_for()
Specialist == config.specialists
Worker == config.worker

ModelFor(x) == IF x \in Specialist THEN x ELSE Worker

PlannedAt(k) == IF plan # None /\ k \in DOMAIN plan THEN plan[k] ELSE None

Chosen == ModelFor(worker.marker)

Real == config.mode = "real"

\* _stage_model_cache(): only the first stage of a model counts.
MayStage(m) == config.mode # "baseline" /\ m \notin staged

NewBoot(m, k) == [model |-> m, at |-> k, status |-> "in_progress", told |-> FALSE]

\* schedule() skips a resource, engine m at task k, that is loading or loaded.
Scheduled(m, k) ==
    \E b \in DOMAIN boots : /\ boots[b].model = m /\ boots[b].at = k
                            /\ boots[b].status \in {"in_progress", "completed"}

Without(m) == [n \in DOMAIN pending \ {m} |-> pending[n]]

\* on_resource_consumed(): what was wasted stays so.
Used(b) == IF b.status \in {"in_progress", "completed"}
           THEN [b EXCEPT !.status = "used"] ELSE b

\* cancel_all_pending() of a checkpoint, with ModelPrefetchExecutor.cancel().
Cancelled(b) ==
    CASE b.status = "in_progress" -> [b EXCEPT !.told = TRUE]
      [] b.status = "completed" -> [b EXCEPT !.told = TRUE, !.status = "wasted"]
      [] OTHER -> b

\* Boots of m the executor has not finished.
Underway(m) == {b \in DOMAIN boots : /\ boots[b].model = m
                                     /\ \/ b > current
                                        \/ b = current /\ thread["executor"].pc # "idle"}

At(t, p) == thread[t].pc = p
Goto(t, p) == thread' = [thread EXCEPT ![t].pc = p]

-------------------------------------------------------------------------------
(* on_chain_end of the PlannerAgent.                                       *)

\* release_gpus_for(): the running engine makes room for m; a slept one
\* already has, and where sleeping fails it is stopped.
ReleaseGpusFor(m) ==
    LET live == Running \ {m}
    IN  IF config.arm = "pool" \/ live = {} THEN UNCHANGED engine
        ELSE \E r \in live : \/ config.arm = "sleep_wake" /\ Set(r, "asleep")
                             \/ Set(r, "off")

\* _schedule_worker_model_prefetch(): the engine is booted for the first task,
\* without an entry in _pool_pending_boot.
PrefetchWorker(m) ==
    /\ ReleaseGpusFor(m)
    /\ boots' = IF Real THEN Append(boots, NewBoot(m, 0)) ELSE boots

\* The plan is recorded; unless nothing could be extracted, the engine it
\* needs first is staged and prefetched.
PlanEnds(p, extracted) ==
    LET first == IF Specialist # {} /\ p # <<>> THEN ModelFor(p[1]) ELSE Worker
    IN  /\ plan = None
        /\ plan' = IF config.mode = "baseline" \/ Specialist = {} THEN <<>> ELSE p
        /\ IF extracted /\ config.mode # "baseline"
           THEN PrefetchWorker(first) /\ staged' = staged \cup {first}
           ELSE UNCHANGED <<engine, staged, boots>>
        /\ UNCHANGED <<config, thread, worker, stagedFor, transition, pending, aggStarted,
                       current, evicting, target, overlooked>>

-------------------------------------------------------------------------------
(* on_chain_start of the WorkerAgent.                                      *)

\* The first turn of a task reads the marker x in its prompt; without one the
\* plan decides.  Any other marker than the planned one is a divergence: the
\* prefetch of the transition is cancelled, and with disjoint pools an engine
\* that is up for the wrong specialist is evicted, unless its boot is pending.
RouteTask(x) ==
    LET k == worker.task + 1
        p == PlannedAt(k)
        a == IF x # None THEN x ELSE p
        wrong == ModelFor(p)
        diverged == p # None /\ a # p /\ config.cancel
        pooled == diverged /\ config.arm = "pool"
    IN  /\ plan # None /\ At("callback", "idle") /\ k <= NTasks
        /\ PromptStops => evicting = {}
        /\ worker' = [task |-> k, turn |-> 1, marker |-> a, consumed |-> FALSE]
        /\ Goto("callback", "decide")
        /\ IF diverged /\ transition # 0
           THEN /\ transition' = 0
                /\ boots' = [b \in DOMAIN boots |->
                                IF b = transition THEN Cancelled(boots[b]) ELSE boots[b]]
           ELSE UNCHANGED <<transition, boots>>
        /\ pending' = IF pooled THEN Without(wrong) ELSE pending
        /\ evicting' = IF /\ pooled /\ wrong # ModelFor(a)
                          /\ wrong \notin DOMAIN pending /\ wrong \in Running
                       THEN evicting \cup {wrong} ELSE evicting
        /\ UNCHANGED <<config, engine, plan, staged, stagedFor, aggStarted, current, target,
                       overlooked>>

\* Later turns of a task keep its routing.
NextTurn ==
    /\ At("callback", "idle") /\ worker.task > 0 /\ worker.turn < NTurns
    /\ worker' = [worker EXCEPT !.turn = @ + 1]
    /\ Goto("callback", "decide")
    /\ UNCHANGED <<config, engine, plan, staged, stagedFor, transition, pending, aggStarted,
                   boots, current, evicting, target, overlooked>>

\* A mistaken test that forgets the pre-boot in flight.
DownNow(m) == engine[m] \in Down

\* Disjoint pools: the engine neither runs nor has a pre-boot pending.
MustBoot(m) == engine[m] \in Down /\ m \notin DOMAIN pending

\* The engine is booted on demand if it is down, after stopping what runs on
\* its GPUs; with sleep/wake swaps, swap_to_model() decides.  Without pools the
\* code compares with get_running_model(), the one engine on the shared GPUs.
Decide ==
    LET boot == IF config.arm = "pool" THEN MustBoot(Chosen) ELSE engine[Chosen] \in Down
    IN  /\ At("callback", "decide")
        /\ thread' = [thread EXCEPT !["callback"] =
               CASE config.arm = "sleep_wake" -> [@ EXCEPT !.pc = "swap"]
                 [] config.arm # "sleep_wake" /\ boot ->
                        [@ EXCEPT !.pc = "stop", !.todo = InTheWay(Chosen)]
                 [] OTHER -> [@ EXCEPT !.pc = "consume"]]
        /\ overlooked' = IF boot /\ Underway(Chosen) # {} /\ Chosen \notin DOMAIN pending
                         THEN overlooked \cup {Chosen} ELSE overlooked
        /\ UNCHANGED <<config, engine, adapter, boots, current, evicting, target>>

\* Stops one engine of the list, or goes on when it is empty: the eviction
\* before a boot, on demand or in the executor's thread.
StopOverlapping(t) ==
    /\ At(t, "stop")
    /\ \/ /\ thread[t].todo = {}
          /\ Goto(t, "start")
          /\ UNCHANGED engine
       \/ \E m \in thread[t].todo :
              /\ Set(m, "off")
              /\ thread' = [thread EXCEPT ![t].todo = @ \ {m}]
    /\ UNCHANGED <<config, adapter, boots, current, evicting, target, overlooked>>

StartOnDemand ==
    /\ At("callback", "start")
    /\ Start(Chosen)
    /\ Goto("callback", "consume")
    /\ UNCHANGED <<config, adapter, boots, current, evicting, target, overlooked>>

\* Consumption at need time, once per task: the first prefetch of the engine
\* and its pre-boot, which is no longer pending.
Consume ==
    LET mine == {b \in DOMAIN boots :
                    \/ boots[b].model = Chosen /\ boots[b].at = 0
                    \/ Chosen \in DOMAIN pending /\ pending[Chosen] = b}
    IN  /\ At("callback", "consume")
        /\ Goto("callback", "wait")
        /\ worker' = [worker EXCEPT !.consumed = TRUE]
        /\ IF worker.consumed THEN UNCHANGED <<boots, pending>>
           ELSE /\ boots' = [b \in DOMAIN boots |->
                                IF b \in mine THEN Used(boots[b]) ELSE boots[b]]
                /\ pending' = Without(Chosen)
        /\ UNCHANGED <<config, engine, plan, staged, stagedFor, transition, aggStarted,
                       current, evicting, target, overlooked>>

\* A mistaken wait that fails fast only on a crashed server.
AbandonedIfCrashed(m) == engine[m] = "failed" /\ Underway(m) = {}

\* The engine is down and nobody is bringing it up.
Abandoned(m) == engine[m] \in Down /\ Underway(m) = {}

\* wait_until_ready() returns when the engine serves, and raises when it is
\* abandoned: the trial is lost.
Wait ==
    /\ At("callback", "wait")
    /\ \/ engine[Chosen] = "ready" /\ Goto("callback", "flip")
       \/ Abandoned(Chosen) /\ Goto("callback", "lost")
    /\ UNCHANGED <<config, engine, adapter, boots, current, evicting, target,
                   overlooked>>

\* The worker client now reaches the engine of the task; with disjoint pools
\* through the proxy.
Flip ==
    /\ At("callback", "flip")
    /\ target' = Chosen
    /\ Goto("callback", IF config.arm = "pool" THEN "maintain" ELSE "serving")
    /\ UNCHANGED <<config, engine, adapter, boots, current, evicting, overlooked>>

-------------------------------------------------------------------------------
(* _pool_maintain_after_flip() and _schedule_pool_preboot().               *)

\* The engine of the next task: the other specialist in the blind ablation,
\* what the plan says otherwise; None outside real mode or without a plan.
NeededNext ==
    LET k == worker.task + 1
        others == Specialist \ {Chosen}
    IN  CASE ~Real -> None
          [] Real /\ config.blind -> IF others = {} THEN None ELSE CHOOSE m \in others : TRUE
          [] Real /\ ~config.blind /\ k \in DOMAIN plan -> ModelFor(plan[k])
          [] OTHER -> None

\* Engines that are pre-booted: all that are down when everything is kept
\* resident, the next one otherwise.
ToPreboot ==
    IF config.keepAll THEN IF Real THEN Specialist \ Running ELSE {}
    ELSE {NeededNext} \ ({None, Chosen} \cup Running)

\* A mistaken policy that keeps every engine the plan names anywhere.
IdleUnplanned == {m \in Running \ {Chosen} : \A k \in DOMAIN plan : ModelFor(plan[k]) # m}

\* Idle engines: neither current nor needed next, nor on the GPUs of an engine
\* that is about to be pre-booted, whose boot stops them.
Idle ==
    IF config.keepAll /\ Real THEN {}
    ELSE {m \in Running \ {Chosen, NeededNext} :
             NeededNext \notin Running \cup {None} => ~Overlap(m, NeededNext)}

\* Evicts what is idle, then stages and pre-boots: each engine without a
\* pending boot gets one, its resource named after the next task.
Maintain ==
    LET skipped == {m \in ToPreboot : m \in DOMAIN pending \/ Scheduled(m, worker.task)}
        new == ToPreboot \ skipped
        queue == SetToSeq(new)
        number(m) == Len(boots) + (CHOOSE i \in DOMAIN queue : queue[i] = m)
        after == [m \in DOMAIN pending \ Idle |-> pending[m]]
    IN  /\ At("callback", "maintain")
        /\ Goto("callback", "serving")
        /\ evicting' = evicting \cup Idle
        /\ staged' = staged \cup ToPreboot
        /\ boots' = boots \o [i \in DOMAIN queue |-> NewBoot(queue[i], worker.task)]
        /\ pending' = [m \in DOMAIN after \cup new |->
               IF m \in new THEN number(m) ELSE after[m]]
        /\ transition' = IF new = {} THEN transition ELSE Len(boots) + Cardinality(new)
        /\ overlooked' = overlooked \cup {m \in new : Underway(m) # {} \/ m \in evicting}
        /\ UNCHANGED <<config, engine, worker, plan, stagedFor, aggStarted, current, target>>

\* _pool_evict_async(): the thread stops its engines one after the other.
EvictOne(m) ==
    /\ m \in evicting
    /\ evicting' = evicting \ {m}
    /\ IF engine[m] \in Down THEN UNCHANGED engine ELSE Set(m, "evicted")
    /\ UNCHANGED <<config, thread, adapter, boots, current, target, overlooked>>

-------------------------------------------------------------------------------
(* swap_to_model(): sleep what is in the way, then wake or boot.           *)

\* The model a thread is bringing up.
Subject(t) == IF t = "callback" THEN Chosen ELSE boots[current].model

\* The processes are read once, before the sleeps.
SwapBegins(t) ==
    /\ At(t, "swap")
    /\ thread' = [thread EXCEPT ![t] =
           [pc |-> "sleep", alive |-> engine[Subject(t)] \notin Down,
            todo |-> InTheWay(Subject(t))]]
    /\ UNCHANGED <<config, engine, adapter, boots, current, evicting, target, overlooked>>

\* Outcomes of sleeping an engine: an awake one sleeps, or is stopped where
\* the sleep endpoint fails, as it does while the server is loading.
Sleeps(s) == CASE s = "ready" -> {"asleep", "off"}
               [] s = "loading" -> {"off"}
               [] OTHER -> {s}

SwapSleeps(t) ==
    /\ At(t, "sleep")
    /\ \/ /\ thread[t].todo = {}
          /\ Goto(t, "bring")
          /\ UNCHANGED engine
       \/ \E m \in thread[t].todo :
              /\ \E s \in Sleeps(engine[m]) : Set(m, s)
              /\ thread' = [thread EXCEPT ![t].todo = @ \ {m}]
    /\ UNCHANGED <<config, adapter, boots, current, evicting, target, overlooked>>

SwapBrings(t) ==
    /\ At(t, "bring")
    /\ CASE ~thread[t].alive -> Start(Subject(t))
         [] thread[t].alive /\ engine[Subject(t)] = "asleep" -> Set(Subject(t), "ready")
         [] OTHER -> UNCHANGED engine
    /\ Goto(t, "load")
    /\ UNCHANGED <<config, adapter, boots, current, evicting, target, overlooked>>

\* wait_until_serving() of the callback thread.
SwapServes ==
    /\ At("callback", "load")
    /\ \/ engine[Chosen] = "ready" /\ Goto("callback", "consume")
       \/ engine[Chosen] \in Down /\ Goto("callback", "lost")
    /\ UNCHANGED <<config, engine, adapter, boots, current, evicting, target, overlooked>>

-------------------------------------------------------------------------------
(* The executor's thread: ModelPrefetchExecutor._load_model().             *)

TakeBoot ==
    /\ At("executor", "idle") /\ current < Len(boots)
    /\ current' = current + 1
    /\ LET m == boots[current + 1].model
       IN  thread' = [thread EXCEPT !["executor"] =
               CASE config.arm = "pool" -> [@ EXCEPT !.pc = "stop",
                                                 !.todo = InTheWay(m)]
                 [] config.arm = "sleep_wake" -> [@ EXCEPT !.pc = "swap"]
                 [] OTHER -> [@ EXCEPT !.pc = "start"]]
    /\ UNCHANGED <<config, engine, adapter, boots, evicting, target, overlooked>>

StartBoot ==
    /\ At("executor", "start")
    /\ Start(Subject("executor"))
    /\ Goto("executor", "load")
    /\ UNCHANGED <<config, adapter, boots, current, evicting, target, overlooked>>

\* The load ends: a boot cancelled in the meantime is wasted, and its engine
\* stopped where pools are disjoint; one that was consumed stays used.
BootEnds ==
    LET b == boots[current]
        up == engine[b.model] = "ready"
    IN  /\ At("executor", "load") /\ engine[b.model] \in Down \cup {"ready"}
        /\ boots' = [boots EXCEPT ![current].status =
               CASE up /\ b.told -> "wasted"
                 [] b.status # "in_progress" /\ ~(up /\ b.told) -> b.status
                 [] b.status = "in_progress" /\ up /\ ~b.told -> "completed"
                 [] OTHER -> "failed"]
        /\ Goto("executor", IF up /\ b.told /\ config.arm = "pool" THEN "reap" ELSE "idle")
        /\ UNCHANGED <<config, engine, adapter, current, evicting, target, overlooked>>

ReapWasted ==
    /\ At("executor", "reap")
    /\ IF Subject("executor") \in Running
       THEN Set(Subject("executor"), "wasted") ELSE UNCHANGED engine
    /\ Goto("executor", "idle")
    /\ UNCHANGED <<config, adapter, boots, current, evicting, target, overlooked>>

-------------------------------------------------------------------------------
(* Requests and tools between the turns.                                   *)

\* The worker client sends its request to the target; the proxy relays the
\* answer of the engine, or an error when it is gone.
Ask ==
    /\ At("callback", "serving")
    /\ Goto("callback", "asked")
    /\ UNCHANGED <<config, engine, adapter, boots, current, evicting, target, overlooked>>

Answer ==
    /\ At("callback", "asked")
    /\ Goto("callback", "idle")
    /\ UNCHANGED <<config, engine, adapter, boots, current, evicting, target, overlooked>>

\* on_tool_start of run_ase: once per task, the page cache of the next
\* specialist is staged if the plan changes specialists there.
StageTransition ==
    LET k == worker.task
        next == ModelFor(PlannedAt(k + 1))
        stage == /\ k + 1 \in DOMAIN plan /\ next # ModelFor(PlannedAt(k))
                 /\ MayStage(next)
    IN  /\ At("callback", "idle") /\ Specialist # {} /\ Real
        /\ k > 0 /\ stagedFor < k
        /\ stagedFor' = k
        /\ staged' = IF stage THEN staged \cup {next} ELSE staged
        /\ transition' = IF stage THEN CacheStage ELSE transition
        /\ UNCHANGED <<config, engine, thread, worker, plan, pending, aggStarted, boots,
                       current, evicting, target, overlooked>>

\* on_tool_start of run_mace_ensemble: the aggregator starts while the tool
\* computes; a start that raises leaves the flag down.
EnsembleStarts ==
    /\ At("callback", "idle") /\ worker.task > 0 /\ config.mode \notin {"baseline", "observe_only"}
    /\ config.aggregator # None /\ ~aggStarted /\ config.aggregator \notin Running
    /\ Start(config.aggregator)
    /\ aggStarted' = TRUE
    /\ UNCHANGED <<config, thread, worker, plan, staged, stagedFor, transition, pending, boots,
                   current, evicting, target, overlooked>>

\* on_chain_start of the AggregatorAgent, after the last task.
AggregatorAgent ==
    /\ At("callback", "idle") /\ worker.task = NTasks /\ config.aggregator # None
    /\ IF config.aggregator \in Running THEN UNCHANGED engine ELSE Start(config.aggregator)
    /\ Goto("callback", "aggregate")
    /\ UNCHANGED <<config, adapter, boots, current, evicting, target, overlooked>>

AggregatorReady ==
    /\ At("callback", "aggregate")
    /\ \/ engine[config.aggregator] = "ready" /\ Goto("callback", "done")
       \/ engine[config.aggregator] \in Down /\ Goto("callback", "unserved")
    /\ UNCHANGED <<config, engine, adapter, boots, current, evicting, target, overlooked>>

-------------------------------------------------------------------------------
Init ==
    /\ config \in Configs
    /\ engine = [m \in Model |-> IF m = Planner THEN "ready" ELSE "off"]
    /\ thread = [t \in {"callback", "executor"} |->
                    [pc |-> "idle", todo |-> {}, alive |-> FALSE]]
    /\ worker = [task |-> 0, turn |-> 0, marker |-> None, consumed |-> FALSE]
    /\ plan = None
    /\ staged = {} /\ stagedFor = 0 /\ transition = 0
    /\ pending = [m \in {} |-> 0] /\ aggStarted = FALSE
    /\ boots = <<>> /\ current = 0 /\ evicting = {}
    /\ target = None /\ overlooked = {}

Callback ==
    \/ \E p \in Plans, extracted \in BOOLEAN : PlanEnds(p, extracted)
    \/ \E x \in Specialist \cup {None} : RouteTask(x)
    \/ NextTurn \/ Decide \/ StopOverlapping("callback") \/ StartOnDemand
    \/ SwapBegins("callback") \/ SwapSleeps("callback") \/ SwapBrings("callback")
    \/ SwapServes \/ Consume \/ Wait \/ Flip \/ Maintain
    \/ Ask \/ Answer \/ StageTransition \/ EnsembleStarts
    \/ AggregatorAgent \/ AggregatorReady

Executor ==
    \/ TakeBoot \/ StopOverlapping("executor") \/ StartBoot
    \/ SwapBegins("executor") \/ SwapSleeps("executor") \/ SwapBrings("executor")
    \/ BootEnds \/ ReapWasted

Next ==
    \/ Callback \/ Executor
    \/ \E m \in Model : EvictOne(m) \/ EngineReady(m) \/ EngineFails(m)

Spec == Init /\ [][Next]_vars

\* Threads run; a boot ends, one way or the other.
FairSpec ==
    /\ Spec
    /\ WF_vars(Callback) /\ WF_vars(Executor)
    /\ \A m \in Model : WF_vars(EvictOne(m)) /\ WF_vars(EngineReady(m))

-------------------------------------------------------------------------------
(* Properties.                                                             *)

Pc == {"idle", "decide", "stop", "start", "swap", "sleep", "bring", "load", "consume",
       "wait", "flip", "maintain", "serving", "asked", "aggregate", "reap", "done", "lost",
       "unserved"}

TypeOK ==
    /\ engine \in [Model -> Down \cup Vram \cup {"asleep"}]
    /\ \A t \in DOMAIN thread : /\ thread[t].pc \in Pc /\ thread[t].alive \in BOOLEAN
                                /\ thread[t].todo \subseteq Model
    /\ worker.task \in 0..NTasks /\ worker.turn \in 0..NTurns
    /\ worker.marker \in Model \cup {None} /\ worker.consumed \in BOOLEAN
    /\ plan \in Plans \cup {None, <<>>}
    /\ staged \subseteq Model /\ stagedFor \in 0..NTasks
    /\ transition \in {CacheStage, 0} \cup DOMAIN boots
    /\ DOMAIN pending \subseteq Model /\ \A m \in DOMAIN pending : pending[m] \in DOMAIN boots
    /\ aggStarted \in BOOLEAN /\ current \in 0..Len(boots)
    /\ \A b \in DOMAIN boots : boots[b].status \in
            {"in_progress", "completed", "used", "wasted", "failed"}
    /\ evicting \subseteq Model /\ target \in Model \cup {None}
    /\ overlooked \subseteq Model

\* config.py:114-121, "specialists live on DISJOINT GPU pools": the worker
\* engines share no GPU with each other, none of them is the planner's, and an
\* aggregator has GPUs of its own.  A worker engine may need the planner's GPUs.
DisjointPools ==
    \A c \in Configs :
        /\ Planner \notin c.specialists \cup {c.worker}
        /\ \A m, n \in c.specialists \cup {c.worker} : ~Overlap(m, n)
        /\ c.aggregator # None => \A m \in Model : ~Overlap(c.aggregator, m)

\* config.py:90-93: the aggregator is a "distinct, co-resident" engine, and only
\* the ensemble workload, whose pools are not disjoint, has one
\* (run_eval_q1_q4.py:365-373; :403 is the workload with disjoint pools).
\* Evictions take seconds and tasks minutes.
SettledPools ==
    /\ PromptStops /\ DisjointPools
    /\ \A c \in Configs : c.aggregator # None =>
            c.arm # "pool" /\ c.aggregator \notin c.specialists \cup {c.worker}

\* sleep_wake.py:12-14 and model_prefetch.py:191-193: two engines that share a
\* GPU never hold its memory together, whichever threads bring them up.
VramExclusive ==
    \A m, n \in Model : Overlap(m, n) => ~(engine[m] \in Vram /\ engine[n] \in Vram)

\* chemgraph.py:440-452: an engine is booted twice at once only where a boot
\* under way was missing from _pool_pending_boot: the first prefetch of the
\* workflow, or one whose entry a divergence removed.
PendingBootsRespected == \A m \in Model : engine[m] = "raced" => m \in overlooked

\* No wait for nobody: a workflow is only lost to a failed boot, a double boot
\* or the end of a pre-boot that had been cancelled, never to an engine that
\* its own thread or the eviction policy took away.
LostForAReason ==
    \A m \in Model :
        \/ At("callback", "lost") /\ m = Chosen
        \/ At("callback", "unserved") /\ m = config.aggregator
        => engine[m] \in {"failed", "raced", "wasted"} \/ m \in overlooked

\* specialist_proxy.py:8-11: a request in flight goes to the engine of the
\* task's specialist, and that engine serves, unless a boot of it was cancelled
\* (the executor stops it when it is up) or overlooked.
RequestsReachSpecialist ==
    At("callback", "asked") =>
        /\ target = Chosen
        /\ \/ engine[target] = "ready" \/ target \in overlooked
           \/ \E b \in DOMAIN boots : boots[b].model = target /\ boots[b].told

\* chemgraph.py:190-193, "idle residency must be justified": when the pools have
\* been maintained, an engine that is up serves the task, is needed next, is
\* being evicted or booted, or is in the way of a boot that will stop it.
ResidencyJustified ==
    [][At("callback", "maintain") /\ thread'["callback"].pc = "serving"
       /\ ~(config.keepAll /\ Real) =>
          \A m \in Running :
              \/ m \in {Chosen, NeededNext} \cup evicting' \/ Underway(m)' # {}
              \/ \E n \in Model : Overlap(m, n) /\ Underway(n)' # {}]_vars

\* Every task that is routed is served or the workflow ends.
TasksServed ==
    At("callback", "decide") ~> thread["callback"].pc \in {"serving", "lost"}

\* chemgraph.py:445-450: "booting again here races two engines onto the same
\* GPUs/port and kills both": no engine is started while it is up.
BootedOnce == \A m \in Model : engine[m] # "raced"

\* The bookkeeping of boots (chemgraph.py:423-565) holds together: an engine is
\* booted beside another boot, a workflow lost, or a request sent to an engine
\* that does not serve only after a boot the callback lost sight of, failed or
\* had cancelled.
BootsAccounted ==
    TypeOK /\ PendingBootsRespected /\ LostForAReason /\ RequestsReachSpecialist
===============================================================================
