--------------------------- MODULE PrefetchScheduler ---------------------------
(***************************************************************************)
(* runtime/prefetch/scheduler.py with the executors it drives              *)
(* (CompositeExecutor routing to ModelPrefetchExecutor,                    *)
(* SimulatedPrefetchExecutor, FileStagingExecutor,                         *)
(* ModelCacheStagingExecutor and MacePrefetchExecutor).                    *)
(*                                                                         *)
(* Four kinds of thread touch a PrefetchTask:                              *)
(*   - Caller: an adapter callback inside schedule(), cancel_all_pending() *)
(*     or on_resource_consumed();                                          *)
(*   - the executor's pool thread that performs the load;                  *)
(*   - the waiter thread schedule() spawns to report the end of the load.  *)
(* task.status is read and written by all of them; _lock only covers the   *)
(* two dictionaries.  An action is one access to shared state together     *)
(* with the local work around it, so that every interleaving the threads   *)
(* can produce is a behaviour.                                             *)
(*                                                                         *)
(* Tasks are numbered in the order in which they are registered in         *)
(* _tasks, which is the order cancel_all_pending() visits them.            *)
(***************************************************************************)
EXTENDS Integers, FiniteSets, PrefetchPolicy

CONSTANTS
    Caller,       \* threads of the adapters
    Resource,     \* resource ids
    Checkpoint,   \* checkpoint ids
    MaxTasks,     \* bound on the number of PrefetchTasks of a behaviour
    Config,       \* the RuntimeConfig fields the policy reads
    Info,         \* Info[r]: the ResourceSpec of r, with the field "source":
                  \* path set (file) or shards found (model cache)
    Remaining,    \* estimates of the remaining compute a caller may pass
    Executors,    \* CompositeExecutor._executors: resource type -> executor
    Composite,    \* FALSE: the scheduler drives the simulated executor itself
    PoolSize,     \* PoolSize[k]: max_workers of executor k's thread pool
    SlowLoads,    \* loads may outlast the waiter's two-hour deadline
    None          \* "no resource", "no checkpoint"

Kinds == {"model", "simulated", "file", "cache", "mace"}

ASSUME ConstantsOK ==
    /\ MaxTasks \in Nat
    /\ None \notin Resource /\ None \notin Checkpoint
    /\ \A x \in DOMAIN Executors : Executors[x] \in Kinds
    /\ PoolSize \in [Kinds -> Nat \ {0}]
    /\ Composite \in BOOLEAN /\ SlowLoads \in BOOLEAN

Task == 1..MaxTasks

Status == {"none", "pending", "in_progress", "completed",
           "cancelled", "failed", "wasted", "used"}

\* PrefetchStatus values under which a load is still expected to deliver.
Unsettled == {"pending", "in_progress"}

\* Where a caller's thread is inside the method it is executing.
PC == {"idle", "register", "route", "begin", "submit", "track",
       "visit", "sample", "cancel", "annul", "mark", "judge", "use"}

\* A pool future, with the position of its load function.
\* "raised": it ended with an exception, "dropped": it was withdrawn.
Future == {"none", "queued", "loading", "check", "write", "done", "raised", "dropped"}

VARIABLES
    \* PrefetchScheduler
    ntasks,       \* len(_tasks)
    taskOf,       \* _resource_to_task; 0 when the resource has no task
    \* PrefetchTask
    status, res, ckpt,
    \* Callers: local variables and program counter
    call,
    \* Executors
    routed,       \* tasks in CompositeExecutor._routing
    future,       \* state of each task's pool future
    tracked,      \* tasks in the executor's _futures
    told,         \* _cancelled_tasks (model), stop events set (cache)
    verdict,      \* the status a load is about to give its task
    \* Waiter threads and the trace
    waiter,
    report,       \* status carried by the prefetch_completed event
    ledger,       \* other events emitted for the task
    landed        \* history: cancellations that reached an unfinished load

taskVars == <<status, res, ckpt>>
schedVars == <<ntasks, taskOf>>
execVars == <<routed, future, tracked, told, verdict>>
traceVars == <<waiter, report, ledger, landed>>
vars == <<schedVars, taskVars, call, execVars, traceVars>>

-------------------------------------------------------------------------------
(* Executor selection: CompositeExecutor._route.                           *)

Kind(r) == IF Info[r].type \in DOMAIN Executors
           THEN Executors[Info[r].type]
           ELSE "simulated"

KindOf(t) == Kind(res[t])

\* A composite executor knows the task only after its start() has routed it.
Routed(t) == Composite => t \in routed

\* start() of the file and cache executors fails the task at once when there
\* is nothing to read.
Startable(r) == Kind(r) \in {"file", "cache"} => Info[r].source

-------------------------------------------------------------------------------
(* Caller threads.                                                         *)

\* The local variables of a call: the arguments, the task at hand, the tasks
\* still to visit and was_completed.
Frame(p, r, k, t, todo) == [pc |-> p, res |-> r, ckpt |-> k,
                            task |-> t, todo |-> todo, completed |-> FALSE]

Idle == Frame("idle", None, None, 0, {})

At(c, p) == call[c].pc = p

Goto(c, p) == call' = [call EXCEPT ![c].pc = p]

Return(c) == call' = [call EXCEPT ![c] = Idle]

SetStatus(t, s) == status' = [status EXCEPT ![t] = s]

Note(t, e) == ledger' = [ledger EXCEPT ![t] = @ \cup {e}]

\* Callers that hold a task not registered yet; they count against MaxTasks.
Registering == {c \in Caller : At(c, "register")}

\* A mistaken deduplication that lets a task in progress be started again.
DuplicateOnlyIfLoaded(r) == taskOf[r] # 0 /\ status[taskOf[r]] = "completed"

\* The resource's latest task is in flight or loaded and not yet used.
Duplicate(r) ==
    taskOf[r] # 0 /\ status[taskOf[r]] \in {"in_progress", "completed"}

\* schedule(), up to the creation of the task: the deduplication under _lock,
\* then the policy.  A call that is skipped changes nothing.
ScheduleCall(c, r, k) ==
    /\ At(c, "idle")
    /\ Config.mode \notin {"baseline", "observe_only"}
    /\ ntasks + Cardinality(Registering) < MaxTasks
    /\ ~Duplicate(r)
    /\ \E rem \in Remaining : ShouldPrefetch(Config, Info[r], rem)
    /\ call' = [call EXCEPT ![c] = Frame("register", r, k, 0, {})]
    /\ UNCHANGED <<schedVars, taskVars, execVars, traceVars>>

\* The new task enters _tasks and _resource_to_task under _lock.
Register(c) ==
    /\ At(c, "register")
    /\ ntasks < MaxTasks
    /\ LET t == ntasks + 1
           r == call[c].res
       IN  /\ ntasks' = t
           /\ taskOf' = [taskOf EXCEPT ![r] = t]
           /\ SetStatus(t, "pending")
           /\ res' = [res EXCEPT ![t] = r]
           /\ ckpt' = [ckpt EXCEPT ![t] = call[c].ckpt]
           /\ call' = [call EXCEPT ![c].task = t,
                          ![c].pc = IF Composite THEN "route" ELSE "begin"]
    /\ UNCHANGED <<execVars, traceVars>>

\* CompositeExecutor.start records the route before delegating.
Route(c) ==
    /\ At(c, "route")
    /\ routed' = routed \cup {call[c].task}
    /\ Goto(c, "begin")
    /\ UNCHANGED <<schedVars, taskVars, future, tracked, told, verdict, traceVars>>

\* The executor's start(): the status is assigned whatever it has become
\* since the task was registered.
Begin(c) ==
    /\ At(c, "begin")
    /\ LET ok == Startable(call[c].res)
       IN  /\ SetStatus(call[c].task, IF ok THEN "in_progress" ELSE "failed")
           /\ Goto(c, IF ok THEN "submit" ELSE "track")
    /\ UNCHANGED <<schedVars, res, ckpt, execVars, traceVars>>

\* ThreadPoolExecutor.submit: from here the load can run.
Submit(c) ==
    /\ At(c, "submit")
    /\ future' = [future EXCEPT ![call[c].task] = "queued"]
    /\ Goto(c, "track")
    /\ UNCHANGED <<schedVars, taskVars, routed, tracked, told, verdict, traceVars>>

\* The future is stored in _futures; prefetch_started; the waiter is spawned.
Track(c) ==
    /\ At(c, "track")
    /\ LET t == call[c].task
       IN  /\ tracked' = IF future[t] = "none" THEN tracked ELSE tracked \cup {t}
           /\ waiter' = [waiter EXCEPT ![t] = "polling"]
           /\ Note(t, "started")
    /\ Return(c)
    /\ UNCHANGED <<schedVars, taskVars, routed, future, told, verdict, report, landed>>

-------------------------------------------------------------------------------
\* Statuses of the tasks that are cancelled.
Cancellable == {"pending", "in_progress", "completed"}

\* cancel_all_pending(): snapshot of the tasks under _lock, of which only
\* those of the checkpoint matter; without any the call changes nothing.
CancelCall(c, k) ==
    LET mine == {t \in 1..ntasks : ckpt[t] = k}
    IN  /\ At(c, "idle")
        /\ mine # {}
        /\ call' = [call EXCEPT ![c] = Frame("visit", None, None, 0, mine)]
        /\ UNCHANGED <<schedVars, taskVars, execVars, traceVars>>

\* Proceed to the next task of the snapshot, or return.
Advance(c, t) ==
    LET rest == call[c].todo \ {t}
    IN  call' = [call EXCEPT ![c] =
            IF rest = {} THEN Idle ELSE Frame("visit", None, None, 0, rest)]

\* The loop body's first read of task.status.
Visit(c) ==
    /\ At(c, "visit")
    /\ \E t \in call[c].todo :
        /\ \A u \in call[c].todo : t <= u
        /\ IF status[t] \in Cancellable
           THEN call' = [call EXCEPT ![c].task = t, ![c].pc = "sample"]
           ELSE Advance(c, t)
    /\ UNCHANGED <<schedVars, taskVars, execVars, traceVars>>

\* was_completed = task.status == COMPLETED, a second read.
Sample(c) ==
    /\ At(c, "sample")
    /\ call' = [call EXCEPT ![c].pc = "cancel",
                            ![c].completed = (status[call[c].task] = "completed")]
    /\ UNCHANGED <<schedVars, taskVars, execVars, traceVars>>

\* executor.cancel(): the model executor records the intent only; the cache
\* executor sets the stop event if it has one; the others try to withdraw a
\* future that has not begun.  A task without a route is left alone.
ExecCancel(c) ==
    /\ At(c, "cancel")
    /\ LET t == call[c].task
           withdraw == /\ Routed(t)
                       /\ KindOf(t) \in {"simulated", "file", "mace"}
                       /\ t \in tracked
                       /\ future[t] = "queued"
           tell == /\ Routed(t)
                   /\ \/ KindOf(t) = "model"
                      \/ KindOf(t) = "cache" /\ t \in tracked
       IN  /\ future' = IF withdraw THEN [future EXCEPT ![t] = "dropped"] ELSE future
           /\ told' = IF tell THEN told \cup {t} ELSE told
           /\ landed' = IF tell /\ KindOf(t) = "model"
                               /\ future[t] \in {"queued", "loading"}
                        THEN landed \cup {t} ELSE landed
           /\ Goto(c, IF Routed(t) /\ KindOf(t) # "model" THEN "annul" ELSE "mark")
    /\ UNCHANGED <<schedVars, taskVars, routed, tracked, verdict, waiter, report, ledger>>

\* The executors other than the model executor then assign CANCELLED,
\* without looking at the status.
Annul(c) ==
    /\ At(c, "annul")
    /\ LET t == call[c].task
       IN  /\ SetStatus(t, "cancelled")
           /\ landed' = IF future[t] \in {"queued", "loading", "dropped"}
                        THEN landed \cup {t} ELSE landed
    /\ Goto(c, "mark")
    /\ UNCHANGED <<schedVars, res, ckpt, execVars, waiter, report, ledger>>

\* A task seen COMPLETED becomes WASTED; prefetch_cancelled says which.
Mark(c) ==
    /\ At(c, "mark")
    /\ LET t == call[c].task
       IN  /\ IF call[c].completed
              THEN SetStatus(t, "wasted") /\ Note(t, "cancelled_wasted")
              ELSE UNCHANGED status /\ Note(t, "cancelled")
           /\ Advance(c, t)
    /\ UNCHANGED <<schedVars, res, ckpt, execVars, waiter, report, landed>>

-------------------------------------------------------------------------------
\* Statuses that count as "no_prefetch" when the resource is consumed.
NoPrefetch == {"cancelled", "wasted"}

\* on_resource_consumed(): the lookup under _lock.  Without a task it only
\* reports "no_prefetch".
ConsumeCall(c, r) ==
    /\ At(c, "idle")
    /\ taskOf[r] # 0
    /\ call' = [call EXCEPT ![c] = Frame("judge", None, None, taskOf[r], {})]
    /\ UNCHANGED <<schedVars, taskVars, execVars, traceVars>>

\* The status test, outside _lock.
Judge(c) ==
    /\ At(c, "judge")
    /\ IF status[call[c].task] \in NoPrefetch
       THEN Return(c)
       ELSE Goto(c, "use")
    /\ UNCHANGED <<schedVars, taskVars, execVars, traceVars>>

\* consumed_at and USED are assigned; resource_consumed is emitted.  The
\* consumer is late when the load has not ended: benefit_s() is then 0.
Use(c) ==
    /\ At(c, "use")
    /\ LET t == call[c].task
       IN  /\ SetStatus(t, "used")
           /\ Note(t, IF future[t] \in {"queued", "loading", "check", "write"}
                      THEN "used_late" ELSE "used")
    /\ Return(c)
    /\ UNCHANGED <<schedVars, res, ckpt, execVars, waiter, report, landed>>

CallerStep(c) ==
    \/ Register(c) \/ Route(c) \/ Begin(c) \/ Submit(c) \/ Track(c)
    \/ Visit(c) \/ Sample(c) \/ ExecCancel(c) \/ Annul(c) \/ Mark(c)
    \/ Judge(c) \/ Use(c)

-------------------------------------------------------------------------------
(* Pool threads: _load_model, _noop, _stage, _stage_all, _load_mace.       *)

Busy(k) == {t \in 1..ntasks :
                future[t] \in {"loading", "check", "write"} /\ KindOf(t) = k}

\* A pool thread takes the future, which can no longer be withdrawn.
LoadBegins(t) ==
    /\ future[t] = "queued"
    /\ Cardinality(Busy(KindOf(t))) < PoolSize[KindOf(t)]
    /\ future' = [future EXCEPT ![t] = "loading"]
    /\ UNCHANGED <<schedVars, taskVars, call, routed, tracked, told, verdict, traceVars>>

\* A mistaken end of load that does not look at the cancellations.
EndVerdictUnheeding(t) == "completed"

\* The outcome of a load that succeeds: a cancelled model load is WASTED, a
\* stopped cache read CANCELLED.
EndVerdict(t) == IF t \notin told THEN "completed"
                 ELSE IF KindOf(t) = "model" THEN "wasted" ELSE "cancelled"

\* The load is done; WASTED is assigned without a test of the status.
LoadEnds(t) ==
    /\ future[t] = "loading"
    /\ verdict' = [verdict EXCEPT ![t] = EndVerdict(t)]
    /\ future' = [future EXCEPT ![t] =
                     IF EndVerdict(t) = "wasted" THEN "write" ELSE "check"]
    /\ UNCHANGED <<schedVars, taskVars, call, routed, tracked, told, traceVars>>

\* Mistaken outcomes of a failed load: the task is put back, or left alone.
FailVerdictRetry == "pending"
FailVerdictSilent == "in_progress"

FailVerdict == "failed"

\* The load raises: file and mace loads assign FAILED without a test.
LoadFails(t) ==
    /\ future[t] = "loading"
    /\ KindOf(t) # "simulated"
    /\ verdict' = [verdict EXCEPT ![t] = FailVerdict]
    /\ future' = [future EXCEPT ![t] =
                     IF KindOf(t) \in {"file", "mace"} THEN "write" ELSE "check"]
    /\ UNCHANGED <<schedVars, taskVars, call, routed, tracked, told, traceVars>>

\* File staging creates its scratch directory outside the try block: when that
\* fails the future raises and the task keeps its status.
LoadRaises(t) ==
    /\ future[t] = "loading"
    /\ KindOf(t) = "file"
    /\ future' = [future EXCEPT ![t] = "raised"]
    /\ UNCHANGED <<schedVars, taskVars, call, routed, tracked, told, verdict, traceVars>>

\* A mistaken load that assigns its outcome whatever the status has become.
MaySettleAlways(t) == TRUE

\* May the load settle a task of this status?
MaySettle(t) ==
    IF KindOf(t) = "mace" THEN status[t] # "cancelled" ELSE status[t] = "in_progress"

\* The test of the status and, in a later step, its assignment: nothing keeps
\* another thread from writing the status between the two.
Check(t) ==
    /\ future[t] = "check"
    /\ future' = [future EXCEPT ![t] = IF MaySettle(t) THEN "write" ELSE "done"]
    /\ verdict' = [verdict EXCEPT ![t] = IF MaySettle(t) THEN @ ELSE "none"]
    /\ UNCHANGED <<schedVars, taskVars, call, routed, tracked, told, traceVars>>

Write(t) ==
    /\ future[t] = "write"
    /\ SetStatus(t, verdict[t])
    /\ future' = [future EXCEPT ![t] = "done"]
    /\ verdict' = [verdict EXCEPT ![t] = "none"]
    /\ UNCHANGED <<schedVars, res, ckpt, call, routed, tracked, told, traceVars>>

Pool(t) == \/ LoadBegins(t) \/ LoadEnds(t) \/ LoadFails(t) \/ LoadRaises(t)
           \/ Check(t) \/ Write(t)

-------------------------------------------------------------------------------
(* Waiter threads: _wait_for_completion.                                   *)

IsComplete(t) == IF t \in tracked THEN future[t] \in {"done", "raised", "dropped"}
                                  ELSE status[t] \notin Unsettled

\* Mistaken tests: everything is reported, or successes only.
ReportableAlways(t) == TRUE
ReportableCompleted(t) == status[t] = "completed"

\* prefetch_completed is only emitted for a task that is settled.
Reportable(t) == status[t] \notin Unsettled

\* The poll ends: the load is over, or its two hours are.
StopPolling(t) ==
    /\ waiter[t] = "polling"
    /\ IsComplete(t) \/ (SlowLoads /\ KindOf(t) # "simulated")
    /\ waiter' = [waiter EXCEPT ![t] =
                     IF Reportable(t) THEN "reporting" ELSE "done"]
    /\ UNCHANGED <<schedVars, taskVars, call, execVars, report, ledger, landed>>

\* get_result() and prefetch_completed.  Only the simulated executor lets the
\* CancelledError of a withdrawn future through, which turns the task into
\* FAILED.
Report(t) ==
    LET raised == KindOf(t) = "simulated" /\ future[t] = "dropped"
        final == IF raised THEN "failed" ELSE status[t]
    IN  /\ waiter[t] = "reporting"
        /\ SetStatus(t, final)
        /\ report' = [report EXCEPT ![t] = final]
        /\ waiter' = [waiter EXCEPT ![t] = "done"]
        /\ UNCHANGED <<schedVars, res, ckpt, call, execVars, ledger, landed>>

Waiter(t) == StopPolling(t) \/ Report(t)

-------------------------------------------------------------------------------
Init ==
    /\ ntasks = 0
    /\ taskOf = [r \in Resource |-> 0]
    /\ status = [t \in Task |-> "none"]
    /\ res = [t \in Task |-> None]
    /\ ckpt = [t \in Task |-> None]
    /\ call = [c \in Caller |-> Idle]
    /\ routed = {} /\ tracked = {} /\ told = {} /\ landed = {}
    /\ future = [t \in Task |-> "none"]
    /\ verdict = [t \in Task |-> "none"]
    /\ waiter = [t \in Task |-> "none"]
    /\ report = [t \in Task |-> "none"]
    /\ ledger = [t \in Task |-> {}]

Next ==
    \/ \E c \in Caller :
        \/ \E r \in Resource, k \in Checkpoint : ScheduleCall(c, r, k)
        \/ \E k \in Checkpoint : CancelCall(c, k)
        \/ \E r \in Resource : ConsumeCall(c, r)
        \/ CallerStep(c)
    \/ \E t \in Task : Pool(t) \/ Waiter(t)

Spec == Init /\ [][Next]_vars

\* Every thread that has begun something keeps running, and every load ends;
\* nothing obliges an adapter to call.
Fairness ==
    /\ \A c \in Caller : WF_vars(CallerStep(c))
    /\ \A t \in Task : WF_vars(Pool(t)) /\ WF_vars(Waiter(t))

FairSpec == Spec /\ Fairness

-------------------------------------------------------------------------------
(* Properties.                                                             *)

CallRecord ==
    [pc : PC, res : Resource \cup {None}, ckpt : Checkpoint \cup {None},
     task : 0..MaxTasks, todo : SUBSET Task, completed : BOOLEAN]

TypeOK ==
    /\ ntasks \in 0..MaxTasks
    /\ taskOf \in [Resource -> 0..MaxTasks]
    /\ status \in [Task -> Status]
    /\ res \in [Task -> Resource \cup {None}]
    /\ ckpt \in [Task -> Checkpoint \cup {None}]
    /\ call \in [Caller -> CallRecord]
    /\ routed \subseteq Task /\ tracked \subseteq Task
    /\ told \subseteq Task /\ landed \subseteq Task
    /\ future \in [Task -> Future]
    /\ verdict \in [Task -> {"none", "completed", "failed", "wasted", "cancelled"}]
    /\ waiter \in [Task -> {"none", "polling", "reporting", "done"}]
    /\ report \in [Task -> Status]
    /\ ledger \in [Task -> SUBSET 
                    {"started", "used", "used_late", "cancelled", "cancelled_wasted"}]

(* The parts of the inductive invariant.                                   *)

\* A caller that works on a task works on a registered one.
TaskInHand ==
    /\ \A r \in Resource : taskOf[r] \in 0..ntasks
    /\ \A c \in Caller :
        /\ call[c].pc \notin {"idle", "register", "visit"} => call[c].task \in 1..ntasks
        /\ call[c].todo \subseteq 1..ntasks

\* Nothing happens to a task before it is registered.
Fresh == \A t \in Task : t > ntasks =>
            status[t] = "none" /\ future[t] = "none" /\ waiter[t] = "none"

\* A task being started has no future and no waiter yet, and one starter.
Starting == {"route", "begin", "submit", "track"}

Unstarted ==
    /\ \A c \in Caller : call[c].pc \in Starting =>
        /\ call[c].pc # "track" => future[call[c].task] = "none"
        /\ waiter[call[c].task] = "none"
    /\ \A c, d \in Caller :
        c # d /\ call[c].pc \in Starting /\ call[d].pc \in Starting =>
            call[c].task # call[d].task

\* start() leaves PENDING behind before the load is submitted.
Begun ==
    /\ \A c \in Caller : call[c].pc = "submit" => status[call[c].task] # "pending"
    /\ \A t \in Task : future[t] # "none" => status[t] # "pending"

\* A load that is about to assign a status has decided on a settled one.
Decided == \A t \in Task : future[t] \in {"check", "write"} =>
              verdict[t] \in {"completed", "failed", "wasted", "cancelled"}

\* The waiter reports settled tasks only.
ReportingSettled == \A t \in Task : waiter[t] = "reporting" => status[t] \notin Unsettled

\* When a load function has returned, its task's status is final in the sense
\* the waiter relies on (scheduler.py:135-140): neither PENDING nor
\* IN_PROGRESS, whichever of caller, load and waiter wrote it last.
SettledWhenDone == \A t \in Task : future[t] = "done" => status[t] \notin Unsettled

\* prefetch_completed never carries a status of an unfinished prefetch, even
\* though the waiter tests the status and reads it again for the event.
ReportIsFinal == \A t \in Task : report[t] \notin Unsettled

IInv ==
    /\ TypeOK /\ TaskInHand /\ Fresh /\ Unstarted /\ Begun /\ Decided
    /\ SettledWhenDone /\ ReportingSettled /\ ReportIsFinal

\* The deduplication of schedule() (scheduler.py:76-86): at most one task per
\* resource is pending or in progress.
OneInFlight ==
    \A t, u \in 1..ntasks :
        t # u /\ res[t] = res[u] =>
            ~(status[t] \in Unsettled /\ status[u] \in Unsettled)

\* The accounting of the traces: no prefetch is both credited to a consumer
\* that found it loaded (resource_consumed "used") and charged as waste
\* (prefetch_cancelled with wasted = True).
UsedXorWasted == \A t \in Task : ~({"used", "cancelled_wasted"} \subseteq ledger[t])

\* A cancellation that reaches an executor while the load is queued or running
\* is never lost: the load does not come back as COMPLETED, which
\* on_resource_consumed() would hand to a consumer.
LandedCancelSticks == \A t \in landed : status[t] # "completed"

\* A prefetch that prefetch_cancelled charged as waste stays WASTED: no late
\* load, waiter or consumer gives it another status, so task and trace agree.
WasteIsFinal == \A t \in Task : "cancelled_wasted" \in ledger[t] => status[t] = "wasted"

\* What was revoked stays revoked, in the status that on_resource_consumed()
\* tests and in the trace, for any order of cancellation, load, waiter and
\* consumer (scheduler.py:160-220).
RevokedForGood == UsedXorWasted /\ WasteIsFinal /\ LandedCancelSticks

\* The scheduler as its serial caller sees it (ResourceSlots): the latest task
\* of a resource owns its slot.
slotOf == [r \in Resource |->
             CASE taskOf[r] = 0 -> "empty"
               [] taskOf[r] # 0 /\ status[taskOf[r]] \in Unsettled -> "claimed"
               [] taskOf[r] # 0 /\ status[taskOf[r]] = "completed" -> "ready"
               [] OTHER -> "empty"]

Slots == INSTANCE ResourceSlots WITH owner <- taskOf, slot <- slotOf

\* Refinement: for an adapter that calls from one thread, schedule(),
\* cancel_all_pending(), on_resource_consumed() and the loads together keep
\* the slot contract.
SlotContract == Slots!Spec

\* Every prefetch that was registered is eventually reported by a
\* prefetch_completed event, whatever it was cancelled or consumed in between
\* (_wait_for_completion, scheduler.py:126-154).  A load that ends without its
\* load function returning is the exception: one that raised, or was withdrawn
\* from the pool, may still be IN_PROGRESS when the waiter looks.
EveryTaskReported ==
    \A t \in Task : (t <= ntasks) ~>
        (report[t] # "none" \/ future[t] \in {"raised", "dropped"})

===============================================================================
