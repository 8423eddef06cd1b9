------------------------------- MODULE MaceCache -------------------------------
(***************************************************************************)
(* prefetch/mace_prefetch.py: calculators are loaded ahead by the one      *)
(* thread of MacePrefetchExecutor into _MACE_CACHE, and taken out of it by *)
(* the tools that need them (get_cached_mace_calculator), which wait for a *)
(* load of their key under way rather than load a second time.             *)
(*                                                                         *)
(* A tool that gets nothing loads its calculator itself (external code).   *)
(***************************************************************************)
EXTENDS TaskCalls

CONSTANTS
    Key,        \* (calculator_type, model) pairs
    KeyOf,      \* KeyOf[t]: the key of task t
    Consumer,   \* threads that run tools
    None

VARIABLES
    load,      \* _load_mace of each task
    cache,     \* _MACE_CACHE: key -> the task that loaded the calculator
    inFlight,  \* _MACE_PENDING: key -> the task whose event it is
    tool,      \* per consumer: what it does, for which key, the event it waits for
    taken      \* history: the consumers that got the calculator of a task

vars == <<callVars, load, cache, inFlight, tool, taken>>

\* A load the executor's only thread is at.
Pending(t) == load[t] \in {"loading", "keeping", "setting", "dropping", "raising"}

\* _CACHE_LOCK is held.
Locked == \E t \in Task : load[t] = "keeping"

-------------------------------------------------------------------------------
(* MacePrefetchExecutor, called by the scheduler.                          *)

\* start(): the load is submitted, then its future filed.
Begin(t) ==
    \/ /\ Starts(t, "in_progress")
       /\ load' = [load EXCEPT ![t] = "queued"]
       /\ UNCHANGED <<cache, inFlight, tool, taken>>
    \/ Files(t) /\ UNCHANGED <<load, cache, inFlight, tool, taken>>

\* cancel(): a load that has not begun is withdrawn if its future is known;
\* one that runs goes on.
Cancel(t) ==
    \/ /\ Reaches(t)
       /\ load' = [load EXCEPT ![t] = IF @ = "queued" /\ launch[t] = "filed" THEN "dropped" ELSE @]
       /\ UNCHANGED <<cache, inFlight, tool, taken>>
    \/ /\ Marks(t, HookUnderWay(t) \/ load[t] \in {"keeping", "setting", "stored"})
       /\ UNCHANGED <<load, cache, inFlight, tool, taken>>

\* A mistaken registration after the load.
RegisterNothing(t) == inFlight

\* The event of the load, by its key.
Registered(t) == [inFlight EXCEPT ![KeyOf[t]] = t]

\* _load_mace() registers its event first.
LoadBegins(t) ==
    /\ load[t] = "queued" /\ \A u \in Task : ~Pending(u)
    /\ load' = [load EXCEPT ![t] = "loading"]
    /\ inFlight' = Registered(t)
    /\ UNCHANGED <<callVars, cache, tool, taken>>

Kept(t) == status[t] # "cancelled"

\* Under _CACHE_LOCK the entry leaves _MACE_PENDING and the status is tested.
LoadEnds(t) ==
    /\ load[t] = "loading"
    /\ load' = [load EXCEPT ![t] = IF Kept(t) THEN "keeping" ELSE "dropping"]
    /\ inFlight' = [inFlight EXCEPT ![KeyOf[t]] = None]
    /\ UNCHANGED <<callVars, cache, tool, taken>>

\* The calculator enters the cache, and the status is assigned.
Keeps(t) ==
    /\ load[t] = "keeping"
    /\ load' = [load EXCEPT ![t] = "setting"]
    /\ cache' = [cache EXCEPT ![KeyOf[t]] = t]
    /\ Assigns(t, "completed")
    /\ UNCHANGED <<inFlight, tool, taken>>

\* The load raises: the status is assigned without a test.
LoadFails(t) ==
    /\ load[t] = "loading"
    /\ load' = [load EXCEPT ![t] = "raising"]
    /\ inFlight' = [inFlight EXCEPT ![KeyOf[t]] = None]
    /\ Assigns(t, "failed")
    /\ UNCHANGED <<cache, tool, taken>>

\* A mistaken end that leaves the event of a failed load unset.
SetsIfStored(t) == load[t] = "setting"

\* The event is set on every path.
Sets(t) == load[t] \in {"setting", "dropping", "raising"}

EventSet(t) ==
    /\ Sets(t)
    /\ load' = [load EXCEPT ![t] = CASE @ = "setting" -> "stored"
                                     [] @ = "dropping" -> "left"
                                     [] @ = "raising" -> "raised"]
    /\ UNCHANGED <<callVars, cache, inFlight, tool, taken>>

-------------------------------------------------------------------------------
(* get_cached_mace_calculator(), in the thread of a tool.                  *)

Popped(k) == [cache EXCEPT ![k] = None]

\* A tool computes with the instance it took, and may need another one later.
Take(c, k) ==
    /\ cache[k] # None
    /\ cache' = Popped(k)
    /\ taken' = [taken EXCEPT ![cache[k]] = @ \cup {c}]
    /\ tool' = [tool EXCEPT ![c] = [does |-> "idle", key |-> k, waits |-> None]]

LoadItself(c, k) ==
    /\ tool' = [tool EXCEPT ![c] = [does |-> "load", key |-> k, waits |-> None]]
    /\ UNCHANGED <<cache, taken>>

\* The cache and the event are read together under the lock.
Need(c, k) ==
    /\ tool[c].does = "idle" /\ ~Locked
    /\ \/ Take(c, k)
       \/ /\ cache[k] = None /\ inFlight[k] = None
          /\ LoadItself(c, k)
       \/ /\ cache[k] = None /\ inFlight[k] # None
          /\ tool' = [tool EXCEPT ![c] = [does |-> "wait", key |-> k, waits |-> inFlight[k]]]
          /\ UNCHANGED <<cache, taken>>
    /\ UNCHANGED <<callVars, load, inFlight>>

\* The event is set.
IsSet(t) == load[t] \in {"stored", "left", "raised"}

\* The wait is over; the cache is tried once more.
WaitOver(c) ==
    LET k == tool[c].key
    IN  /\ tool[c].does = "wait" /\ ~Locked
        /\ IF cache[k] # None THEN Take(c, k) ELSE LoadItself(c, k)
        /\ UNCHANGED <<callVars, load, inFlight>>

WaitEnds(c) == WaitOver(c) /\ IsSet(tool[c].waits)

\* wait_timeout_s have passed before the event is set; every caller waits
\* (experiments/ensemble_tools.py:37).
TimesOut(c) == WaitOver(c) /\ ~IsSet(tool[c].waits)

\* The tool has loaded and used a calculator of its own.
ToolEnds(c) ==
    /\ tool[c].does = "load"
    /\ tool' = [tool EXCEPT ![c].does = "idle"]
    /\ UNCHANGED <<callVars, load, cache, inFlight, taken>>

-------------------------------------------------------------------------------
Init ==
    /\ CallsInit /\ load = [t \in Task |-> "none"]
    /\ cache = [k \in Key |-> None] /\ inFlight = [k \in Key |-> None]
    /\ tool = [c \in Consumer |->
                  [does |-> "idle", key |-> CHOOSE k \in Key : TRUE, waits |-> None]]
    /\ taken = [t \in Task |-> {}]

Loader(t) == LoadBegins(t) \/ LoadEnds(t) \/ Keeps(t) \/ LoadFails(t) \/ EventSet(t)

Hook(t) == HookStep(t) /\ UNCHANGED <<load, cache, inFlight, tool, taken>>

Next ==
    \/ \E t \in Task : Begin(t) \/ Cancel(t) \/ Hook(t) \/ Loader(t)
    \/ \E c \in Consumer : (\E k \in Key : Need(c, k)) \/ WaitEnds(c) \/ TimesOut(c) \/ ToolEnds(c)

Spec == Init /\ [][Next]_vars

-------------------------------------------------------------------------------
(* Properties.                                                             *)

TypeOK ==
    /\ CallsTypeOK
    /\ load \in [Task -> {"none", "queued", "loading", "keeping", "setting", "dropping",
                          "raising", "stored", "left", "raised", "dropped"}]
    /\ cache \in [Key -> Task \cup {None}] /\ inFlight \in [Key -> Task \cup {None}]
    /\ tool \in [Consumer -> [does : {"idle", "wait", "load"}, key : Key,
                              waits : Task \cup {None}]]
    /\ taken \in [Task -> SUBSET Consumer]

\* mace_prefetch.py:69: "each cached instance is consumed exactly once": two
\* tools never compute with the same calculator.
ConsumedOnce == \A t \in Task : Cardinality(taken[t]) <= 1

\* mace_prefetch.py:71-74: a tool does not load a calculator itself while the
\* background load of its key runs, unless its wait for it times out; one that
\* waited to the end only does when that load failed or was cancelled, or another
\* tool took a calculator of the key.
NoDoubleLoadStep ==
    \A c \in Consumer : tool[c].does # "load" /\ tool'[c].does = "load" =>
        LET mine == {t \in Task : KeyOf[t] = tool'[c].key}
            t == tool[c].waits
        IN  IF tool[c].does = "idle"
            THEN \A u \in mine : load[u] \notin {"loading", "keeping"}
            ELSE IsSet(t) =>
                    load[t] = "raised" \/ withdrawn[t] # "no" \/ \E u \in mine : taken[u] # {}

\* mace_prefetch.py:287-291: a load cancelled while it ran leaves nothing in
\* the cache and nothing a tool took, unless the cancellation came after the
\* status was tested (mace_prefetch.py:289), or met a start() or a consumption
\* of the task that wrote its own status over it.
CancelledLeavesNothing ==
    \A t \in Task : withdrawn[t] = "clear" => cache[KeyOf[t]] # t /\ taken[t] = {}

\* mace_prefetch.py:292 "unblock any waiter regardless of cancellation": no
\* tool waits for ever, also when the load fails or was cancelled.
WaitersReleased == \A c \in Consumer : tool[c].does = "wait" ~> tool[c].does # "wait"
================================================================================
