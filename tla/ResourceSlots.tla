----------------------------- MODULE ResourceSlots -----------------------------
(***************************************************************************)
(* What the prefetch scheduler promises an adapter that calls it from one  *)
(* thread at a time, without tasks, threads or executors: each resource    *)
(* has a slot, the task that owns it, and whether its load is expected     *)
(* ("claimed") or delivered and unused ("ready").                          *)
(*                                                                         *)
(* A claimed slot is never claimed again: a prefetch in flight is not      *)
(* started twice.  A slot that was given up does not become claimed again  *)
(* on its own, although its load may still deliver.                        *)
(***************************************************************************)
EXTENDS Integers

CONSTANTS Resource, Task

VARIABLES owner, slot

Init ==
    /\ owner = [r \in Resource |-> 0]
    /\ slot = [r \in Resource |-> "empty"]

\* A new task takes over the slot.
Claim(r) ==
    /\ slot[r] # "claimed"
    /\ \E t \in Task :
        /\ \A q \in Resource : owner[q] < t
        /\ owner' = [owner EXCEPT ![r] = t]
    /\ slot' = [slot EXCEPT ![r] = "claimed"]

\* The owner's load delivers, possibly after the slot was given up.
Deliver(r) ==
    /\ owner[r] # 0
    /\ slot[r] \in {"claimed", "empty"}
    /\ slot' = [slot EXCEPT ![r] = "ready"]
    /\ UNCHANGED owner

\* Consumed, cancelled, failed or wasted.
Release(r) ==
    /\ slot[r] \in {"claimed", "ready"}
    /\ slot' = [slot EXCEPT ![r] = "empty"]
    /\ UNCHANGED owner

Next == \E r \in Resource : Claim(r) \/ Deliver(r) \/ Release(r)

Spec == Init /\ [][Next]_<<owner, slot>>
================================================================================
