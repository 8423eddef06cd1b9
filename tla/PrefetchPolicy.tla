---------------------------- MODULE PrefetchPolicy ----------------------------
(***************************************************************************)
(* PrefetchScheduler._should_prefetch: the pure decision of                *)
(* runtime/prefetch/scheduler.py on whether a predicted resource is worth  *)
(* starting.                                                               *)
(*                                                                         *)
(* Confidences are in hundredths, times in seconds.  A resource is a       *)
(* record                                                                  *)
(*   [type, confidence, offset, safe, proactive, load]                     *)
(* (resource_type, confidence, consumer_step_offset, cancellation_safe,    *)
(* proactive_swap, estimated_load_s), a configuration a record             *)
(*   [skip, naive, threshold, horizon]                                     *)
(* (skip_resource_types, naive_prefetch, confidence_threshold,             *)
(* max_horizon).  The reason string that goes with the verdict is only     *)
(* logged and is left out.                                                 *)
(***************************************************************************)
EXTENDS Integers

\* estimated_load_s = None: the load time is not known.
UnknownLoad == -1

\* The confidence a resource needs that cannot be cancelled mid-load:
\* min(0.9, threshold + 0.1), on top of the threshold itself.
NonCancellableBar(cfg) ==
    IF cfg.threshold + 10 < 90 THEN cfg.threshold + 10 ELSE 90

\* The load is known to take more than twice the compute that is left, so it
\* cannot be hidden.  remaining = 0 is how a caller says "no estimate".
CannotOverlap(res, remaining) ==
    /\ res.load # UnknownLoad
    /\ remaining > 0
    /\ res.load > 2 * remaining

Confident(cfg, res) ==
    /\ res.confidence >= cfg.threshold
    /\ res.safe \/ res.confidence >= NonCancellableBar(cfg)

\* The naive ablation keeps the type filter and drops every other gate; a
\* proactive swap is exempt from the overlap heuristic alone.
ShouldPrefetch(cfg, res, remaining) ==
    /\ res.type \notin cfg.skip
    /\ \/ cfg.naive
       \/ /\ Confident(cfg, res)
          /\ res.offset <= cfg.horizon
          /\ res.proactive \/ ~CannotOverlap(res, remaining)
===============================================================================
