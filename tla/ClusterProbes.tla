----------------------------- MODULE ClusterProbes -----------------------------
(***************************************************************************)
(* measurement/cluster_probes.py: two snapshots bracket the load of a      *)
(* model, and their difference says where its bytes came from.             *)
(*                                                                         *)
(* Bytes are counted in hundredths of a gigabyte.  The counters of         *)
(* /proc/self/io see the reads of this process; the network counter sees   *)
(* what the host receives, which is NFS over TCP and everybody's other     *)
(* traffic but not Lustre over RDMA.                                       *)
(***************************************************************************)
EXTENDS Integers

CONSTANTS
    Shards,      \* shards of a model
    ShardSize,   \* bytes of one
    Traffic,     \* amounts others receive at once
    MaxLoads,    \* bound: loads
    MaxTraffic,  \* bound: times others receive something during a load
    MaxSeconds   \* bound: seconds of a load, in steps of half LongLoad

\* _infer_source(): a load longer than that should show on the network
LongLoad == 10

VARIABLES
    rchar, storage, net,  \* the counters of this process and of the host
    before,               \* the snapshot at the start of the load, or NoSnapshot
    from,                 \* shards read so far, by where they came from
    by,                   \* who reads them: this process or the engine it started
    other,                \* times others received something
    elapsed,              \* since the start of the load
    verdict,              \* of the last load: likely_source, and what the load was
    loads                 \* loads so far

probes == <<rchar, storage, net, before, from, by, other, elapsed, verdict, loads>>

Source == {"cache", "nfs", "lustre"}
Unavailable == -1
NoSnapshot == [rchar |-> Unavailable, storage |-> Unavailable, net |-> Unavailable, taken |-> FALSE]
Nothing == [s \in Source |-> 0]
NoVerdict == [said |-> "none", from |-> Nothing, by |-> "self", io |-> FALSE]

ProbesInit ==
    /\ rchar = 0 /\ storage = 0 /\ net = 0 /\ before = NoSnapshot
    /\ from = Nothing /\ by = "self" /\ other = 0 /\ elapsed = 0
    /\ verdict = NoVerdict /\ loads = 0

\* _read_proc_io() and _read_net_io(): nothing when the probe fails
ReadProcIo(counter, ok) == IF ok THEN counter ELSE Unavailable
ReadNetIo(ok) == IF ok THEN net ELSE Unavailable

\* snapshot()
Snapshot(io, nic) ==
    [rchar |-> ReadProcIo(rchar, io), storage |-> ReadProcIo(storage, io), net |-> ReadNetIo(nic),
     taken |-> TRUE]

Loading == before.taken

\* LoadProbeContext.__enter__()
Enter(who, io, nic) ==
    /\ ~Loading /\ loads < MaxLoads
    /\ before' = Snapshot(io, nic) /\ by' = who /\ loads' = loads + 1
    /\ from' = Nothing /\ other' = 0 /\ elapsed' = 0 /\ verdict' = NoVerdict
    /\ UNCHANGED <<rchar, storage, net>>

\* The next shard is read.
Read(s) ==
    /\ Loading /\ from["cache"] + from["nfs"] + from["lustre"] < Shards
    /\ from' = [from EXCEPT ![s] = @ + 1]
    /\ IF by = "self"
       THEN /\ rchar' = rchar + ShardSize
            /\ storage' = IF s = "cache" THEN storage ELSE storage + ShardSize
       ELSE UNCHANGED <<rchar, storage>>
    /\ net' = IF s = "nfs" THEN net + ShardSize ELSE net
    /\ UNCHANGED <<before, by, other, elapsed, verdict, loads>>

OthersReceive(n) ==
    /\ Loading /\ other < MaxTraffic
    /\ other' = other + 1 /\ net' = net + n
    /\ UNCHANGED <<rchar, storage, before, from, by, elapsed, verdict, loads>>

TakesTime ==
    /\ Loading /\ elapsed < MaxSeconds
    /\ elapsed' = elapsed + LongLoad \div 2
    /\ UNCHANGED <<rchar, storage, net, before, from, by, other, verdict, loads>>

-------------------------------------------------------------------------------
(* delta() and _infer_source()                                             *)

\* A mistaken vote: what is not known votes for nothing.
VotesWithoutUnknown(known, hit) ==
    [cache |-> IF known /\ hit >= 90 THEN 3 ELSE 0, nfs |-> IF known /\ hit <= 15 THEN 3 ELSE 0,
     unknown |-> 0]

\* Votes of the two counters of the process; hit is cache_hit_ratio in percent.
ProcVotes(known, hit) ==
    CASE ~known -> [cache |-> 0, nfs |-> 0, unknown |-> 1]
      [] known /\ hit >= 90 -> [cache |-> 3, nfs |-> 0, unknown |-> 0]
      [] known /\ hit <= 15 -> [cache |-> 0, nfs |-> 3, unknown |-> 0]
      [] OTHER -> [cache |-> 1, nfs |-> 1, unknown |-> 0]

\* Votes of the network: much traffic, or none in a long load.
NetVotes(known, received, seconds) ==
    [cache |-> IF known /\ received < 1 /\ seconds > LongLoad THEN 1 ELSE 0,
     nfs |-> IF known /\ received > 100 THEN 2 ELSE 0]

Verdict(cache, nfs, unknown) ==
    IF cache > nfs /\ cache > unknown THEN "page_cache"
    ELSE IF nfs > cache /\ nfs > unknown THEN "nfs"
    ELSE IF nfs > 0 /\ cache > 0 THEN "mixed" ELSE "unknown"

\* What the probe reads itself, of /proc/self/io and of nvidia-smi, is less than a
\* unit, but makes a ratio where the process read nothing else.
HitRatio(read, stored) ==
    IF stored > read THEN 0
    ELSE IF stored = 0 THEN 100 ELSE 100 - (100 * stored) \div read

Known(b, a) == b # Unavailable /\ a # Unavailable

\* delta(): a difference, and the ratio, need the probe in both snapshots.
Infer(b, a, seconds) ==
    LET ratio == Known(b.rchar, a.rchar)
        proc == ProcVotes(ratio, IF ratio THEN HitRatio(a.rchar - b.rchar, a.storage - b.storage)
                                 ELSE 0)
        nic == NetVotes(Known(b.net, a.net), a.net - b.net, seconds)
    IN Verdict(proc.cache + nic.cache, proc.nfs + nic.nfs, proc.unknown)

\* LoadProbeContext.__exit__()
Exit(io, nic) ==
    /\ Loading /\ from["cache"] + from["nfs"] + from["lustre"] = Shards
    /\ verdict' = [said |-> Infer(before, Snapshot(io, nic), elapsed), from |-> from, by |-> by,
                   io |-> io /\ before.rchar # Unavailable]
    /\ before' = NoSnapshot
    /\ UNCHANGED <<rchar, storage, net, from, by, other, elapsed, loads>>

ProbesNext ==
    \/ \E who \in {"self", "engine"}, io, nic \in BOOLEAN : Enter(who, io, nic)
    \/ \E s \in Source : Read(s)
    \/ \E n \in Traffic : OthersReceive(n)
    \/ TakesTime
    \/ \E io, nic \in BOOLEAN : Exit(io, nic)

-------------------------------------------------------------------------------
(* Properties.                                                             *)

ProbesTypeOK ==
    /\ {rchar, storage, net, elapsed} \subseteq Nat /\ from \in [Source -> 0 .. Shards]
    /\ by \in {"self", "engine"} /\ other \in 0 .. MaxTraffic /\ loads \in 0 .. MaxLoads
    /\ verdict.said \in {"none", "page_cache", "nfs", "mixed", "unknown"}

ReadHere == verdict.said # "none" /\ verdict.by = "self" /\ verdict.io

\* When this process read the model and its counters were readable, a load from
\* the cache alone is told as that and a load from storage alone as "nfs",
\* whatever others receive meanwhile and whether or not the storage shows on
\* the network (cluster_probes.py:45-48).
SourceRight ==
    ReadHere => /\ (verdict.from["cache"] = Shards) => (verdict.said = "page_cache")
                /\ (verdict.from["cache"] = 0) => (verdict.said = "nfs")

\* A quiet network alone proves no cache hit: without the counters of the
\* process nothing is ever told to be cached (cluster_probes.py:405-407, 441-449).
NoCacheUnseen ==
    (verdict.said # "none" /\ ~verdict.io) => verdict.said \in {"nfs", "unknown"}

===============================================================================
