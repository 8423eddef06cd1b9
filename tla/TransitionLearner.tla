--------------------------- MODULE TransitionLearner ---------------------------
(***************************************************************************)
(* learn_from_traces() of runtime/predictor/transition_learner.py: the     *)
(* loops that count which tool (model) follows which at which distance in  *)
(* the traces of earlier runs, and the table built from the counts.        *)
(*                                                                         *)
(* Probabilities are whole percents.                                       *)
(***************************************************************************)
EXTENDS Integers, Sequences, SequencesExt, FiniteSets, FiniteSetsExt

CONSTANTS
    MaxOffset,  \* max_offset
    MinCount    \* min_count

ASSUME LearnerConstants == MaxOffset \in Nat /\ MinCount \in Nat \ {0}

VARIABLES
    traces,   \* the events of the files that could be read, [kind, name, step]
    learning, \* the loops are running
    n, i, j,  \* trace, source and target of the loops
    counts    \* tool_counts and model_counts: [kind, src, offset, tgt, count],
              \* in the order of the dictionaries

learner == <<traces, learning, n, i, j, counts>>

-------------------------------------------------------------------------------
\* The elements of a sequence at some of its places, in their order.
Picked(seq, places) ==
    [r \in 1..Cardinality(places) |->
        seq[CHOOSE x \in places : Cardinality({y \in places : y < x}) = r - 1]]

\* The tool_call and llm_call events of a trace.
Calls(trace) == Picked(trace, {x \in DOMAIN trace : trace[x].kind \in {"tool", "model"}})

IsKey(c, k, s, o, t) == c.kind = k /\ c.src = s /\ c.offset = o /\ c.tgt = t

Entry(k, s, o, t, c) == [kind |-> k, src |-> s, offset |-> o, tgt |-> t, count |-> c]

\* counts[key] += 1
Bump(cs, k, s, o, t) ==
    IF \E x \in DOMAIN cs : IsKey(cs[x], k, s, o, t)
    THEN [x \in DOMAIN cs |-> IF IsKey(cs[x], k, s, o, t)
                              THEN Entry(k, s, o, t, cs[x].count + 1) ELSE cs[x]]
    ELSE Append(cs, Entry(k, s, o, t, 1))

LastTarget(seq) == Min({i + MaxOffset, Len(seq)})

\* One round of the inner loop: pairs of one kind are counted.
CountPair ==
    /\ learning /\ n <= Len(traces)
    /\ LET seq == Calls(traces[n])
       IN  /\ i <= Len(seq) /\ j <= LastTarget(seq)
           /\ counts' = IF seq[i].kind = seq[j].kind
                        THEN Bump(counts, seq[i].kind, seq[i].name, j - i, seq[j].name)
                        ELSE counts
    /\ j' = j + 1
    /\ UNCHANGED <<traces, learning, n, i>>

NextSource ==
    /\ learning /\ n <= Len(traces)
    /\ LET seq == Calls(traces[n])
       IN  i <= Len(seq) /\ j > LastTarget(seq)
    /\ i' = i + 1 /\ j' = i + 2
    /\ UNCHANGED <<traces, learning, n, counts>>

NextTrace ==
    /\ learning /\ n <= Len(traces) /\ i > Len(Calls(traces[n]))
    /\ n' = n + 1 /\ i' = 1 /\ j' = 2
    /\ UNCHANGED <<traces, learning, counts>>

Learned ==
    /\ learning /\ n > Len(traces)
    /\ learning' = FALSE
    /\ UNCHANGED <<traces, n, i, j, counts>>

LearnStep == CountPair \/ NextSource \/ NextTrace \/ Learned

-------------------------------------------------------------------------------
(* The table: _build() and top_tools(), top_models().                      *)

\* The entries of a call at a distance, and those that are kept.
Bucket(k, s, o) ==
    {x \in DOMAIN counts : counts[x].kind = k /\ counts[x].src = s /\ counts[x].offset = o}
Kept(bucket) == {x \in bucket : counts[x].count >= MinCount}

\* A mistaken denominator: only what is kept.
DenominatorKept(bucket) == SumFunction([x \in Kept(bucket) |-> counts[x].count])

\* All the counts of the bucket, also those too rare to be kept.
Denominator(bucket) == SumFunction([x \in bucket |-> counts[x].count])

Percent(x, bucket) == (counts[x].count * 100) \div Denominator(bucket)

\* Sorted by probability, equals in the order of the dictionary.
Above(x, y) == counts[x].count > counts[y].count \/ (counts[x].count = counts[y].count /\ x < y)
Ranked(places, r) == CHOOSE x \in places : Cardinality({y \in places : Above(y, x)}) = r - 1

\* The first top entries of a bucket.
Top(k, s, o, top) ==
    LET bucket == Bucket(k, s, o)
        kept == Kept(bucket)
    IN  [r \in 1..Min({top, Cardinality(kept)}) |->
            [target |-> counts[Ranked(kept, r)].tgt, percent |-> Percent(Ranked(kept, r), bucket)]]

-------------------------------------------------------------------------------
LearnInit ==
    /\ learning = TRUE
    /\ n = 1 /\ i = 1 /\ j = 2
    /\ counts = <<>>

\* The calls of s, in all traces, that a call of the same kind follows as the
\* o-th call after it, and how often that is one of t.
Followed(k, s, o) ==
    UNION {{<<x, p>> : p \in {q \in DOMAIN Calls(traces[x]) :
                                 LET seq == Calls(traces[x])
                                 IN  /\ q + o <= Len(seq)
                                     /\ seq[q].kind = k /\ seq[q].name = s
                                     /\ seq[q + o].kind = k}} : x \in DOMAIN traces}

FollowedBy(k, s, o, t) == {f \in Followed(k, s, o) : Calls(traces[f[1]])[f[2] + o].name = t}

Occurrences(k, s, o, t) == Cardinality(FollowedBy(k, s, o, t))

Names(k) == UNION {{e.name : e \in {f \in ToSet(traces[x]) : f.kind = k}} : x \in DOMAIN traces}

-------------------------------------------------------------------------------
(* Properties.                                                             *)

\* transition_learner.py:132-134: what the loops counted is how often each
\* call followed each other one at each distance up to max_offset, within a
\* trace and never across two.
CountsExact ==
    ~learning =>
        \A k \in {"tool", "model"}, o \in 1..(MaxOffset + 1) : \A s, t \in Names(k) :
            LET found == {x \in DOMAIN counts : IsKey(counts[x], k, s, o, t)}
                seen == IF o > MaxOffset THEN 0 ELSE Occurrences(k, s, o, t)
            IN  IF seen = 0 THEN found = {}
                ELSE \E x \in found : found = {x} /\ counts[x].count = seen

\* A follower that was too rare to be kept still lowers the probability of the
\* others: no entry promises more than the traces show.
NoOverconfidence ==
    ~learning =>
        \A k \in {"tool", "model"}, o \in 1..MaxOffset : \A s \in Names(k) :
            LET top == Top(k, s, o, Len(counts))
                all == Cardinality(Followed(k, s, o))
            IN  \A x \in DOMAIN top :
                    /\ top[x].percent * all <= Occurrences(k, s, o, top[x].target) * 100
                    /\ x > 1 => top[x].percent <= top[x - 1].percent
===============================================================================
