-------------------------- MODULE TraceReportsProofs --------------------------
(***************************************************************************)
(* Theorems about TraceReports, second part: for every pace of the run,    *)
(* every number of tools and every threshold, the seconds the reports      *)
(* attribute and what they say of predictions is what happened.            *)
(***************************************************************************)
EXTENDS TraceRecordsProofs

-------------------------------------------------------------------------------
(* The seconds of a kind of event, and those the workflow stood.           *)

\* BlockedFor, of any list of needs.
StoodAt(ns, whats) == {n \in DOMAIN ns : ns[n].what \in whats}
Stood(ns, whats) == Part([n \in DOMAIN ns |-> ns[n].blocked], StoodAt(ns, whats))

LEMMA StoodIs ==
  \A whats : BlockedFor(whats) = Stood(needs, whats)
  <1> TAKE whats
  <1> DEFINE g == [n \in DOMAIN needs |-> needs[n].blocked]
  <1>1. [i \in StoodAt(needs, whats) |-> needs[i].blocked] = [x \in StoodAt(needs, whats) |-> g[x]]
    BY DEF StoodAt
  <1>2. BlockedFor(whats) = SumFunction([i \in StoodAt(needs, whats) |-> needs[i].blocked])
    BY DEF BlockedFor, StoodAt
  <1> QED BY <1>1, <1>2 DEF Part, Stood

\* One position more.
LEMMA PartGrows ==
  ASSUME NEW g, NEW h, NEW S, IsFiniteSet(S), NEW n, n \notin S,
         \A x \in S : h[x] = g[x] /\ g[x] \in Int, h[n] \in Int
  PROVE  Part(h, S \cup {n}) = Part(g, S) + h[n] /\ Part(g, S) \in Int
  <1>1. Part(h, S) = Part(g, S)
    BY PartSame
  <1>2. IntOn(h, S \cup {n}) /\ IntOn(g, S)
    BY DEF IntOn
  <1>3. More(h, S, n) /\ Part(g, S) \in Int
    BY <1>2, PartInsert, PartInt
  <1> QED BY <1>1, <1>3 DEF More

LEMMA StoodMore ==
  ASSUME NEW ns \in Seq(Need), NEW d \in Need, NEW whats
  PROVE  /\ Stood(Append(ns, d), whats) = Stood(ns, whats) + (IF d.what \in whats THEN d.blocked ELSE 0)
         /\ Stood(ns, whats) \in Nat /\ Append(ns, d) \in Seq(Need)
  <1> DEFINE ms == Append(ns, d)
             n == Len(ns) + 1
             g == [x \in DOMAIN ns |-> ns[x].blocked]
             h == [x \in DOMAIN ms |-> ms[x].blocked]
             S == StoodAt(ns, whats)
  <1>1. /\ ms \in Seq(Need) /\ DOMAIN ms = DOMAIN ns \cup {n} /\ n \notin DOMAIN ns
        /\ ms[n] = d /\ \A x \in DOMAIN ns : ms[x] = ns[x]
        /\ Len(ns) \in Nat /\ DOMAIN ns = 1 .. Len(ns)
    <2>1. /\ ms \in Seq(Need) /\ Len(ms) = Len(ns) + 1 /\ Len(ns) \in Nat
          /\ ms[n] = d /\ \A x \in 1 .. Len(ns) : ms[x] = ns[x]
      BY AppendProperties, LenProperties
    <2>2. DOMAIN ms = 1 .. Len(ns) + 1 /\ DOMAIN ns = 1 .. Len(ns)
      BY <2>1, LenProperties
    <2> HIDE DEF ms
    <2> QED BY <2>1, <2>2
  <1>2. \A x \in DOMAIN ns : ns[x] \in Need /\ ns[x].blocked \in Nat
    <2> TAKE x \in DOMAIN ns
    <2>1. ns[x] \in Need
      BY ElementOfSeq, LenProperties
    <2> QED BY <2>1 DEF Need
  <1>3. S \subseteq DOMAIN ns /\ IsFiniteSet(S)
    <2>1. S \in SUBSET (1 .. Len(ns))
      BY <1>1 DEF StoodAt
    <2> HIDE DEF S
    <2> QED BY <1>1, <2>1, PositionsFinite
  <1>4. d.blocked \in Nat
    BY DEF Need
  <1> HIDE DEF ms, n
  <1>5. \A x \in S : h[x] = g[x] /\ g[x] \in Nat
    BY <1>1, <1>2, <1>3
  <1>6. StoodAt(ms, whats) = IF d.what \in whats THEN S \cup {n} ELSE S
    BY <1>1 DEF StoodAt
  <1>7. h[n] = d.blocked /\ n \notin S
    BY <1>1, <1>3
  <1>8. Part(g, S) \in Nat
    <2> HIDE DEF g, h, S
    <2> QED BY <1>3, <1>5, PartNat
  <1>9. Stood(ms, whats) = Part(h, StoodAt(ms, whats)) /\ Stood(ns, whats) = Part(g, S)
    BY DEF Stood
  <1> HIDE DEF g, h, S
  <1>10. CASE d.what \in whats
    <2>1. Part(h, S \cup {n}) = Part(g, S) + h[n]
      BY <1>3, <1>4, <1>5, <1>7, PartGrows
    <2> QED BY <1>1, <1>6, <1>7, <1>8, <1>9, <1>10, <2>1 DEF ms
  <1>11. CASE d.what \notin whats
    <2>1. Part(h, S) = Part(g, S)
      BY <1>5, PartSame
    <2> QED BY <1>1, <1>6, <1>8, <1>9, <1>11, <2>1 DEF ms
  <1> QED BY <1>10, <1>11

WaitType == {"worker_swap_wait", "aggregator_swap_wait"}

LEMMA WaitsSame ==
  ASSUME NEW ev, NEW ev2, NEW type, NEW types, type \in types, Same(ev, ev2, types)
  PROVE  E!GateSeconds(ev2, type) = E!GateSeconds(ev, type)
  <1>1. /\ E!Where(ev2, type) = E!Where(ev, type)
        /\ \A i \in E!Where(ev, type) : ev2[i] = ev[i]
    BY DEF Same
  <1>2. [i \in E!Where(ev2, type) |-> ev2[i].wait] = [i \in E!Where(ev, type) |-> ev[i].wait]
    BY <1>1
  <1> QED BY <1>2 DEF E!GateSeconds

LEMMA GateSecondsInt ==
  ASSUME NEW ev \in Seq(Event), NEW type \in WaitType
  PROVE  /\ E!GateSeconds(ev, type) \in Int /\ IsFiniteSet(E!Where(ev, type))
         /\ \A i \in E!Where(ev, type) : ev[i].wait \in Int
         /\ E!GateSeconds(ev, type) = Part([i \in E!Where(ev, type) |-> ev[i].wait], E!Where(ev, type))
  <1> DEFINE S == E!Where(ev, type)
             g == [i \in S |-> ev[i].wait]
  <1>1. S \in SUBSET (1 .. Len(ev)) /\ Len(ev) \in Nat
    BY Positions, LenProperties
  <1>2. \A i \in S : ev[i].wait \in Int
    <2> TAKE i \in S
    <2>1. ev[i] \in Event /\ ev[i].type \in WaitType
      BY ElementOfSeq, LenProperties DEF E!Where
    <2> QED BY <2>1, EventFields DEF WaitType
  <1>3. E!GateSeconds(ev, type) = Part(g, S)
    <2>1. g = [x \in S |-> g[x]]
      OBVIOUS
    <2> QED BY <2>1, SumsSame DEF E!GateSeconds, Part
  <1>4. \A i \in S : g[i] \in Int
    BY <1>2
  <1> HIDE DEF S, g
  <1>5. IsFiniteSet(S)
    BY <1>1, PositionsFinite
  <1>6. Part(g, S) \in Int
    BY <1>4, <1>5, PartInt DEF IntOn
  <1> QED BY <1>2, <1>3, <1>5, <1>6 DEF S, g

LEMMA WaitsMore ==
  ASSUME NEW ev \in Seq(Event), NEW e \in Event, e.type \in WaitType
  PROVE  /\ E!GateSeconds(ev \o <<e>>, e.type) = E!GateSeconds(ev, e.type) + e.wait
         /\ E!GateSeconds(ev, e.type) \in Int
         /\ \A type \in WaitType : type # e.type =>
               E!GateSeconds(ev \o <<e>>, type) = E!GateSeconds(ev, type)
  <1> DEFINE ev2 == ev \o <<e>>
             n == Len(ev) + 1
             S == E!Where(ev, e.type)
             g == [i \in S |-> ev[i].wait]
             h == [i \in S \cup {n} |-> ev2[i].wait]
  <1>1. Added(ev, ev2, e)
    BY OneAdded
  <1>2. /\ ev2[n] = e /\ \A i \in S : i <= Len(ev) /\ ev2[i] = ev[i]
        /\ E!Where(ev2, e.type) = S \cup {n}
        /\ \A type \in WaitType : type # e.type => Same(ev, ev2, {type})
    <2>1. WaitType \subseteq EventType
      BY DEF WaitType, EventType
    <2> QED BY <1>1, <2>1 DEF Added, Same
  <1>3. S \in SUBSET (1 .. Len(ev)) /\ Len(ev) \in Nat
    BY Positions, LenProperties
  <1>4. IsFiniteSet(S) /\ n \notin S
    <2> HIDE DEF S
    <2>1. IsFiniteSet(S)
      BY <1>3, PositionsFinite
    <2>2. n \notin 1 .. Len(ev)
      BY <1>3
    <2> HIDE DEF n
    <2> QED BY <1>3, <2>1, <2>2
  <1>5. \A i \in S : ev[i].wait \in Int
    <2> TAKE i \in S
    <2>1. ev[i] \in Event /\ ev[i].type \in WaitType
      BY ElementOfSeq, LenProperties DEF E!Where
    <2> QED BY <2>1, EventFields DEF WaitType
  <1>6. e.wait \in Int
    BY EventFields DEF WaitType
  <1>7. E!GateSeconds(ev, e.type) = Part(g, S)
    <2>1. g = [x \in S |-> g[x]]
      OBVIOUS
    <2> QED BY <2>1, SumsSame DEF E!GateSeconds, Part
  <1>8. E!GateSeconds(ev2, e.type) = Part(h, S \cup {n})
    <2>1. h = [x \in S \cup {n} |-> h[x]] /\ h = [i \in E!Where(ev2, e.type) |-> ev2[i].wait]
      BY <1>2
    <2> QED BY <2>1, <1>2, SumsSame DEF E!GateSeconds, Part
  <1>9. /\ \A x \in S : h[x] = g[x] /\ g[x] \in Int
        /\ h[n] = e.wait
    BY <1>2, <1>5
  <1> HIDE DEF ev2, n, S, g, h
  <1>10. Part(h, S \cup {n}) = Part(g, S) + h[n] /\ Part(g, S) \in Int
    BY <1>4, <1>6, <1>9, PartGrows
  <1>11. \A type \in WaitType : type # e.type => E!GateSeconds(ev2, type) = E!GateSeconds(ev, type)
    BY <1>2, WaitsSame
  <1> QED BY <1>7, <1>8, <1>9, <1>10, <1>11 DEF ev2

-------------------------------------------------------------------------------
(* The chain spans of the nodes.                                           *)

SpanType == {"chain_start", "chain_end"}
Marks(ev, type, node) == {i \in E!Where(ev, type) : ev[i].what = node}
StartBefore(ev, node, j) == {i \in Marks(ev, "chain_start", node) : i < j}
SpanOf(ev, node, j) == ev[j].at - ev[E!Max(StartBefore(ev, node, j))].at

\* When the node's chain last started.
Opened(ev, node) == ev[E!Max(Marks(ev, "chain_start", node))].at

\* Every end of a chain comes after a start of it.
Closed(ev) ==
    \A node \in Node : \A j \in Marks(ev, "chain_end", node) : StartBefore(ev, node, j) # {}

LEMMA SpansAre ==
  \A ev, node : E!NodeSeconds(ev, node) =
      Part([j \in Marks(ev, "chain_end", node) |-> SpanOf(ev, node, j)], Marks(ev, "chain_end", node))
  <1> TAKE ev, node
  <1> DEFINE S == Marks(ev, "chain_end", node)
             g == [j \in S |-> SpanOf(ev, node, j)]
  <1>1. E!NodeSeconds(ev, node) = E!SumFunction(g)
    BY DEF E!NodeSeconds, Marks, SpanOf, StartBefore
  <1>2. g = [x \in S |-> g[x]]
    OBVIOUS
  <1> QED BY <1>1, <1>2, SumsSame DEF Part

\* The last start before a position is a start of the node.
LEMMA SpanStart ==
  ASSUME NEW ev \in Seq(Event), NEW node, NEW j, StartBefore(ev, node, j) # {}
  PROVE  /\ E!Max(StartBefore(ev, node, j)) \in StartBefore(ev, node, j)
         /\ ev[E!Max(StartBefore(ev, node, j))].at \in Nat
  <1> DEFINE S == StartBefore(ev, node, j)
  <1>1. S \in SUBSET E!Where(ev, "chain_start")
    BY DEF StartBefore, Marks
  <1>2. E!Max(S) \in S
    <2> HIDE DEF S
    <2>1. S # {}
      BY DEF S
    <2> QED BY <1>1, <2>1, LastIn DEF IsLast
  <1>3. \A i \in S : ev[i].at \in Nat
    <2> TAKE i \in S
    <2>1. ev[i] \in Event
      BY <1>1, ElementOfSeq, LenProperties DEF E!Where
    <2> QED BY <2>1, EventFields
  <1> QED BY <1>2, <1>3

LEMMA OpenStart ==
  ASSUME NEW ev \in Seq(Event), NEW node, Marks(ev, "chain_start", node) # {}
  PROVE  /\ E!Max(Marks(ev, "chain_start", node)) \in Marks(ev, "chain_start", node)
         /\ Opened(ev, node) \in Nat
  <1> DEFINE S == Marks(ev, "chain_start", node)
  <1>1. S \in SUBSET E!Where(ev, "chain_start")
    BY DEF Marks
  <1>2. E!Max(S) \in S
    <2> HIDE DEF S
    <2>1. S # {}
      BY DEF S
    <2> QED BY <1>1, <2>1, LastIn DEF IsLast
  <1>3. ev[E!Max(S)] \in Event
    BY <1>1, <1>2, ElementOfSeq, LenProperties DEF E!Where
  <1>4. ev[E!Max(S)].at \in Nat
    BY <1>3, EventFields
  <1> QED BY <1>2, <1>4 DEF Opened

LEMMA SpanInt ==
  ASSUME NEW ev \in Seq(Event), Closed(ev), NEW node \in Node
  PROVE  /\ \A j \in Marks(ev, "chain_end", node) : SpanOf(ev, node, j) \in Int
         /\ E!NodeSeconds(ev, node) \in Int /\ IsFiniteSet(Marks(ev, "chain_end", node))
  <1> DEFINE S == Marks(ev, "chain_end", node)
             g == [j \in S |-> SpanOf(ev, node, j)]
  <1>1. \A j \in S : SpanOf(ev, node, j) \in Int
    <2> TAKE j \in S
    <2>1. ev[j] \in Event
      BY ElementOfSeq, LenProperties DEF Marks, E!Where
    <2>2. StartBefore(ev, node, j) # {}
      BY DEF Closed
    <2>3. ev[j].at \in Nat /\ ev[E!Max(StartBefore(ev, node, j))].at \in Nat
      BY <2>1, <2>2, EventFields, SpanStart
    <2> QED BY <2>3 DEF SpanOf
  <1>2. S \in SUBSET (1 .. Len(ev)) /\ Len(ev) \in Nat
    BY Positions, LenProperties DEF Marks
  <1>3. E!NodeSeconds(ev, node) = Part(g, S)
    BY SpansAre
  <1>4. \A j \in S : g[j] \in Int
    BY <1>1
  <1> HIDE DEF S, g
  <1>5. IsFiniteSet(S)
    BY <1>2, PositionsFinite
  <1>6. Part(g, S) \in Int
    BY <1>4, <1>5, PartInt DEF IntOn
  <1> QED BY <1>1, <1>3, <1>5, <1>6 DEF S

\* The ends of a node's chains, and the starts before them, are the same.
SpansKept(ev, ev2, node) ==
    /\ Marks(ev2, "chain_end", node) = Marks(ev, "chain_end", node)
    /\ \A j \in Marks(ev, "chain_end", node) :
          SpanOf(ev2, node, j) = SpanOf(ev, node, j)

LEMMA SpansEqual ==
  ASSUME NEW ev, NEW ev2, NEW node, SpansKept(ev, ev2, node)
  PROVE  E!NodeSeconds(ev2, node) = E!NodeSeconds(ev, node)
  <1>1. [j \in Marks(ev2, "chain_end", node) |-> SpanOf(ev2, node, j)] =
            [j \in Marks(ev, "chain_end", node) |-> SpanOf(ev, node, j)]
    BY DEF SpansKept
  <1> QED BY <1>1, SpansAre DEF SpansKept

\* Events that are no marks of chains.
LEMMA SpansSame ==
  ASSUME NEW ev \in Seq(Event), NEW ev2, Closed(ev), Same(ev, ev2, SpanType)
  PROVE  /\ Closed(ev2)
         /\ \A node \in Node : /\ E!NodeSeconds(ev2, node) = E!NodeSeconds(ev, node)
                               /\ Marks(ev2, "chain_start", node) = Marks(ev, "chain_start", node)
                               /\ Marks(ev, "chain_start", node) # {} =>
                                     Opened(ev2, node) = Opened(ev, node)
  <1>1. \A type \in SpanType : /\ E!Where(ev2, type) = E!Where(ev, type)
                               /\ \A i \in E!Where(ev, type) : ev2[i] = ev[i]
    BY DEF Same
  <1>2. \A node : /\ Marks(ev2, "chain_start", node) = Marks(ev, "chain_start", node)
                  /\ Marks(ev2, "chain_end", node) = Marks(ev, "chain_end", node)
    BY <1>1 DEF Marks, SpanType
  <1>3. \A node, j : StartBefore(ev2, node, j) = StartBefore(ev, node, j)
    BY <1>2 DEF StartBefore
  <1>4. \A node \in Node : \A i \in Marks(ev, "chain_start", node) \cup Marks(ev, "chain_end", node) :
           ev2[i] = ev[i]
    BY <1>1 DEF Marks, SpanType
  <1>5. \A node \in Node : SpansKept(ev, ev2, node)
    <2> TAKE node \in Node
    <2>1. ASSUME NEW j \in Marks(ev, "chain_end", node)
          PROVE  SpanOf(ev2, node, j) = SpanOf(ev, node, j)
      <3>1. E!Max(StartBefore(ev, node, j)) \in Marks(ev, "chain_start", node)
        BY <2>1, SpanStart DEF Closed, StartBefore
      <3> QED BY <1>3, <1>4, <3>1 DEF SpanOf
    <2> QED BY <1>2, <2>1 DEF SpansKept
  <1>6. \A node \in Node : Marks(ev, "chain_start", node) # {} => Opened(ev2, node) = Opened(ev, node)
    BY <1>2, <1>4, OpenStart DEF Opened
  <1> QED BY <1>2, <1>3, <1>5, <1>6, SpansEqual DEF Closed

\* A chain starts.
LEMMA SpanOpens ==
  ASSUME NEW ev \in Seq(Event), NEW e \in Event, Closed(ev), e.type = "chain_start"
  PROVE  /\ Closed(ev \o <<e>>)
         /\ \A node \in Node : E!NodeSeconds(ev \o <<e>>, node) = E!NodeSeconds(ev, node)
         /\ Marks(ev \o <<e>>, "chain_start", e.what) # {} /\ Opened(ev \o <<e>>, e.what) = e.at
  <1> DEFINE ev2 == ev \o <<e>>
             n == Len(ev) + 1
  <1>1. /\ Added(ev, ev2, e) /\ ev2 \in Seq(Event) /\ Len(ev) \in Nat
    BY OneAdded, LenProperties DEF Added
  <1>2. /\ ev2[n] = e
        /\ E!Where(ev2, "chain_start") = E!Where(ev, "chain_start") \cup {n}
        /\ E!Where(ev2, "chain_end") = E!Where(ev, "chain_end")
        /\ \A i \in E!Where(ev, "chain_start") \cup E!Where(ev, "chain_end") :
              ev2[i] = ev[i] /\ i \in Nat /\ i < n
    <2>1. {"chain_start", "chain_end"} \subseteq EventType
      BY DEF EventType
    <2>2. \A type : E!Where(ev, type) \subseteq Nat
      BY Positions
    <2> HIDE DEF ev2
    <2>3. ev2[n] = e /\ E!Where(ev2, "chain_start") = E!Where(ev, "chain_start") \cup {n}
      BY <1>1, <2>1 DEF Added
    <2>4. E!Where(ev2, "chain_end") = E!Where(ev, "chain_end")
      BY <1>1, <2>1 DEF Added
    <2>5. \A i \in E!Where(ev, "chain_start") \cup E!Where(ev, "chain_end") :
             i <= Len(ev) /\ ev2[i] = ev[i]
      BY <1>1, <2>1 DEF Added
    <2> QED BY <1>1, <2>2, <2>3, <2>4, <2>5
  <1>3. n \in Nat
    BY <1>1
  <1> HIDE DEF ev2, n
  <1>4. \A node : /\ Marks(ev2, "chain_end", node) = Marks(ev, "chain_end", node)
                  /\ Marks(ev2, "chain_start", node) =
                        Marks(ev, "chain_start", node) \cup (IF node = e.what THEN {n} ELSE {})
    BY <1>2 DEF Marks
  <1>5. \A node : \A j \in Marks(ev, "chain_end", node) :
           StartBefore(ev2, node, j) = StartBefore(ev, node, j)
    <2> TAKE node
    <2> TAKE j \in Marks(ev, "chain_end", node)
    <2>1. j \in Nat /\ ~(n < j)
      BY <1>2, <1>3 DEF Marks
    <2> QED BY <1>4, <2>1 DEF StartBefore
  <1>6. \A node \in Node : SpansKept(ev, ev2, node)
    <2> TAKE node \in Node
    <2>1. ASSUME NEW j \in Marks(ev, "chain_end", node)
          PROVE  SpanOf(ev2, node, j) = SpanOf(ev, node, j)
      <3>1. E!Max(StartBefore(ev, node, j)) \in E!Where(ev, "chain_start")
        <4>1. StartBefore(ev, node, j) # {}
          BY <2>1 DEF Closed, StartBefore
        <4>2. E!Max(StartBefore(ev, node, j)) \in StartBefore(ev, node, j)
          BY <4>1, SpanStart
        <4> QED BY <4>2 DEF StartBefore, Marks
      <3>2. ev2[j] = ev[j]
        BY <1>2, <2>1 DEF Marks
      <3> QED BY <1>2, <1>5, <2>1, <3>1, <3>2 DEF SpanOf
    <2> QED BY <1>4, <2>1 DEF SpansKept
  <1>7. Closed(ev2)
    BY <1>4, <1>5 DEF Closed
  <1>8. Marks(ev2, "chain_start", e.what) # {} /\ Opened(ev2, e.what) = e.at
    <2> DEFINE S == Marks(ev2, "chain_start", e.what)
    <2>1. n \in S /\ \A i \in S : i <= n /\ i \in Nat
      BY <1>2, <1>3, <1>4 DEF Marks
    <2>2. S \in SUBSET E!Where(ev2, "chain_start")
      BY DEF Marks
    <2> HIDE DEF S
    <2>3. IsLast(E!Max(S), S) /\ IsLast(n, S) /\ S \subseteq Nat
      BY <1>1, <2>1, <2>2, LastIn DEF IsLast
    <2>4. E!Max(S) = n
      BY <2>3, OneLast
    <2> QED BY <1>2, <2>1, <2>4 DEF Opened, S
  <1>9. \A node \in Node : E!NodeSeconds(ev2, node) = E!NodeSeconds(ev, node)
    BY <1>6, SpansEqual
  <1> QED BY <1>7, <1>8, <1>9 DEF ev2

\* A chain ends.
LEMMA SpanCloses ==
  ASSUME NEW ev \in Seq(Event), NEW e \in Event, Closed(ev), e.type = "chain_end",
         e.what \in Node, Marks(ev, "chain_start", e.what) # {}
  PROVE  /\ Closed(ev \o <<e>>)
         /\ \A node \in Node : E!NodeSeconds(ev \o <<e>>, node) =
               E!NodeSeconds(ev, node)
                   + (IF node = e.what THEN e.at - Opened(ev, e.what) ELSE 0)
  <1> DEFINE ev2 == ev \o <<e>>
             n == Len(ev) + 1
  <1>1. /\ Added(ev, ev2, e) /\ ev2 \in Seq(Event) /\ Len(ev) \in Nat
    BY OneAdded, LenProperties DEF Added
  <1>2. /\ ev2[n] = e
        /\ E!Where(ev2, "chain_start") = E!Where(ev, "chain_start")
        /\ E!Where(ev2, "chain_end") = E!Where(ev, "chain_end") \cup {n}
        /\ \A i \in E!Where(ev, "chain_start") \cup E!Where(ev, "chain_end") :
              ev2[i] = ev[i] /\ i \in Nat /\ i < n
    <2>1. {"chain_start", "chain_end"} \subseteq EventType
      BY DEF EventType
    <2>2. \A type : E!Where(ev, type) \subseteq Nat
      BY Positions
    <2> HIDE DEF ev2
    <2>3. ev2[n] = e /\ E!Where(ev2, "chain_end") = E!Where(ev, "chain_end") \cup {n}
      BY <1>1, <2>1 DEF Added
    <2>4. E!Where(ev2, "chain_start") = E!Where(ev, "chain_start")
      BY <1>1, <2>1 DEF Added
    <2>5. \A i \in E!Where(ev, "chain_start") \cup E!Where(ev, "chain_end") :
             i <= Len(ev) /\ ev2[i] = ev[i]
      BY <1>1, <2>1 DEF Added
    <2> QED BY <1>1, <2>2, <2>3, <2>4, <2>5
  <1>3. n \in Nat
    BY <1>1
  <1> HIDE DEF ev2, n
  <1>4. \A node : /\ Marks(ev2, "chain_start", node) = Marks(ev, "chain_start", node)
                  /\ Marks(ev2, "chain_end", node) =
                        Marks(ev, "chain_end", node) \cup (IF node = e.what THEN {n} ELSE {})
    BY <1>2 DEF Marks
  <1>5. \A node, j : StartBefore(ev2, node, j) = StartBefore(ev, node, j)
    BY <1>4 DEF StartBefore
  <1>6. \A node \in Node : \A j \in Marks(ev, "chain_end", node) :
           SpanOf(ev2, node, j) = SpanOf(ev, node, j)
    <2> TAKE node \in Node
    <2> TAKE j \in Marks(ev, "chain_end", node)
    <2>1. E!Max(StartBefore(ev, node, j)) \in E!Where(ev, "chain_start")
      BY SpanStart DEF Closed, StartBefore, Marks
    <2>2. ev2[j] = ev[j]
      BY <1>2 DEF Marks
    <2> QED BY <1>2, <1>5, <2>1, <2>2 DEF SpanOf
  <1>7. StartBefore(ev, e.what, n) = Marks(ev, "chain_start", e.what)
    BY <1>2 DEF StartBefore, Marks
  <1>8. Closed(ev2)
    <2> SUFFICES ASSUME NEW node \in Node, NEW j \in Marks(ev2, "chain_end", node)
                 PROVE  StartBefore(ev2, node, j) # {}
      BY DEF Closed
    <2>1. CASE j \in Marks(ev, "chain_end", node)
      BY <1>5, <2>1 DEF Closed
    <2>2. CASE j = n /\ node = e.what
      BY <1>5, <1>7, <2>2
    <2> QED BY <1>4, <2>1, <2>2
  <1>9. SpanOf(ev2, e.what, n) = e.at - Opened(ev, e.what) /\ SpanOf(ev2, e.what, n) \in Int
    <2>1. E!Max(Marks(ev, "chain_start", e.what)) \in Marks(ev, "chain_start", e.what)
          /\ Opened(ev, e.what) \in Nat
      BY OpenStart
    <2>2. SpanOf(ev2, e.what, n) = e.at - Opened(ev, e.what)
      BY <1>2, <1>5, <1>7, <2>1 DEF SpanOf, Opened, Marks
    <2>3. e.at \in Nat
      BY EventFields
    <2> QED BY <2>1, <2>2, <2>3
  <1>10. ASSUME NEW node \in Node, node # e.what
         PROVE  E!NodeSeconds(ev2, node) = E!NodeSeconds(ev, node) + 0
    <2>1. SpansKept(ev, ev2, node)
      BY <1>4, <1>6, <1>10 DEF SpansKept
    <2>2. E!NodeSeconds(ev, node) \in Int
      BY SpanInt
    <2> QED BY <2>1, <2>2, SpansEqual
  <1>11. E!NodeSeconds(ev2, e.what) =
            E!NodeSeconds(ev, e.what) + (e.at - Opened(ev, e.what))
    <2> DEFINE S == Marks(ev, "chain_end", e.what)
               g == [j \in S |-> SpanOf(ev, e.what, j)]
               h == [j \in S \cup {n} |-> SpanOf(ev2, e.what, j)]
    <2>1. E!NodeSeconds(ev, e.what) = Part(g, S)
      BY SpansAre
    <2>2. E!NodeSeconds(ev2, e.what) = Part(h, S \cup {n})
      <3>1. Marks(ev2, "chain_end", e.what) = S \cup {n}
        BY <1>4
      <3> QED BY <3>1, SpansAre
    <2>3. \A x \in S : h[x] = g[x] /\ g[x] \in Int
      BY <1>6, SpanInt
    <2>4. h[n] = e.at - Opened(ev, e.what) /\ h[n] \in Int
      BY <1>9
    <2>5. n \notin S
      BY <1>2, <1>3 DEF Marks
    <2>6. IsFiniteSet(S)
      BY SpanInt
    <2> HIDE DEF S, g, h
    <2>7. Part(h, S \cup {n}) = Part(g, S) + h[n]
      BY <2>3, <2>4, <2>5, <2>6, PartGrows
    <2> QED BY <2>1, <2>2, <2>4, <2>7
  <1>12. \A node \in Node : E!NodeSeconds(ev2, node) =
               E!NodeSeconds(ev, node)
                   + (IF node = e.what THEN e.at - Opened(ev, e.what) ELSE 0)
    BY <1>10, <1>11
  <1> QED BY <1>8, <1>12 DEF ev2

\* The spans of all nodes.
Spans(ev) ==
    E!NodeSeconds(ev, "PlannerAgent") + E!NodeSeconds(ev, "WorkerAgent")
        + E!NodeSeconds(ev, "AggregatorAgent")

LEMMA SpansTotal ==
  ASSUME NEW ev \in Seq(Event), Closed(ev)
  PROVE  /\ E!SumFunction([n \in LlmNodes |-> E!NodeSeconds(ev, n)]) = Spans(ev)
         /\ Spans(ev) \in Int
  <1> DEFINE g == [n \in LlmNodes |-> E!NodeSeconds(ev, n)]
             a == "PlannerAgent"
             b == "WorkerAgent"
             c == "AggregatorAgent"
  <1>1. LlmNodes = Node /\ Node = (({} \cup {a}) \cup {b}) \cup {c}
    BY DEF LlmNodes, Node
  <1>2. \A n \in Node : g[n] = E!NodeSeconds(ev, n) /\ g[n] \in Int
    BY <1>1, SpanInt
  <1>3. E!SumFunction(g) = Part(g, Node)
    <2>1. g = [x \in Node |-> g[x]]
      BY <1>1
    <2> QED BY <2>1, SumsSame DEF Part
  <1>4. a \in Node /\ b \in Node /\ c \in Node /\ a # b /\ a # c /\ b # c
    BY DEF Node
  <1> HIDE DEF g, a, b, c
  <1>5. IsFiniteSet({} \cup {a}) /\ IsFiniteSet({})
    BY FS_EmptySet, FS_AddElement
  <1>6. IsFiniteSet(({} \cup {a}) \cup {b})
    BY <1>5, FS_AddElement
  <1>7. More(g, {}, a)
    BY <1>2, <1>4, <1>5, PartInsert DEF IntOn
  <1>8. More(g, {} \cup {a}, b)
    BY <1>2, <1>4, <1>5, PartInsert DEF IntOn
  <1>9. More(g, ({} \cup {a}) \cup {b}, c)
    BY <1>2, <1>4, <1>6, PartInsert DEF IntOn
  <1>10. Part(g, Node) = ((0 + g[a]) + g[b]) + g[c]
    BY <1>1, <1>7, <1>8, <1>9, PartEmpty DEF More
  <1>11. Spans(ev) = g[a] + g[b] + g[c]
    BY <1>2, <1>4 DEF Spans, a, b, c
  <1>12. g[a] \in Int /\ g[b] \in Int /\ g[c] \in Int
    BY <1>2, <1>4
  <1>13. E!SumFunction(g) = Spans(ev) /\ Spans(ev) \in Int
    BY <1>3, <1>10, <1>11, <1>12
  <1> QED BY <1>13 DEF g

-------------------------------------------------------------------------------
(* What a step does to the chains and the gates in the trace.              *)

WaitsStay(ev, ev2) ==
    \A type \in WaitType : E!GateSeconds(ev2, type) = E!GateSeconds(ev, type)

OpenStays(ev, ev2) ==
    \A node \in Node : /\ Marks(ev2, "chain_start", node) = Marks(ev, "chain_start", node)
                       /\ Marks(ev, "chain_start", node) # {} => Opened(ev2, node) = Opened(ev, node)

\* Nothing, a chain that starts, one that ends, a gate that opens.
Still(ev, ev2) ==
    /\ ev2 \in Seq(Event) /\ Closed(ev2) /\ Spans(ev2) = Spans(ev)
    /\ WaitsStay(ev, ev2) /\ OpenStays(ev, ev2)
Opens(ev, ev2, node) ==
    /\ ev2 \in Seq(Event) /\ Closed(ev2) /\ Spans(ev2) = Spans(ev) /\ WaitsStay(ev, ev2)
    /\ Marks(ev2, "chain_start", node) # {} /\ Opened(ev2, node) = clock
Closes(ev, ev2, node) ==
    /\ ev2 \in Seq(Event) /\ Closed(ev2) /\ WaitsStay(ev, ev2)
    /\ Spans(ev2) = Spans(ev) + (clock - Opened(ev, node))
Waits(ev, ev2, type, n) ==
    /\ ev2 \in Seq(Event) /\ Closed(ev2) /\ Spans(ev2) = Spans(ev) /\ OpenStays(ev, ev2)
    /\ E!GateSeconds(ev2, type) = E!GateSeconds(ev, type) + n
    /\ \A other \in WaitType \ {type} : E!GateSeconds(ev2, other) = E!GateSeconds(ev, other)

LEMMA NodesOf ==
  \A ev, ev2 : (\A node \in Node : E!NodeSeconds(ev2, node) = E!NodeSeconds(ev, node))
                  => Spans(ev2) = Spans(ev)
  BY DEF Node, Spans

LEMMA StillOn ==
  ASSUME NEW ev \in Seq(Event), Closed(ev), NEW new, NEW types, Fresh(new, types),
         types \cap (SpanType \cup WaitType) = {}
  PROVE  Still(ev, ev \o new)
  <1>1. ev \o new \in Seq(Event) /\ Same(ev, ev \o new, SpanType \cup WaitType)
    BY FreshSame
  <1>2. Same(ev, ev \o new, SpanType)
    BY <1>1 DEF Same
  <1>3. WaitsStay(ev, ev \o new)
    <2>1. \A type \in WaitType : type \in SpanType \cup WaitType
      OBVIOUS
    <2> QED BY <1>1, <2>1, WaitsSame DEF WaitsStay
  <1>4. /\ Closed(ev \o new) /\ OpenStays(ev, ev \o new)
        /\ \A node \in Node : E!NodeSeconds(ev \o new, node) = E!NodeSeconds(ev, node)
    BY <1>2, SpansSame DEF OpenStays
  <1> QED BY <1>1, <1>3, <1>4, NodesOf DEF Still

LEMMA StillNone ==
  \A ev : ev \in Seq(Event) /\ Closed(ev) => Still(ev, ev)
  BY DEF Still, WaitsStay, OpenStays

LEMMA OpensOne ==
  ASSUME NEW ev \in Seq(Event), Closed(ev), NEW e \in Event, e.type = "chain_start", e.at = clock
  PROVE  Opens(ev, ev \o <<e>>, e.what)
  <1>1. /\ Closed(ev \o <<e>>)
        /\ \A node \in Node : E!NodeSeconds(ev \o <<e>>, node) = E!NodeSeconds(ev, node)
        /\ Marks(ev \o <<e>>, "chain_start", e.what) # {} /\ Opened(ev \o <<e>>, e.what) = clock
    BY SpanOpens
  <1>2. ev \o <<e>> \in Seq(Event)
    BY Longer
  <1>3. WaitsStay(ev, ev \o <<e>>)
    <2>1. Fresh(<<e>>, {"chain_start"})
      BY FreshOne
    <2>2. {"chain_start"} \cap WaitType = {}
      BY DEF WaitType
    <2>3. Same(ev, ev \o <<e>>, WaitType)
      BY <2>1, <2>2, FreshSame
    <2> QED BY <2>3, WaitsSame DEF WaitsStay
  <1> QED BY <1>1, <1>2, <1>3, NodesOf DEF Opens

LEMMA ClosesOne ==
  ASSUME NEW ev \in Seq(Event), Closed(ev), NEW e \in Event, e.type = "chain_end", e.at = clock,
         e.what \in Node, Marks(ev, "chain_start", e.what) # {}
  PROVE  Closes(ev, ev \o <<e>>, e.what)
  <1> DEFINE d == e.at - Opened(ev, e.what)
             ev2 == ev \o <<e>>
  <1>1. /\ Closed(ev2)
        /\ \A node \in Node : E!NodeSeconds(ev2, node) =
               E!NodeSeconds(ev, node) + (IF node = e.what THEN d ELSE 0)
    BY SpanCloses
  <1>2. ev2 \in Seq(Event)
    BY Longer
  <1>3. WaitsStay(ev, ev2)
    <2>1. Fresh(<<e>>, {"chain_end"})
      BY FreshOne
    <2>2. {"chain_end"} \cap WaitType = {}
      BY DEF WaitType
    <2>3. Same(ev, ev2, WaitType)
      BY <2>1, <2>2, FreshSame
    <2> QED BY <2>3, WaitsSame DEF WaitsStay
  <1>4. d \in Int
    BY OpenStart, EventFields
  <1>5. \A node \in Node : E!NodeSeconds(ev, node) \in Int
    BY SpanInt
  <1>6. d = clock - Opened(ev, e.what)
    OBVIOUS
  <1> HIDE DEF d, ev2
  <1>7. Spans(ev2) = Spans(ev) + d
    BY <1>1, <1>4, <1>5 DEF Spans, Node
  <1> QED BY <1>1, <1>2, <1>3, <1>6, <1>7 DEF Closes, ev2

LEMMA WaitsOne ==
  ASSUME NEW ev \in Seq(Event), Closed(ev), NEW e \in Event, e.type \in WaitType, e.at = clock
  PROVE  Waits(ev, ev \o <<e>>, e.type, e.wait)
  <1>1. Fresh(<<e>>, {e.type})
    BY FreshOne
  <1>2. {e.type} \cap SpanType = {}
    BY DEF WaitType, SpanType
  <1>3. ev \o <<e>> \in Seq(Event) /\ Same(ev, ev \o <<e>>, SpanType)
    BY <1>1, <1>2, FreshSame
  <1>4. /\ Closed(ev \o <<e>>) /\ OpenStays(ev, ev \o <<e>>)
        /\ \A node \in Node : E!NodeSeconds(ev \o <<e>>, node) = E!NodeSeconds(ev, node)
    BY <1>3, SpansSame DEF OpenStays
  <1>5. /\ E!GateSeconds(ev \o <<e>>, e.type) = E!GateSeconds(ev, e.type) + e.wait
        /\ \A type \in WaitType : type # e.type =>
              E!GateSeconds(ev \o <<e>>, type) = E!GateSeconds(ev, type)
    BY WaitsMore
  <1> QED BY <1>3, <1>4, <1>5, NodesOf DEF Waits

LEMMA OpensStill ==
  \A ev, ev1, ev2 : \A node \in Node :
     /\ Opens(ev, ev1, node) /\ Still(ev1, ev2) => Opens(ev, ev2, node)
     /\ Still(ev, ev1) /\ Opens(ev1, ev2, node) => Opens(ev, ev2, node)
     /\ Closes(ev, ev1, node) /\ Still(ev1, ev2) => Closes(ev, ev2, node)
     /\ Still(ev, ev1) /\ Still(ev1, ev2) => Still(ev, ev2)
  BY DEF Opens, Closes, Still, WaitsStay, OpenStays

\* The chain events the handlers write.
LEMMA MarksWritten ==
  ASSUME clock \in Nat, NEW node \in Node
  PROVE  /\ Tracked("chain_start", node) \in Event /\ Tracked("chain_end", node) \in Event
         /\ Tracked("chain_start", node).type = "chain_start"
         /\ Tracked("chain_start", node).at = clock /\ Tracked("chain_start", node).what = node
         /\ Tracked("chain_end", node).type = "chain_end"
         /\ Tracked("chain_end", node).at = clock /\ Tracked("chain_end", node).what = node
  <1>1. Tracked("chain_start", node) \in Event /\ Tracked("chain_end", node) \in Event
    BY TrackedWritten
  <1>2. /\ Tracked("chain_start", node).type = "chain_start"
        /\ Tracked("chain_start", node).at = clock /\ Tracked("chain_start", node).what = node
        /\ Tracked("chain_end", node).type = "chain_end"
        /\ Tracked("chain_end", node).at = clock /\ Tracked("chain_end", node).what = node
    BY DEF Tracked
  <1> QED BY <1>1, <1>2

LEMMA StartMarks ==
  ASSUME NEW ev \in Seq(Event), Closed(ev), clock \in Nat, NEW node \in Node
  PROVE  /\ Opens(ev, ev \o <<Tracked("chain_start", node)>>, node)
         /\ Marks(ev, "chain_start", node) # {} =>
               Closes(ev, ev \o <<Tracked("chain_end", node)>>, node)
  <1> DEFINE d == Tracked("chain_start", node)
             e == Tracked("chain_end", node)
  <1>1. /\ d \in Event /\ e \in Event /\ d.type = "chain_start" /\ d.at = clock /\ d.what = node
        /\ e.type = "chain_end" /\ e.at = clock /\ e.what = node
    BY MarksWritten
  <1> HIDE DEF d, e
  <1>2. Opens(ev, ev \o <<d>>, node)
    BY <1>1, OpensOne
  <1>3. Marks(ev, "chain_start", node) # {} => Closes(ev, ev \o <<e>>, node)
    BY <1>1, ClosesOne
  <1> QED BY <1>2, <1>3 DEF d, e

\* A chain event, and others after it.
LEMMA StagedMarks ==
  ASSUME Typed, Stamped, Closed(events), NEW e, NEW rid, NEW load, Staged(e, rid, load)
  PROVE  \E ev : ev = events \o <<e>> /\ (ev \in Seq(Event) /\ Closed(ev) => Still(ev, events'))
  <1>1. PICK b, c : /\ Fresh(b, {"plan_extracted", "prediction_result"})
                    /\ Fresh(c, {"prefetch_decision", "prefetch_started"})
                    /\ events' = ((events \o <<e>>) \o b) \o c
    BY DEF Staged
  <1> DEFINE ev == events \o <<e>>
  <1> HIDE DEF ev
  <1>2. ASSUME ev \in Seq(Event), Closed(ev)
        PROVE  Still(ev, (ev \o b) \o c)
    <2>1. {"plan_extracted", "prediction_result"} \cap (SpanType \cup WaitType) = {}
      BY DEF SpanType, WaitType
    <2>2. {"prefetch_decision", "prefetch_started"} \cap (SpanType \cup WaitType) = {}
      BY DEF SpanType, WaitType
    <2>3. Still(ev, ev \o b)
      BY <1>1, <1>2, <2>1, StillOn
    <2>4. ev \o b \in Seq(Event) /\ Closed(ev \o b)
      BY <2>3 DEF Still
    <2>5. Still(ev \o b, (ev \o b) \o c)
      BY <1>1, <2>2, <2>4, StillOn
    <2>6. "WorkerAgent" \in Node
      BY DEF Node
    <2> QED BY <2>3, <2>5, <2>6, OpensStill
  <1> QED BY <1>1, <1>2 DEF ev

LEMMA PlannerMarks ==
  ASSUME Typed, Stamped, Kept(events, tasks), Closed(events)
  PROVE  /\ PlannerStarts => Opens(events, events', "PlannerAgent")
         /\ PlannerEnds /\ Marks(events, "chain_start", "PlannerAgent") # {} =>
               Closes(events, events', "PlannerAgent")
  <1> DEFINE node == "PlannerAgent"
  <1>1. events \in Seq(Event) /\ clock \in Nat /\ node \in Node
    BY DEF Typed, Stamped, Node
  <1>2. ASSUME PlannerStarts
        PROVE  Opens(events, events', node)
    <2> DEFINE ev == events \o <<Tracked("chain_start", node)>>
    <2>1. Opens(events, ev, node)
      BY <1>1, StartMarks
    <2>2. ev \in Seq(Event) /\ Closed(ev)
      BY <2>1 DEF Opens
    <2>3. Still(ev, events')
      BY <1>2, <2>2, PlannerStartsTells, StagedMarks
    <2> HIDE DEF ev, node
    <2> QED BY <1>1, <2>1, <2>3, OpensStill
  <1>3. ASSUME PlannerEnds, Marks(events, "chain_start", node) # {}
        PROVE  Closes(events, events', node)
    <2> DEFINE ev == events \o <<Tracked("chain_end", node)>>
    <2>1. Closes(events, ev, node)
      BY <1>1, <1>3, StartMarks
    <2>2. ev \in Seq(Event) /\ Closed(ev)
      BY <2>1 DEF Closes
    <2>3. Still(ev, events')
      BY <1>3, <2>2, PlannerEndsTells, StagedMarks
    <2> HIDE DEF ev, node
    <2> QED BY <1>1, <2>1, <2>3, OpensStill
  <1> QED BY <1>2, <1>3

LEMMA GateMarks ==
  ASSUME Typed, Stamped, Kept(events, tasks), Closed(events), WorkerGate
  PROVE  Opens(events, events', "WorkerAgent")
  <1> DEFINE node == "WorkerAgent"
             ev == events \o <<Tracked("chain_start", node)>>
  <1>1. events \in Seq(Event) /\ clock \in Nat /\ node \in Node
    BY DEF Typed, Stamped, Node
  <1>2. PICK c : Fresh(c, {"resource_consumed"}) /\ events' = ev \o c
    BY WorkerGateTells DEF GateTells
  <1>3. Opens(events, ev, node)
    BY <1>1, StartMarks
  <1>4. ev \in Seq(Event) /\ Closed(ev)
    BY <1>3 DEF Opens
  <1>5. {"resource_consumed"} \cap (SpanType \cup WaitType) = {}
    BY DEF SpanType, WaitType
  <1> HIDE DEF ev, node
  <1>6. Still(ev, ev \o c)
    BY <1>2, <1>4, <1>5, StillOn
  <1>7. Opens(events, events', node)
    BY <1>1, <1>2, <1>3, <1>6, OpensStill
  <1> QED BY <1>7 DEF node

LEMMA ToolMarks ==
  ASSUME Typed, Stamped, Kept(events, tasks), Closed(events), NEW tool \in Tool,
         NEW predicts \in BOOLEAN, NEW admitted \in BOOLEAN, ToolStarts(tool, predicts, admitted),
         Marks(events, "chain_start", "WorkerAgent") # {}
  PROVE  Closes(events, events', "WorkerAgent")
  <1> DEFINE node == "WorkerAgent"
             d == Tracked("chain_end", node)
             e == Tracked("tool_call", tool)
             ev1 == events \o <<d>>
             ev2 == ev1 \o <<e>>
             ev3 == AtCall(tool)
             ev4 == AtVerdict(tool)
             ev5 == AtPrediction(tool, predicts)
             others == SpanType \cup WaitType
  <1>1. events \in Seq(Event) /\ clock \in Nat /\ node \in Node
    BY DEF Typed, Stamped, Node
  <1>2. d \in Event /\ e \in Event
    BY <1>1, TrackedWritten DEF Node
  <1>3. e.type = "tool_call" /\ e.at = clock
    BY DEF Tracked
  <1>4. ToolTells(tool, predicts, admitted)
    BY ToolStartsTells
  <1>5. Closes(events, ev1, node)
    BY <1>1, StartMarks
  <1>6. ev1 \in Seq(Event) /\ Closed(ev1)
    BY <1>5 DEF Closes
  <1>7. Still(ev1, ev2)
    <2>1. {"tool_call"} \cap others = {}
      BY DEF SpanType, WaitType
    <2> HIDE DEF e, ev1, others
    <2>2. Fresh(<<e>>, {"tool_call"})
      BY <1>2, <1>3, FreshOne
    <2> QED BY <1>6, <2>1, <2>2, StillOn DEF others
  <1>8. ev2 = events \o Called(tool)
    <2>1. Called(tool) = <<d, e>>
      BY DEF Called
    <2> HIDE DEF d, e
    <2> QED BY <1>1, <1>2, <2>1, PairAdded
  <1> DEFINE judge == {"prediction_validated", "resource_consumed", "divergence_detected",
                       "prefetch_cancelled", "conservative_mode"}
  <1>9. /\ ev3 = ev2 \o BootEvents(tool)
        /\ ev4 = ev3 \o Judge(tool).events
        /\ ev5 = ev4 \o MadeEvents(tool, predicts)
        /\ events' = ev5 \o Ahead(tool, predicts, admitted)[2]
    <2> HIDE DEF ev2
    <2> QED BY <1>4, <1>8 DEF AtCall, AtVerdict, AtPrediction, ToolTells
  <1>10. /\ Fresh(BootEvents(tool), {"aggregator_prefetch_start"})
         /\ Fresh(Judge(tool).events, judge)
         /\ Fresh(MadeEvents(tool, predicts), {"prediction_result", "checkpoint_created"})
         /\ Fresh(Ahead(tool, predicts, admitted)[2], {"prefetch_decision", "prefetch_started"})
    BY <1>4 DEF ToolTells, Judged, AheadTells
  <1>11. /\ {"aggregator_prefetch_start"} \cap others = {} /\ judge \cap others = {}
         /\ {"prediction_result", "checkpoint_created"} \cap others = {}
         /\ {"prefetch_decision", "prefetch_started"} \cap others = {}
    BY DEF SpanType, WaitType
  <1> DEFINE seq(ev) == ev \in Seq(Event) /\ Closed(ev)
  <1>12. \A ev, new, types : seq(ev) /\ Fresh(new, types) /\ types \cap others = {}
                                => Still(ev, ev \o new)
    BY StillOn
  <1>13. \A ev, ev0 : Still(ev0, ev) => seq(ev)
    BY DEF Still
  <1> HIDE DEF d, e, ev1, ev2, ev3, ev4, ev5, others, judge, seq, node
  <1>14. Still(ev2, ev3)
    BY <1>7, <1>9, <1>10, <1>11, <1>12, <1>13
  <1>15. Still(ev3, ev4)
    BY <1>9, <1>10, <1>11, <1>12, <1>13, <1>14
  <1>16. Still(ev4, ev5)
    BY <1>9, <1>10, <1>11, <1>12, <1>13, <1>15
  <1>17. Still(ev5, events')
    BY <1>9, <1>10, <1>11, <1>12, <1>13, <1>16
  <1>18. Still(ev1, ev3)
    BY <1>1, <1>7, <1>14, OpensStill
  <1>19. Still(ev3, ev5)
    BY <1>1, <1>15, <1>16, OpensStill
  <1>20. Still(ev1, ev5)
    BY <1>1, <1>18, <1>19, OpensStill
  <1>21. Still(ev1, events')
    BY <1>1, <1>17, <1>20, OpensStill
  <1>22. Closes(events, events', node)
    BY <1>1, <1>5, <1>21, OpensStill
  <1> QED BY <1>22 DEF node

LEMMA TurnMarks ==
  ASSUME Typed, Stamped, Closed(events)
  PROVE  /\ ToolEnds => Opens(events, events', "WorkerAgent")
         /\ AggregatorGate /\ Marks(events, "chain_start", "WorkerAgent") # {} =>
               \E ev : Closes(events, ev, "WorkerAgent") /\ Opens(ev, events', "AggregatorAgent")
         /\ RunEnds /\ Marks(events, "chain_start", "AggregatorAgent") # {} =>
               Closes(events, events', "AggregatorAgent")
  <1> DEFINE worker == "WorkerAgent"
             last == "AggregatorAgent"
  <1>1. events \in Seq(Event) /\ clock \in Nat /\ worker \in Node /\ last \in Node /\ since \in Int
    BY DEF Typed, Stamped, Node
  <1>2. ASSUME ToolEnds
        PROVE  Opens(events, events', worker)
    <2> DEFINE d == Timed("tool_end", None, clock - since)
               e == Tracked("chain_start", worker)
    <2>1. events' = events \o <<d, e>>
      BY <1>2 DEF ToolEnds, Emit
    <2>2. d \in Event /\ e \in Event
      BY <1>1, TrackedWritten
    <2>3. d.type = "tool_end" /\ d.at = clock
      BY DEF Timed
    <2>4. {"tool_end"} \cap (SpanType \cup WaitType) = {}
      BY DEF SpanType, WaitType
    <2> HIDE DEF d
    <2>5. Fresh(<<d>>, {"tool_end"})
      BY <2>2, <2>3, FreshOne
    <2>6. Still(events, events \o <<d>>)
      BY <1>1, <2>4, <2>5, StillOn
    <2>7. events \o <<d>> \in Seq(Event) /\ Closed(events \o <<d>>)
      BY <2>6 DEF Still
    <2>8. Opens(events \o <<d>>, (events \o <<d>>) \o <<e>>, worker)
      BY <1>1, <2>7, StartMarks
    <2> HIDE DEF e, worker
    <2>9. events' = (events \o <<d>>) \o <<e>>
      BY <1>1, <2>1, <2>2, PairAdded
    <2> QED BY <1>1, <2>6, <2>8, <2>9, OpensStill
  <1>3. ASSUME AggregatorGate, Marks(events, "chain_start", worker) # {}
        PROVE  \E ev : Closes(events, ev, worker) /\ Opens(ev, events', last)
    <2> DEFINE d == Tracked("chain_end", worker)
               e == Tracked("chain_start", last)
    <2>1. events' = events \o <<d, e>>
      BY <1>3 DEF AggregatorGate, Emit
    <2>2. d \in Event /\ e \in Event
      BY <1>1, MarksWritten
    <2>3. Closes(events, events \o <<d>>, worker)
      BY <1>1, <1>3, StartMarks
    <2>4. events \o <<d>> \in Seq(Event) /\ Closed(events \o <<d>>)
      BY <2>3 DEF Closes
    <2>5. Opens(events \o <<d>>, (events \o <<d>>) \o <<e>>, last)
      BY <1>1, <2>4, StartMarks
    <2> HIDE DEF d, e, worker, last
    <2>6. events' = (events \o <<d>>) \o <<e>>
      BY <1>1, <2>1, <2>2, PairAdded
    <2> QED BY <2>3, <2>5, <2>6
  <1>4. ASSUME RunEnds, Marks(events, "chain_start", last) # {}
        PROVE  Closes(events, events', last)
    <2>1. events' = events \o <<Tracked("chain_end", last)>>
      BY <1>4 DEF RunEnds, Emit
    <2> QED BY <1>1, <1>4, <2>1, StartMarks
  <1> QED BY <1>2, <1>3, <1>4

LEMMA QuietMarks ==
  ASSUME Typed, Stamped, Kept(events, tasks), LagsMet, Closed(events)
  PROVE  /\ (\E k \in DOMAIN tasks : TakesCalculator(k)) \/ LoadedItself => Still(events, events')
         /\ \A k \in DOMAIN tasks : PollReports(k) => Still(events, events')
         /\ LoadsItself \/ Tick => Still(events, events')
  <1>1. events \in Seq(Event)
    BY DEF Stamped
  <1>2. \A new, types : Fresh(new, types) /\ types \cap (SpanType \cup WaitType) = {} =>
                           Still(events, events \o new)
    BY <1>1, StillOn
  <1>3. ASSUME (\E k \in DOMAIN tasks : TakesCalculator(k)) \/ LoadedItself
        PROVE  Still(events, events')
    <2>1. {"mace_load"} \cap (SpanType \cup WaitType) = {}
      BY DEF SpanType, WaitType
    <2>2. PICK new : Fresh(new, {"mace_load"}) /\ events' = events \o new
      BY <1>3, SimpleTells DEF Grew
    <2> QED BY <1>2, <2>1, <2>2
  <1>4. ASSUME NEW k \in DOMAIN tasks, PollReports(k)
        PROVE  Still(events, events')
    <2>1. {"prefetch_completed"} \cap (SpanType \cup WaitType) = {}
      BY DEF SpanType, WaitType
    <2>2. PICK new : Fresh(new, {"prefetch_completed"}) /\ events' = events \o new
      BY <1>4, PollReportsTells DEF ReportTells
    <2> QED BY <1>2, <2>1, <2>2
  <1>5. ASSUME LoadsItself \/ Tick
        PROVE  Still(events, events')
    BY <1>1, <1>5, StillNone, SimpleTells
  <1> QED BY <1>3, <1>4, <1>5

LEMMA ReadyMarks ==
  ASSUME Typed, Stamped, Closed(events)
  PROVE  /\ WorkerReady => Waits(events, events', "worker_swap_wait", clock - since)
         /\ AggregatorReady => Waits(events, events', "aggregator_swap_wait", clock - since)
  <1>1. /\ events \in Seq(Event) /\ clock \in Nat /\ since \in Nat /\ since <= clock
        /\ onDemand \in BOOLEAN
    BY DEF Typed, Stamped
  <1> DEFINE type(gate) == IF gate = "worker" THEN "worker_swap_wait" ELSE "aggregator_swap_wait"
  <1>2. ASSUME NEW gate \in Gate
        PROVE  Waits(events, events \o <<SwapWait(gate)>>, type(gate), clock - since)
    <2> DEFINE e == SwapWait(gate)
    <2>1. e \in Event
      BY <1>1, WaitsWritten
    <2>2. /\ e.type = type(gate) /\ e.at = clock /\ e.wait = clock - since
      BY DEF SwapWait
    <2>3. type(gate) \in WaitType
      BY DEF WaitType
    <2> HIDE DEF e, type
    <2> QED BY <1>1, <2>1, <2>2, <2>3, WaitsOne DEF e
  <1>3. ASSUME WorkerReady
        PROVE  Waits(events, events', "worker_swap_wait", clock - since)
    <2>1. events' = events \o (IF ReportsWait(clock - since) THEN <<SwapWait("worker")>> ELSE <<>>)
      BY <1>3 DEF WorkerReady, Emit
    <2>2. CASE ReportsWait(clock - since)
      BY <1>2, <2>1, <2>2 DEF Gate
    <2>3. CASE ~ReportsWait(clock - since)
      <3>1. clock - since = 0 /\ events' = events
        BY <1>1, <2>1, <2>3 DEF ReportsWait
      <3>2. E!GateSeconds(events, "worker_swap_wait") + 0 = E!GateSeconds(events, "worker_swap_wait")
        <4>1. "worker_swap_wait" \in WaitType
          BY DEF WaitType
        <4>2. E!GateSeconds(events, "worker_swap_wait") \in Int
          BY <1>1, <4>1, GateSecondsInt
        <4> QED BY <4>2
      <3> QED BY <1>1, <3>1, <3>2 DEF Waits, OpenStays
    <2> QED BY <2>2, <2>3
  <1>4. ASSUME AggregatorReady
        PROVE  Waits(events, events', "aggregator_swap_wait", clock - since)
    <2>1. events' = events \o <<SwapWait("aggregator")>>
      BY <1>4 DEF AggregatorReady, Emit
    <2> QED BY <1>2, <2>1 DEF Gate
  <1> QED BY <1>3, <1>4

-------------------------------------------------------------------------------
(* The reasoning time and the gates, in every state.                       *)

\* The node whose chain is open, and the activities it thinks in.
NodeOpen(activity, node) ==
    \/ activity = "planner" /\ node = "PlannerAgent"
    \/ activity \in {"worker_gate", "worker"} /\ node = "WorkerAgent"
    \/ activity \in {"aggregator_gate", "aggregator"} /\ node = "AggregatorAgent"
Thinking == {"planner", "worker", "aggregator"}

Reasoned(ev) == Spans(ev) - E!WaitsInChains(ev)

\* What nodes had to think, but for the wait they are in, is in the spans that
\* are closed and in the one that is open.
ThoughtTold ==
    /\ Closed(events)
    /\ \A node \in Node : NodeOpen(pc, node) =>
          /\ Marks(events, "chain_start", node) # {}
          /\ pc \in {"worker_gate", "aggregator_gate"} => Opened(events, node) = since
          /\ pc \in Thinking => thought = Reasoned(events) + (clock - Opened(events, node))
    /\ pc \notin Thinking => thought = Reasoned(events)

\* Every second at a gate is in the trace.
GatesTold ==
    /\ E!GateSeconds(events, "worker_swap_wait") = Stood(needs, {"worker"})
    /\ E!GateSeconds(events, "aggregator_swap_wait") = Stood(needs, {"aggregator"})

LEMMA ReasonedInt ==
  ASSUME NEW ev \in Seq(Event), Closed(ev)
  PROVE  Reasoned(ev) \in Int
  <1>1. /\ E!GateSeconds(ev, "worker_swap_wait") \in Int
        /\ E!GateSeconds(ev, "aggregator_swap_wait") \in Int
    BY GateSecondsInt DEF WaitType
  <1>2. Spans(ev) \in Int
    BY SpansTotal
  <1> QED BY <1>1, <1>2 DEF Reasoned, E!WaitsInChains, E!SwapWaitSeconds, E!AggregatorWaitSeconds

LEMMA ReasonedAfter ==
  ASSUME NEW ev \in Seq(Event), Closed(ev), clock \in Nat, NEW ev2
  PROVE  /\ Still(ev, ev2) => Reasoned(ev2) = Reasoned(ev)
         /\ \A node \in Node : Opens(ev, ev2, node) => Reasoned(ev2) = Reasoned(ev)
         /\ \A node \in Node : Closes(ev, ev2, node) /\ Marks(ev, "chain_start", node) # {} =>
                                  Reasoned(ev2) = Reasoned(ev) + (clock - Opened(ev, node))
         /\ \A type \in WaitType, n \in Int : Waits(ev, ev2, type, n) =>
                                                 Reasoned(ev2) = Reasoned(ev) - n
  <1> DEFINE a == "worker_swap_wait"
             b == "aggregator_swap_wait"
  <1>1. /\ E!GateSeconds(ev, a) \in Int /\ E!GateSeconds(ev, b) \in Int /\ Spans(ev) \in Int
    BY GateSecondsInt, SpansTotal DEF WaitType
  <1>2. \A e : Reasoned(e) = Spans(e) - (E!GateSeconds(e, a) + E!GateSeconds(e, b))
    BY DEF Reasoned, E!WaitsInChains, E!SwapWaitSeconds, E!AggregatorWaitSeconds
  <1>3. WaitType = {a, b} /\ a # b
    BY DEF WaitType
  <1> HIDE DEF a, b
  <1>4. WaitsStay(ev, ev2) => /\ E!GateSeconds(ev2, a) = E!GateSeconds(ev, a)
                              /\ E!GateSeconds(ev2, b) = E!GateSeconds(ev, b)
    BY <1>3 DEF WaitsStay
  <1>5. Still(ev, ev2) => Reasoned(ev2) = Reasoned(ev)
    BY <1>2, <1>4 DEF Still
  <1>6. \A node \in Node : Opens(ev, ev2, node) => Reasoned(ev2) = Reasoned(ev)
    BY <1>2, <1>4 DEF Opens
  <1>7. ASSUME NEW node \in Node, Closes(ev, ev2, node), Marks(ev, "chain_start", node) # {}
        PROVE  Reasoned(ev2) = Reasoned(ev) + (clock - Opened(ev, node))
    <2>1. Opened(ev, node) \in Nat
      BY <1>7, OpenStart
    <2>2. Spans(ev2) = Spans(ev) + (clock - Opened(ev, node)) /\ WaitsStay(ev, ev2)
      BY <1>7 DEF Closes
    <2> QED BY <1>1, <1>2, <1>4, <2>1, <2>2
  <1>8. ASSUME NEW type \in WaitType, NEW n \in Int, Waits(ev, ev2, type, n)
        PROVE  Reasoned(ev2) = Reasoned(ev) - n
    <2>1. /\ Spans(ev2) = Spans(ev)
          /\ E!GateSeconds(ev2, type) = E!GateSeconds(ev, type) + n
          /\ \A other \in WaitType \ {type} : E!GateSeconds(ev2, other) = E!GateSeconds(ev, other)
      BY <1>8 DEF Waits
    <2>2. CASE type = a
      BY <1>1, <1>2, <1>3, <2>1, <2>2
    <2>3. CASE type = b
      BY <1>1, <1>2, <1>3, <2>1, <2>3
    <2> QED BY <1>3, <2>2, <2>3
  <1> QED BY <1>5, <1>6, <1>7, <1>8

\* What a step leaves and enters.
LEMMA Moves ==
  ASSUME Typed
  PROVE  /\ PlannerStarts => pc = "begin" /\ pc' = "planner" /\ thought' = thought
         /\ PlannerEnds => pc = "planner" /\ pc' = "planned" /\ thought' = thought
         /\ WorkerGate => pc = "planned" /\ pc' = "worker_gate" /\ thought' = thought /\ since' = clock
         /\ WorkerReady => pc = "worker_gate" /\ pc' = "worker" /\ thought' = thought
         /\ \A tool \in Tool, p \in BOOLEAN, a \in BOOLEAN : ToolStarts(tool, p, a) =>
               pc = "worker" /\ pc' \in {"loading", "tool"} /\ thought' = thought
         /\ (\E k \in DOMAIN tasks : TakesCalculator(k)) =>
               pc = "loading" /\ pc' = "tool" /\ thought' = thought
         /\ LoadsItself => pc = "loading" /\ pc' = "disk" /\ thought' = thought
         /\ LoadedItself => pc = "disk" /\ pc' = "tool" /\ thought' = thought
         /\ ToolEnds => pc = "tool" /\ pc' = "worker" /\ thought' = thought
         /\ AggregatorGate => /\ pc = "worker" /\ pc' = "aggregator_gate" /\ thought' = thought
                              /\ since' = clock
         /\ AggregatorReady => pc = "aggregator_gate" /\ pc' = "aggregator" /\ thought' = thought
         /\ RunEnds => pc = "aggregator" /\ pc' = "ended" /\ thought' = thought
         /\ \A k \in DOMAIN tasks : PollReports(k) => UNCHANGED <<pc, thought, since, clock, needs>>
         /\ Tick => /\ UNCHANGED <<pc, since, events, tasks, needs>> /\ clock' = clock + 1
                    /\ thought' = IF pc \in Thinking THEN thought + 1 ELSE thought
  <1>1. /\ PlannerStarts => pc = "begin" /\ pc' = "planner" /\ thought' = thought
        /\ PlannerEnds => pc = "planner" /\ pc' = "planned" /\ thought' = thought
        /\ WorkerGate => pc = "planned" /\ pc' = "worker_gate" /\ thought' = thought /\ since' = clock
        /\ WorkerReady => pc = "worker_gate" /\ pc' = "worker" /\ thought' = thought
    BY DEF PlannerStarts, PlannerEnds, WorkerGate, WorkerReady, Enter, Leave
  <1>2. ASSUME NEW tool \in Tool, NEW p \in BOOLEAN, NEW a \in BOOLEAN, ToolStarts(tool, p, a)
        PROVE  pc = "worker" /\ pc' \in {"loading", "tool"} /\ thought' = thought
    BY <1>2 DEF ToolStarts, Enter, Leave
  <1>3. /\ (\E k \in DOMAIN tasks : TakesCalculator(k)) =>
              pc = "loading" /\ pc' = "tool" /\ thought' = thought
        /\ LoadsItself => pc = "loading" /\ pc' = "disk" /\ thought' = thought
        /\ LoadedItself => pc = "disk" /\ pc' = "tool" /\ thought' = thought
        /\ ToolEnds => pc = "tool" /\ pc' = "worker" /\ thought' = thought
    BY DEF TakesCalculator, LoadsItself, LoadedItself, ToolEnds, HasCalculator, Enter, Leave
  <1>4. /\ AggregatorGate => /\ pc = "worker" /\ pc' = "aggregator_gate" /\ thought' = thought
                             /\ since' = clock
        /\ AggregatorReady => pc = "aggregator_gate" /\ pc' = "aggregator" /\ thought' = thought
        /\ RunEnds => pc = "aggregator" /\ pc' = "ended" /\ thought' = thought
    BY DEF AggregatorGate, AggregatorReady, RunEnds, Enter, Leave
  <1>5. \A k \in DOMAIN tasks : PollReports(k) => UNCHANGED <<pc, thought, since, clock, needs>>
    BY DEF PollReports
  <1>6. Tick => /\ UNCHANGED <<pc, since, events, tasks, needs>> /\ clock' = clock + 1
                /\ thought' = IF pc \in Thinking THEN thought + 1 ELSE thought
    BY DEF Tick, Thinking
  <1> QED BY <1>1, <1>2, <1>3, <1>4, <1>5, <1>6

LEMMA ThoughtNext ==
  ASSUME Typed, Stamped, Kept(events, tasks), LagsMet, ThoughtTold, [TraceNext]_vars
  PROVE  ThoughtTold'
  <1>1. /\ events \in Seq(Event) /\ Closed(events) /\ clock \in Nat /\ since \in Nat
        /\ since <= clock /\ thought \in Nat
    BY DEF Typed, Stamped, ThoughtTold
  <1>2. Reasoned(events) \in Int
    BY <1>1, ReasonedInt
  <1>3. \A node \in Node : Marks(events, "chain_start", node) # {} => Opened(events, node) \in Nat
    BY <1>1, OpenStart
  <1>4. \A node \in Node : NodeOpen(pc, node) => Marks(events, "chain_start", node) # {}
    BY DEF ThoughtTold
  <1>5. "PlannerAgent" \in Node /\ "WorkerAgent" \in Node /\ "AggregatorAgent" \in Node
    BY DEF Node
  <1>6. CASE UNCHANGED vars
    BY <1>6 DEF ThoughtTold, vars
  <1>7. ASSUME Still(events, events'), pc' \notin Thinking, pc \notin Thinking, thought' = thought,
               \A node \in Node : ~NodeOpen(pc', node)
        PROVE  ThoughtTold'
    <2>1. Reasoned(events') = Reasoned(events) /\ Closed(events')
      BY <1>1, <1>7, ReasonedAfter DEF Still
    <2> QED BY <1>7, <2>1 DEF ThoughtTold
  <1>8. ASSUME NEW node \in Node, Opens(events, events', node), clock' = clock,
               pc \notin Thinking, thought' = thought,
               \A n \in Node : NodeOpen(pc', n) => n = node,
               pc' \in {"worker_gate", "aggregator_gate"} => since' = clock
        PROVE  ThoughtTold'
    <2>1. /\ Reasoned(events') = Reasoned(events) /\ Closed(events')
          /\ Marks(events', "chain_start", node) # {} /\ Opened(events', node) = clock
      BY <1>1, <1>8, ReasonedAfter DEF Opens
    <2>2. thought = Reasoned(events)
      BY <1>8 DEF ThoughtTold
    <2> QED BY <1>1, <1>8, <2>1, <2>2 DEF ThoughtTold
  <1>9. ASSUME NEW node \in Node, NEW ev, Closes(events, ev, node), pc \in Thinking, NodeOpen(pc, node)
        PROVE  thought = Reasoned(ev)
    <2>1. Reasoned(ev) = Reasoned(events) + (clock - Opened(events, node))
      BY <1>1, <1>4, <1>9, ReasonedAfter
    <2> QED BY <1>9, <2>1 DEF ThoughtTold
  <1>10. ASSUME NEW node \in Node, Closes(events, events', node), pc \in Thinking,
                NodeOpen(pc, node), pc' \notin Thinking, thought' = thought,
                \A n \in Node : ~NodeOpen(pc', n)
         PROVE  ThoughtTold'
    <2>1. thought = Reasoned(events') /\ Closed(events')
      BY <1>9, <1>10 DEF Closes
    <2> QED BY <1>10, <2>1 DEF ThoughtTold
  <1>11. ASSUME NEW node \in Node, NEW type \in WaitType,
                Waits(events, events', type, clock - since), clock' = clock, thought' = thought,
                pc \in {"worker_gate", "aggregator_gate"}, NodeOpen(pc, node),
                pc' \in Thinking, pc' \notin {"worker_gate", "aggregator_gate"},
                \A n \in Node : NodeOpen(pc', n) => n = node
         PROVE  ThoughtTold'
    <2>1. Reasoned(events') = Reasoned(events) - (clock - since)
      BY <1>1, <1>11, ReasonedAfter
    <2>2. /\ Closed(events') /\ Marks(events', "chain_start", node) # {}
          /\ Opened(events', node) = since
      BY <1>4, <1>11 DEF Waits, OpenStays, ThoughtTold
    <2>3. thought = Reasoned(events)
      BY <1>11 DEF ThoughtTold, Thinking
    <2>4. thought' = Reasoned(events') + (clock' - Opened(events', node))
      BY <1>1, <1>2, <1>11, <2>1, <2>2, <2>3
    <2> QED BY <1>11, <2>2, <2>4 DEF ThoughtTold
  <1>12. CASE PlannerStarts
    <2>1. Opens(events, events', "PlannerAgent")
      BY <1>1, <1>12, PlannerMarks
    <2>2. pc = "begin" /\ pc' = "planner" /\ thought' = thought /\ clock' = clock
      BY <1>12, Moves DEF PlannerStarts
    <2> QED BY <1>5, <1>8, <2>1, <2>2 DEF NodeOpen, Thinking
  <1>13. CASE PlannerEnds
    <2>1. pc = "planner" /\ pc' = "planned" /\ thought' = thought
      BY <1>13, Moves
    <2>2. NodeOpen(pc, "PlannerAgent") /\ \A n \in Node : ~NodeOpen(pc', n)
      BY <2>1 DEF NodeOpen
    <2>3. Closes(events, events', "PlannerAgent")
      BY <1>1, <1>4, <1>5, <1>13, <2>2, PlannerMarks
    <2> QED BY <1>5, <1>10, <2>1, <2>2, <2>3 DEF Thinking
  <1>14. CASE WorkerGate
    <2>1. /\ pc = "planned" /\ pc' = "worker_gate" /\ thought' = thought /\ since' = clock
          /\ clock' = clock
      BY <1>14, Moves DEF WorkerGate
    <2>2. Opens(events, events', "WorkerAgent")
      BY <1>1, <1>14, GateMarks
    <2>3. \A n \in Node : NodeOpen(pc', n) => n = "WorkerAgent"
      BY <2>1 DEF NodeOpen
    <2> QED BY <1>5, <1>8, <2>1, <2>2, <2>3 DEF Thinking
  <1>15. CASE WorkerReady
    <2>1. pc = "worker_gate" /\ pc' = "worker" /\ thought' = thought /\ clock' = clock
      BY <1>15, Moves DEF WorkerReady
    <2>2. Waits(events, events', "worker_swap_wait", clock - since)
      BY <1>1, <1>15, ReadyMarks
    <2>3. /\ NodeOpen(pc, "WorkerAgent") /\ \A n \in Node : NodeOpen(pc', n) => n = "WorkerAgent"
          /\ pc' \in Thinking
      BY <2>1 DEF NodeOpen, Thinking
    <2>4. "worker_swap_wait" \in WaitType
      BY DEF WaitType
    <2> QED BY <1>5, <1>11, <2>1, <2>2, <2>3, <2>4
  <1>16. ASSUME NEW tool \in Tool, NEW p \in BOOLEAN, NEW a \in BOOLEAN, ToolStarts(tool, p, a)
         PROVE  ThoughtTold'
    <2>1. pc = "worker" /\ pc' \in {"loading", "tool"} /\ thought' = thought
      BY <1>16, Moves
    <2>2. NodeOpen(pc, "WorkerAgent") /\ \A n \in Node : ~NodeOpen(pc', n)
      BY <2>1 DEF NodeOpen
    <2>3. Closes(events, events', "WorkerAgent")
      BY <1>1, <1>4, <1>5, <1>16, <2>2, ToolMarks
    <2> QED BY <1>5, <1>10, <2>1, <2>2, <2>3 DEF Thinking
  <1>17. CASE (\E k \in DOMAIN tasks : TakesCalculator(k)) \/ LoadsItself \/ LoadedItself
    <2>1. /\ pc \in {"loading", "disk"} /\ pc' \in {"tool", "disk"} /\ thought' = thought
      BY <1>17, Moves
    <2>2. Still(events, events')
      BY <1>1, <1>17, QuietMarks
    <2> QED BY <1>7, <2>1, <2>2 DEF NodeOpen, Thinking
  <1>18. CASE ToolEnds
    <2>1. pc = "tool" /\ pc' = "worker" /\ thought' = thought /\ clock' = clock
      BY <1>18, Moves DEF ToolEnds
    <2>2. Opens(events, events', "WorkerAgent")
      BY <1>1, <1>18, TurnMarks
    <2> QED BY <1>5, <1>8, <2>1, <2>2 DEF NodeOpen, Thinking
  <1>19. CASE AggregatorGate
    <2>1. /\ pc = "worker" /\ pc' = "aggregator_gate" /\ thought' = thought /\ since' = clock
          /\ clock' = clock
      BY <1>19, Moves DEF AggregatorGate
    <2>2. NodeOpen(pc, "WorkerAgent") /\ pc \in Thinking
      BY <2>1 DEF NodeOpen, Thinking
    <2>3. PICK ev : Closes(events, ev, "WorkerAgent") /\ Opens(ev, events', "AggregatorAgent")
      BY <1>1, <1>4, <1>5, <1>19, <2>2, TurnMarks
    <2>4. thought = Reasoned(ev)
      BY <1>5, <1>9, <2>2, <2>3
    <2>5. ev \in Seq(Event) /\ Closed(ev)
      BY <2>3 DEF Closes
    <2>6. /\ Reasoned(events') = Reasoned(ev) /\ Closed(events')
          /\ Marks(events', "chain_start", "AggregatorAgent") # {}
          /\ Opened(events', "AggregatorAgent") = clock
      BY <1>1, <1>5, <2>3, <2>5, ReasonedAfter DEF Opens
    <2>7. \A n \in Node : NodeOpen(pc', n) => n = "AggregatorAgent"
      BY <2>1 DEF NodeOpen
    <2> QED BY <2>1, <2>4, <2>6, <2>7 DEF ThoughtTold, Thinking
  <1>20. CASE AggregatorReady
    <2>1. pc = "aggregator_gate" /\ pc' = "aggregator" /\ thought' = thought /\ clock' = clock
      BY <1>20, Moves DEF AggregatorReady
    <2>2. Waits(events, events', "aggregator_swap_wait", clock - since)
      BY <1>1, <1>20, ReadyMarks
    <2>3. /\ NodeOpen(pc, "AggregatorAgent")
          /\ \A n \in Node : NodeOpen(pc', n) => n = "AggregatorAgent"
          /\ pc' \in Thinking
      BY <2>1 DEF NodeOpen, Thinking
    <2>4. "aggregator_swap_wait" \in WaitType
      BY DEF WaitType
    <2> QED BY <1>5, <1>11, <2>1, <2>2, <2>3, <2>4
  <1>21. CASE RunEnds
    <2>1. pc = "aggregator" /\ pc' = "ended" /\ thought' = thought
      BY <1>21, Moves
    <2>2. NodeOpen(pc, "AggregatorAgent") /\ \A n \in Node : ~NodeOpen(pc', n)
      BY <2>1 DEF NodeOpen
    <2>3. Closes(events, events', "AggregatorAgent")
      BY <1>1, <1>4, <1>5, <1>21, <2>2, TurnMarks
    <2> QED BY <1>5, <1>10, <2>1, <2>2, <2>3 DEF Thinking
  <1>22. ASSUME NEW k \in DOMAIN tasks, PollReports(k)
         PROVE  ThoughtTold'
    <2>1. UNCHANGED <<pc, thought, since, clock>>
      BY <1>22, Moves
    <2>2. Still(events, events')
      BY <1>1, <1>22, QuietMarks
    <2>3. Reasoned(events') = Reasoned(events) /\ Closed(events') /\ OpenStays(events, events')
      BY <1>1, <2>2, ReasonedAfter DEF Still
    <2> QED BY <2>1, <2>3 DEF ThoughtTold, OpenStays
  <1>23. CASE Tick
    <2>1. /\ UNCHANGED <<pc, since, events>> /\ clock' = clock + 1
          /\ thought' = IF pc \in Thinking THEN thought + 1 ELSE thought
      BY <1>23, Moves
    <2>2. ASSUME NEW node \in Node, NodeOpen(pc, node), pc \in Thinking
          PROVE  thought' = Reasoned(events) + (clock' - Opened(events, node))
      <3>1. thought = Reasoned(events) + (clock - Opened(events, node))
        BY <2>2 DEF ThoughtTold
      <3>2. Opened(events, node) \in Nat
        BY <1>3, <1>4, <2>2
      <3> QED BY <1>1, <1>2, <2>1, <2>2, <3>1, <3>2
    <2> QED BY <2>1, <2>2 DEF ThoughtTold
  <1> QED BY <1>6, <1>12, <1>13, <1>14, <1>15, <1>16, <1>17, <1>18, <1>19, <1>20, <1>21, <1>22,
             <1>23 DEF TraceNext, Workflow

LEMMA WaitsUntouched ==
  ASSUME Typed, Stamped, Kept(events, tasks), LagsMet, ThoughtTold, [TraceNext]_vars,
         ~WorkerReady, ~AggregatorReady
  PROVE  WaitsStay(events, events')
  <1>1. events \in Seq(Event) /\ Closed(events)
    BY DEF Stamped, ThoughtTold
  <1>2. \A node \in Node : NodeOpen(pc, node) => Marks(events, "chain_start", node) # {}
    BY DEF ThoughtTold
  <1>3. "PlannerAgent" \in Node /\ "WorkerAgent" \in Node /\ "AggregatorAgent" \in Node
    BY DEF Node
  <1>4. \A ev, ev2, node : Still(ev, ev2) \/ Opens(ev, ev2, node) \/ Closes(ev, ev2, node)
                              => WaitsStay(ev, ev2)
    BY DEF Still, Opens, Closes
  <1>5. CASE UNCHANGED vars
    BY <1>5 DEF WaitsStay, vars
  <1>6. CASE PlannerStarts \/ ToolEnds
    BY <1>1, <1>4, <1>6, PlannerMarks, TurnMarks
  <1>7. CASE PlannerEnds
    <2>1. NodeOpen(pc, "PlannerAgent")
      BY <1>7, Moves DEF NodeOpen
    <2> QED BY <1>1, <1>2, <1>3, <1>4, <1>7, <2>1, PlannerMarks
  <1>8. CASE WorkerGate
    BY <1>1, <1>4, <1>8, GateMarks
  <1>9. ASSUME NEW tool \in Tool, NEW p \in BOOLEAN, NEW a \in BOOLEAN, ToolStarts(tool, p, a)
        PROVE  WaitsStay(events, events')
    <2>1. NodeOpen(pc, "WorkerAgent")
      BY <1>9, Moves DEF NodeOpen
    <2> QED BY <1>1, <1>2, <1>3, <1>4, <1>9, <2>1, ToolMarks
  <1>10. CASE (\E k \in DOMAIN tasks : TakesCalculator(k)) \/ LoadsItself \/ LoadedItself \/ Tick
    BY <1>1, <1>4, <1>10, QuietMarks
  <1>11. CASE AggregatorGate
    <2>1. NodeOpen(pc, "WorkerAgent")
      BY <1>11, Moves DEF NodeOpen
    <2>2. PICK ev : Closes(events, ev, "WorkerAgent") /\ Opens(ev, events', "AggregatorAgent")
      BY <1>1, <1>2, <1>3, <1>11, <2>1, TurnMarks
    <2> QED BY <1>4, <2>2 DEF WaitsStay
  <1>12. CASE RunEnds
    <2>1. NodeOpen(pc, "AggregatorAgent")
      BY <1>12, Moves DEF NodeOpen
    <2> QED BY <1>1, <1>2, <1>3, <1>4, <1>12, <2>1, TurnMarks
  <1>13. ASSUME NEW k \in DOMAIN tasks, PollReports(k)
         PROVE  WaitsStay(events, events')
    BY <1>1, <1>4, <1>13, QuietMarks
  <1> QED BY <1>5, <1>6, <1>7, <1>8, <1>9, <1>10, <1>11, <1>12, <1>13 DEF TraceNext, Workflow

\* What the workflow needs in a step, if anything.
NeedOf(what) == [what |-> what, at |-> since, blocked |-> clock - since]

LEMMA NeedsGrow ==
  ASSUME Typed, [TraceNext]_vars
  PROVE  /\ \A what \in {"worker", "mace", "aggregator"} : NeedOf(what) \in Need
         /\ WorkerReady => needs' = Append(needs, NeedOf("worker"))
         /\ AggregatorReady => needs' = Append(needs, NeedOf("aggregator"))
         /\ (\E k \in DOMAIN tasks : TakesCalculator(k)) \/ LoadedItself =>
               needs' = Append(needs, NeedOf("mace"))
         /\ \/ needs' = needs \/ WorkerReady \/ AggregatorReady
            \/ (\E k \in DOMAIN tasks : TakesCalculator(k)) \/ LoadedItself
  <1>1. \A what \in {"worker", "mace", "aggregator"} : NeedOf(what) \in Need
    <2>1. since \in Nat /\ clock - since \in Nat
      BY DEF Typed
    <2> QED BY <2>1 DEF NeedOf, Need
  <1>2. WorkerReady => needs' = Append(needs, NeedOf("worker"))
    BY DEF WorkerReady, NeedOf
  <1>3. AggregatorReady => needs' = Append(needs, NeedOf("aggregator"))
    BY DEF AggregatorReady, NeedOf
  <1>4. (\E k \in DOMAIN tasks : TakesCalculator(k)) \/ LoadedItself =>
           needs' = Append(needs, NeedOf("mace"))
    BY DEF TakesCalculator, LoadedItself, HasCalculator, NeedOf
  <1>5. \/ needs' = needs \/ WorkerReady \/ AggregatorReady
        \/ (\E k \in DOMAIN tasks : TakesCalculator(k)) \/ LoadedItself
    <2>1. CASE UNCHANGED vars
      BY <2>1 DEF vars
    <2>2. CASE TraceNext
      BY <2>2 DEF TraceNext, Workflow, PollReports, PlannerStarts, PlannerEnds, WorkerGate, ToolStarts,
                  LoadsItself, ToolEnds, AggregatorGate, RunEnds, Tick
    <2> QED BY <2>1, <2>2
  <1> QED BY <1>1, <1>2, <1>3, <1>4, <1>5

LEMMA StoodNext ==
  ASSUME Typed, [TraceNext]_vars
  PROVE  /\ \A whats : Stood(needs, whats) \in Nat
         /\ \A whats \in SUBSET {"worker", "mace", "aggregator"} :
               /\ WorkerReady => Stood(needs', whats) =
                     Stood(needs, whats) + (IF "worker" \in whats THEN clock - since ELSE 0)
               /\ AggregatorReady => Stood(needs', whats) =
                     Stood(needs, whats) + (IF "aggregator" \in whats THEN clock - since ELSE 0)
               /\ (\E k \in DOMAIN tasks : TakesCalculator(k)) \/ LoadedItself => Stood(needs', whats) =
                     Stood(needs, whats) + (IF "mace" \in whats THEN clock - since ELSE 0)
               /\ needs' = needs => Stood(needs', whats) = Stood(needs, whats)
  <1>1. needs \in Seq(Need) /\ \A what \in {"worker", "mace", "aggregator"} :
           NeedOf(what) \in Need /\ NeedOf(what).what = what /\ NeedOf(what).blocked = clock - since
    BY NeedsGrow DEF Typed, NeedOf
  <1>2. \A whats : \A what \in {"worker", "mace", "aggregator"} :
           /\ Stood(Append(needs, NeedOf(what)), whats) =
                 Stood(needs, whats) + (IF what \in whats THEN clock - since ELSE 0)
           /\ Stood(needs, whats) \in Nat
    BY <1>1, StoodMore
  <1> HIDE DEF NeedOf
  <1>3. \A whats : Stood(needs, whats) \in Nat
    BY <1>2
  <1> QED BY <1>2, <1>3, NeedsGrow

LEMMA GatesNext ==
  ASSUME Typed, Stamped, Kept(events, tasks), LagsMet, ThoughtTold, GatesTold, [TraceNext]_vars
  PROVE  GatesTold'
  <1> DEFINE a == "worker_swap_wait"
             b == "aggregator_swap_wait"
             w == {"worker"}
             g == {"aggregator"}
  <1>1. events \in Seq(Event) /\ Closed(events)
    BY DEF Stamped, ThoughtTold
  <1>2. a \in WaitType /\ b \in WaitType
    BY DEF WaitType
  <1>3. E!GateSeconds(events, a) = Stood(needs, w) /\ E!GateSeconds(events, b) = Stood(needs, g)
    BY DEF GatesTold
  <1>4. Stood(needs, w) \in Nat /\ Stood(needs, g) \in Nat
    BY StoodNext
  <1>5. ASSUME E!GateSeconds(events', a) = Stood(needs', w), E!GateSeconds(events', b) = Stood(needs', g)
        PROVE  GatesTold'
    BY <1>5 DEF GatesTold
  <1>6. /\ w \in SUBSET {"worker", "mace", "aggregator"} /\ g \in SUBSET {"worker", "mace", "aggregator"}
        /\ "worker" \in w /\ "worker" \notin g /\ "aggregator" \in g /\ "aggregator" \notin w
        /\ "mace" \notin w /\ "mace" \notin g /\ a # b
    OBVIOUS
  <1>7. since \in Nat /\ clock \in Nat
    BY DEF Typed
  <1> HIDE DEF a, b, w, g
  <1>8. CASE WorkerReady
    <2>1. Waits(events, events', a, clock - since)
      BY <1>1, <1>8, ReadyMarks DEF a
    <2>2. /\ E!GateSeconds(events', a) = E!GateSeconds(events, a) + (clock - since)
          /\ E!GateSeconds(events', b) = E!GateSeconds(events, b)
      BY <1>2, <1>6, <2>1 DEF Waits
    <2>3. Stood(needs', w) = Stood(needs, w) + (clock - since) /\ Stood(needs', g) = Stood(needs, g) + 0
      BY <1>6, <1>8, StoodNext
    <2> QED BY <1>3, <1>4, <1>5, <1>7, <2>2, <2>3
  <1>9. CASE AggregatorReady
    <2>1. Waits(events, events', b, clock - since)
      BY <1>1, <1>9, ReadyMarks DEF b
    <2>2. /\ E!GateSeconds(events', b) = E!GateSeconds(events, b) + (clock - since)
          /\ E!GateSeconds(events', a) = E!GateSeconds(events, a)
      BY <1>2, <1>6, <2>1 DEF Waits
    <2>3. Stood(needs', g) = Stood(needs, g) + (clock - since) /\ Stood(needs', w) = Stood(needs, w) + 0
      BY <1>6, <1>9, StoodNext
    <2> QED BY <1>3, <1>4, <1>5, <1>7, <2>2, <2>3
  <1>10. CASE ~WorkerReady /\ ~AggregatorReady
    <2>1. E!GateSeconds(events', a) = E!GateSeconds(events, a) /\ E!GateSeconds(events', b) = E!GateSeconds(events, b)
      BY <1>2, <1>10, WaitsUntouched DEF WaitsStay
    <2>2. Stood(needs', w) = Stood(needs, w) /\ Stood(needs', g) = Stood(needs, g)
      <3>1. CASE (\E k \in DOMAIN tasks : TakesCalculator(k)) \/ LoadedItself
        <4>1. Stood(needs', w) = Stood(needs, w) + 0 /\ Stood(needs', g) = Stood(needs, g) + 0
          BY <1>6, <3>1, StoodNext
        <4> QED BY <1>4, <4>1
      <3>2. CASE ~((\E k \in DOMAIN tasks : TakesCalculator(k)) \/ LoadedItself)
        <4>1. needs' = needs
          BY <1>10, <3>2, NeedsGrow
        <4> QED BY <4>1
      <3> QED BY <3>1, <3>2
    <2> QED BY <1>3, <1>5, <2>1, <2>2
  <1> QED BY <1>8, <1>9, <1>10

\* RunInv, and what the trace tells of the time of the run.
SecondsInv == RunInv /\ ThoughtTold /\ GatesTold

LEMMA SecondsInit ==
  ASSUME TraceInit
  PROVE  SecondsInv
  <1>1. RunInv
    BY RunInvInit
  <1>2. /\ events = <<>> /\ needs = <<>> /\ pc = "begin" /\ thought = 0
        /\ \A type : E!Where(events, type) = {}
    BY DEF TraceInit, E!Where
  <1>3. \A type, node : Marks(events, type, node) = {}
    BY <1>2 DEF Marks
  <1>4. \A type : E!GateSeconds(events, type) = 0
    <2> TAKE type
    <2>1. E!GateSeconds(events, type) = E!SumFunction([i \in {} |-> events[i].wait])
      BY <1>2 DEF E!GateSeconds
    <2>2. [i \in {} |-> events[i].wait] = [x \in {} |-> [i \in {} |-> events[i].wait][x]]
      OBVIOUS
    <2> QED BY <2>1, <2>2, SumsSame, PartEmpty DEF Part
  <1>5. \A node : E!NodeSeconds(events, node) = 0
    BY <1>3, SpansAre, PartEmpty
  <1>6. \A whats : Stood(needs, whats) = 0
    <2> TAKE whats
    <2>1. StoodAt(needs, whats) = {}
      BY <1>2 DEF StoodAt
    <2> QED BY <2>1, PartEmpty DEF Stood
  <1>7. Reasoned(events) = 0
    BY <1>4, <1>5 DEF Reasoned, Spans, E!WaitsInChains, E!SwapWaitSeconds, E!AggregatorWaitSeconds
  <1>8. ThoughtTold
    BY <1>2, <1>3, <1>7 DEF ThoughtTold, Closed, NodeOpen, Thinking
  <1> QED BY <1>1, <1>4, <1>6, <1>8 DEF SecondsInv, GatesTold

LEMMA SecondsNext ==
  ASSUME SecondsInv, [TraceNext]_vars
  PROVE  SecondsInv'
  <1>1. RunInv'
    BY RunInvNext DEF SecondsInv
  <1>2. ThoughtTold'
    BY ThoughtNext DEF SecondsInv, RunInv
  <1>3. GatesTold'
    BY GatesNext DEF SecondsInv, RunInv
  <1> QED BY <1>1, <1>2, <1>3 DEF SecondsInv

\* The trace tells what the nodes had to think, and every second at a gate, in
\* every state of a run.
THEOREM SecondsInvariant ==
  TraceSpec => []SecondsInv
  <1>1. TraceInit => SecondsInv
    BY SecondsInit
  <1>2. SecondsInv /\ [TraceNext]_vars => SecondsInv'
    BY SecondsNext
  <1> QED BY <1>1, <1>2, PTL DEF TraceSpec

LEMMA ReasoningMeets ==
  ASSUME SecondsInv
  PROVE  ReasoningExact
  <1>1. SUFFICES ASSUME Ended
                 PROVE  E!ReasoningSeconds(events) = thought
    BY DEF ReasoningExact
  <1>2. thought = Reasoned(events)
    BY <1>1 DEF SecondsInv, ThoughtTold, Thinking, Ended
  <1>3. E!ReasoningSeconds(events) = E!NotNegative(Reasoned(events))
    BY SpansTotal DEF SecondsInv, RunInv, Stamped, ThoughtTold, Reasoned, E!ReasoningSeconds
  <1>4. thought \in Nat
    BY DEF SecondsInv, RunInv, Typed
  <1>5. E!NotNegative(thought) = T!AtLeastZero(thought)
    BY <1>4, Clipped
  <1> QED BY <1>2, <1>3, <1>4, <1>5 DEF T!AtLeastZero

\* agent reasoning is the time LLM nodes really had, however long they take and
\* wherever the waits of the gates fall (parse_eval_traces.py).
THEOREM ReasoningAlwaysExact ==
  TraceSpec => []ReasoningExact
  <1>1. SecondsInv => ReasoningExact
    BY ReasoningMeets
  <1> QED BY <1>1, SecondsInvariant, PTL

-------------------------------------------------------------------------------
(* The stall that parse_eval_traces.py exposes.                            *)

\* Of zero and finitely many natural numbers, one is the largest.
LEMMA LargestValue ==
  ASSUME NEW S, IsFiniteSet(S), NEW f, \A x \in S : f[x] \in Nat
  PROVE  \E m \in {0} \cup {f[x] : x \in S} : \A v \in {0} \cup {f[x] : x \in S} : v <= m /\ m \in Nat
  <1> DEFINE Most(s, m) == m \in Nat /\ \A v \in {0} \cup {f[x] : x \in s} : v <= m
             good == {s \in SUBSET S : \E m \in {0} \cup {f[x] : x \in s} : Most(s, m)}
  <1>1. {} \in good
    <2>1. 0 \in {0} \cup {f[x] : x \in {}} /\ Most({}, 0)
      OBVIOUS
    <2> QED BY <2>1
  <1>2. \A s \in good : \A y \in S \ s : s \cup {y} \in good
    <2> TAKE s \in good
    <2> TAKE y \in S \ s
    <2>1. PICK m \in {0} \cup {f[x] : x \in s} : Most(s, m)
      OBVIOUS
    <2>2. f[y] \in Nat /\ m \in Nat
      BY <2>1
    <2>3. CASE f[y] <= m
      <3>1. Most(s \cup {y}, m)
        BY <2>1, <2>3
      <3> QED BY <3>1
    <2>4. CASE m <= f[y]
      <3>1. Most(s \cup {y}, f[y])
        <4> SUFFICES ASSUME NEW v \in {0} \cup {f[x] : x \in s \cup {y}}
                     PROVE  v <= f[y]
          BY <2>2
        <4>1. CASE v \in {0} \cup {f[x] : x \in s}
          <5>1. v <= m /\ v \in Int
            BY <2>1, <4>1
          <5> QED BY <2>2, <2>4, <5>1
        <4>2. CASE v = f[y]
          BY <2>2, <4>2
        <4> QED BY <4>1, <4>2
      <3> QED BY <3>1
    <2> QED BY <2>2, <2>3, <2>4
  <1>3. good \in SUBSET SUBSET S
    OBVIOUS
  <1> HIDE DEF good
  <1>4. S \in good
    BY <1>1, <1>2, <1>3, Grown
  <1> QED BY <1>4 DEF good

\* The seconds waited for a task are no less than zero.
LEMMA StallNat ==
  ASSUME RunInv
  PROVE  \A k \in DOMAIN tasks : E!StallOf(E!TaskRecord(events, k)) \in Nat
  <1> TAKE k \in DOMAIN tasks
  <1>1. E!TaskRecord(events, k) = EvalRecord(tasks[k]) /\ Consistent(tasks[k])
    BY EachRecord
  <1>2. CASE tasks[k].status = "used" /\ tasks[k].reported
    BY <1>1, <1>2, SecondsOfUsed
  <1>3. CASE ~(tasks[k].status = "used" /\ tasks[k].reported)
    BY <1>1, <1>3, SecondsOfOthers
  <1> QED BY <1>2, <1>3

LEMMA SwapResidualNat ==
  ASSUME RunInv
  PROVE  E!SwapResidual(events) \in Nat
  <1> DEFINE S == {x \in Used : E!TaskRecord(events, x).rid \in {"vllm_model", "model_cache"}}
             f == [k \in S |-> E!StallOf(E!TaskRecord(events, k))]
             V == {0} \cup {f[k] : k \in S}
  <1>1. IsFiniteSet(S)
    BY EachRecord, FS_Subset
  <1>2. \A k \in S : f[k] \in Nat
    BY EachRecord, StallNat
  <1>3. E!SwapResidual(events) = E!Max(V)
    <2>1. V = {0} \cup {E!StallOf(E!TaskRecord(events, k)) : k \in S}
      OBVIOUS
    <2> QED BY <2>1, ServedUsed DEF E!SwapResidual
  <1> HIDE DEF S, f
  <1>4. PICK m \in V : \A v \in V : v <= m /\ m \in Nat
    BY <1>1, <1>2, LargestValue
  <1>5. E!Max(V) \in V
    BY <1>4 DEF E!Max
  <1> QED BY <1>2, <1>3, <1>5

LEMMA OtherResidualNat ==
  ASSUME RunInv
  PROVE  E!OtherResidual(events) \in Nat
  <1> DEFINE S == {x \in Used : E!TaskRecord(events, x).rid \notin {"vllm_model", "model_cache"}}
             f == [k \in S |-> E!StallOf(E!TaskRecord(events, k))]
  <1>1. IsFiniteSet(S)
    BY EachRecord, FS_Subset
  <1>2. \A k \in S : f[k] \in Nat
    BY EachRecord, StallNat
  <1>3. E!OtherResidual(events) = Part(f, S)
    <2>1. f = [k \in S |-> f[k]]
      OBVIOUS
    <2> QED BY <2>1, ServedUsed, SumsSame DEF E!OtherResidual, Part
  <1> HIDE DEF S, f
  <1> QED BY <1>1, <1>2, <1>3, PartNat

\* The estimate of a resource is that of an event of its prediction.
LEMMA PredictedFirst ==
  ASSUME NEW ev \in Seq(Event), NEW rid, E!PredictionsOf(ev, rid) # {}
  PROVE  /\ E!Min(E!PredictionsOf(ev, rid)) \in E!PredictionsOf(ev, rid)
         /\ ev[E!Min(E!PredictionsOf(ev, rid))].est \in Nat
  <1> DEFINE S == E!PredictionsOf(ev, rid)
  <1>1. S \in SUBSET E!Where(ev, "prediction_result") /\ S # {}
    BY DEF E!PredictionsOf
  <1>2. \A i \in S : ev[i].est \in Nat
    <2> TAKE i \in S
    <2>1. ev[i] \in Event /\ ev[i].type = "prediction_result"
      BY <1>1, ElementOfSeq, LenProperties DEF E!Where
    <2> QED BY <2>1, EventFields
  <1> HIDE DEF S
  <1>3. IsFirst(E!Min(S), S)
    BY <1>1, LastIn
  <1> QED BY <1>2, <1>3 DEF IsFirst, S

LEMMA NoPrefetchNat ==
  ASSUME RunInv
  PROVE  E!NoPrefetchSeconds(events) \in Nat
  <1> DEFINE est(rid) == IF E!PredictionsOf(events, rid) = {} THEN 0
                         ELSE events[E!Min(E!PredictionsOf(events, rid))].est
             S == {i \in E!Where(events, "resource_consumed") : events[i].status = "no_prefetch"}
             f == [i \in S |-> est(events[i].rid)]
  <1>1. events \in Seq(Event)
    BY DEF RunInv, Stamped
  <1>2. S \in SUBSET (1 .. Len(events)) /\ Len(events) \in Nat
    BY <1>1, Positions, LenProperties
  <1>3. \A i \in S : f[i] \in Nat
    BY <1>1, PredictedFirst
  <1>4. E!NoPrefetchSeconds(events) = Part(f, S)
    <2>1. E!NoPrefetchSeconds(events) = E!SumFunction(f)
      BY DEF E!NoPrefetchSeconds
    <2>2. f = [i \in S |-> f[i]]
      OBVIOUS
    <2> QED BY <2>1, <2>2, SumsSame DEF Part
  <1> HIDE DEF S, f
  <1>5. IsFiniteSet(S)
    BY <1>2, PositionsFinite
  <1> QED BY <1>3, <1>4, <1>5, PartNat

\* What the workflow stood for two things is the sum.
LEMMA StoodBoth ==
  ASSUME Typed, NEW a, NEW b, a \cap b = {}
  PROVE  /\ Stood(needs, a \cup b) = Stood(needs, a) + Stood(needs, b)
         /\ Stood(needs, a) \in Nat /\ Stood(needs, b) \in Nat
  <1> DEFINE g == [n \in DOMAIN needs |-> needs[n].blocked]
             A == StoodAt(needs, a)
             B == StoodAt(needs, b)
  <1>1. needs \in Seq(Need) /\ Len(needs) \in Nat /\ DOMAIN needs = 1 .. Len(needs)
    BY LenProperties DEF Typed
  <1>2. \A n \in DOMAIN needs : g[n] \in Nat
    <2> TAKE n \in DOMAIN needs
    <2>1. needs[n] \in Need
      BY <1>1, ElementOfSeq
    <2> QED BY <2>1 DEF Need
  <1>3. /\ StoodAt(needs, a \cup b) = A \cup B /\ A \cap B = {}
        /\ A \subseteq DOMAIN needs /\ B \subseteq DOMAIN needs
    BY DEF StoodAt
  <1>4. Stood(needs, a) = Part(g, A) /\ Stood(needs, b) = Part(g, B)
        /\ Stood(needs, a \cup b) = Part(g, A \cup B)
    BY <1>3 DEF Stood
  <1> HIDE DEF g, A, B
  <1>5. IsFiniteSet(A) /\ IsFiniteSet(B)
    BY <1>1, <1>3, PositionsFinite
  <1>6. \A n \in A : g[n] \in Nat
    BY <1>2, <1>3
  <1>7. \A n \in B : g[n] \in Nat
    BY <1>2, <1>3
  <1>8. Part(g, A) \in Nat
    BY <1>5, <1>6, PartNat
  <1>9. Part(g, B) \in Nat
    BY <1>5, <1>7, PartNat
  <1>10. IntOn(g, A \cup B)
    BY <1>6, <1>7 DEF IntOn
  <1>11. Adds(g, A, B)
    BY <1>3, <1>5, <1>10, PartUnion
  <1> QED BY <1>4, <1>8, <1>9, <1>11 DEF Adds

LEMMA GateSecondsBoth ==
  ASSUME Typed
  PROVE  /\ GateSeconds = Stood(needs, {"worker"}) + Stood(needs, {"aggregator"})
         /\ Stood(needs, {"worker"}) \in Nat /\ Stood(needs, {"aggregator"}) \in Nat
  <1>1. {"worker"} \cap {"aggregator"} = {} /\ {"worker"} \cup {"aggregator"} = {"worker", "aggregator"}
    OBVIOUS
  <1>2. GateSeconds = Stood(needs, {"worker", "aggregator"})
    BY StoodIs DEF GateSeconds
  <1> QED BY <1>1, <1>2, StoodBoth

LEMMA GateStallMeets ==
  ASSUME SecondsInv
  PROVE  GateStallCounted
  <1> DEFINE w == Stood(needs, {"worker"})
             g == Stood(needs, {"aggregator"})
             r == E!SwapResidual(events)
             o == E!OtherResidual(events)
             n == E!NoPrefetchSeconds(events)
  <1>1. RunInv /\ Typed /\ GatesTold
    BY DEF SecondsInv, RunInv
  <1>2. GateSeconds = w + g /\ w \in Nat /\ g \in Nat
    BY <1>1, GateSecondsBoth
  <1>3. r \in Nat /\ o \in Nat /\ n \in Nat
    BY <1>1, SwapResidualNat, OtherResidualNat, NoPrefetchNat
  <1>4. E!ExposedStall(events) = E!Max({w, r}) + g + o + n
    BY <1>1 DEF GatesTold, E!ExposedStall, E!SwapWaitSeconds, E!AggregatorWaitSeconds
  <1> HIDE DEF w, g, r, o, n
  <1>5. E!Max({w, r}) = IF w >= r THEN w ELSE r
    <2>1. w \in Int /\ r \in Int
      BY <1>2, <1>3
    <2> QED BY <2>1, MaxMinOfTwo, Zenon
  <1>6. E!Max({w, r}) >= w /\ E!Max({w, r}) \in Nat
    BY <1>2, <1>3, <1>5
  <1>7. E!ExposedStall(events) >= w + g
    BY <1>2, <1>3, <1>4, <1>6
  <1> QED BY <1>2, <1>7 DEF GateStallCounted

\* exposed_stall_s of parse_eval_traces.py never misses a second the workflow
\* stood at a gate, also if no poll thread lived to report the load.
THEOREM GateStallsCounted ==
  TraceSpec => []GateStallCounted
  <1>1. SecondsInv => GateStallCounted
    BY GateStallMeets
  <1> QED BY <1>1, SecondsInvariant, PTL

-------------------------------------------------------------------------------
(* The rows of the lifecycle.                                              *)

\* What the rows tell of: tasks, resources, gates, loads and consumptions.
Unmatched(ev) == E!Gates(ev) \ E!MatchedGates(ev)
DiskLoads(ev) == {i \in E!Where(ev, "mace_load") : ev[i].what = "disk"}
BareUses(ev) ==
    {i \in E!Where(ev, "resource_consumed") :
        /\ ev[i].status = "no_prefetch"
        /\ ev[i].rid \notin {E!TaskRecord(ev, k).rid : k \in {x \in E!TasksOf(ev) :
                                                         E!TaskRecord(ev, x).consumed # E!Missing}}}

RowIds(ev) ==
    ({"task"} \X E!TasksOf(ev)) \cup ({"skip"} \X E!SkippedRids(ev)) \cup ({"gate"} \X Unmatched(ev))
        \cup ({"mace_load"} \X DiskLoads(ev)) \cup ({"consumed"} \X BareUses(ev))

LEMMA RowsOf ==
  ASSUME NEW ev, NEW config
  PROVE  /\ DOMAIN E!LifecycleRows(ev, config) = RowIds(ev)
         /\ \A k \in E!TasksOf(ev) : E!LifecycleRows(ev, config)[<<"task", k>>] = E!TaskRow(ev, k)
         /\ \A rid \in E!SkippedRids(ev) :
               E!LifecycleRows(ev, config)[<<"skip", rid>>] = E!SkipRow(ev, rid)
         /\ \A g \in Unmatched(ev) :
               E!LifecycleRows(ev, config)[<<"gate", g>>] = E!GateRow(ev, g, config)
         /\ \A i \in DiskLoads(ev) :
               E!LifecycleRows(ev, config)[<<"mace_load", i>>] = E!MaceRow(ev, i, config)
         /\ \A i \in BareUses(ev) :
               E!LifecycleRows(ev, config)[<<"consumed", i>>] = E!ConsumedRow(ev, i, config)
  <1> DEFINE of == [task |-> E!TasksOf(ev), skip |-> E!SkippedRids(ev), gate |-> Unmatched(ev),
                    mace_load |-> DiskLoads(ev), consumed |-> BareUses(ev)]
             ids == UNION {{source} \X of[source] : source \in DOMAIN of}
             row(n) == CASE n[1] = "task" -> E!TaskRow(ev, n[2])
                         [] n[1] = "skip" -> E!SkipRow(ev, n[2])
                         [] n[1] = "gate" -> E!GateRow(ev, n[2], config)
                         [] n[1] = "mace_load" -> E!MaceRow(ev, n[2], config)
                         [] n[1] = "consumed" -> E!ConsumedRow(ev, n[2], config)
  <1>1. E!LifecycleRows(ev, config) = [n \in ids |-> row(n)]
    BY Zenon DEF E!LifecycleRows, Unmatched, DiskLoads, BareUses
  <1>2. DOMAIN of = {"task", "skip", "gate", "mace_load", "consumed"}
    OBVIOUS
  <1>3. ids = RowIds(ev)
    <2>1. ids = ({"task"} \X of["task"]) \cup ({"skip"} \X of["skip"]) \cup ({"gate"} \X of["gate"])
                  \cup ({"mace_load"} \X of["mace_load"]) \cup ({"consumed"} \X of["consumed"])
      <3> HIDE DEF of
      <3> QED BY <1>2
    <2> QED BY <2>1 DEF RowIds
  <1>4. DOMAIN E!LifecycleRows(ev, config) = RowIds(ev)
        /\ \A n \in RowIds(ev) : E!LifecycleRows(ev, config)[n] = row(n)
    <2> HIDE DEF row, ids
    <2> QED BY <1>1, <1>3
  <1> HIDE DEF of, ids
  <1>5. ASSUME NEW k \in E!TasksOf(ev)
        PROVE  E!LifecycleRows(ev, config)[<<"task", k>>] = E!TaskRow(ev, k)
    <2>1. <<"task", k>> \in RowIds(ev)
      BY DEF RowIds
    <2> QED BY <1>4, <2>1
  <1>6. ASSUME NEW k \in E!SkippedRids(ev)
        PROVE  E!LifecycleRows(ev, config)[<<"skip", k>>] = E!SkipRow(ev, k)
    <2>1. <<"skip", k>> \in RowIds(ev)
      BY DEF RowIds
    <2> QED BY <1>4, <2>1
  <1>7. ASSUME NEW k \in Unmatched(ev)
        PROVE  E!LifecycleRows(ev, config)[<<"gate", k>>] = E!GateRow(ev, k, config)
    <2>1. <<"gate", k>> \in RowIds(ev)
      BY DEF RowIds
    <2> QED BY <1>4, <2>1
  <1>8. ASSUME NEW k \in DiskLoads(ev)
        PROVE  E!LifecycleRows(ev, config)[<<"mace_load", k>>] = E!MaceRow(ev, k, config)
    <2>1. <<"mace_load", k>> \in RowIds(ev)
      BY DEF RowIds
    <2> QED BY <1>4, <2>1
  <1>9. ASSUME NEW k \in BareUses(ev)
        PROVE  E!LifecycleRows(ev, config)[<<"consumed", k>>] = E!ConsumedRow(ev, k, config)
    <2>1. <<"consumed", k>> \in RowIds(ev)
      BY DEF RowIds
    <2> QED BY <1>4, <2>1
  <1> QED BY <1>4, <1>5, <1>6, <1>7, <1>8, <1>9

\* The gate and the exposure of a row.
LEMMA RowFields ==
  ASSUME NEW ev, NEW config
  PROVE  /\ \A k \in E!TasksOf(ev) :
               LET row == E!TaskRow(ev, k)
                   gate == E!MatchGate(ev, E!TaskRecord(ev, k))
               IN  row.group = gate /\ (gate # E!Missing => row.exposure = ev[gate].wait)
         /\ \A rid \in E!SkippedRids(ev) : E!SkipRow(ev, rid).group = E!Missing
         /\ \A g \in Unmatched(ev) : /\ E!GateRow(ev, g, config).group = g
                                     /\ E!GateRow(ev, g, config).exposure = ev[g].wait
         /\ \A i \in DiskLoads(ev) : /\ E!MaceRow(ev, i, config).group = E!Missing
                                     /\ E!MaceRow(ev, i, config).exposure = ev[i].took
         /\ \A i \in BareUses(ev) :
               LET row == E!ConsumedRow(ev, i, config)
               IN  /\ row.group = E!Missing
                   /\ E!PredictionsOf(ev, ev[i].rid) = {} => row.exposure = 0
  <1>1. \A rid, group, need, exposure, outcome :
           /\ E!Row(rid, group, need, exposure, outcome).group = group
           /\ E!Row(rid, group, need, exposure, outcome).exposure = exposure
    BY DEF E!Row
  <1>2. ASSUME NEW k \in E!TasksOf(ev)
        PROVE  LET row == E!TaskRow(ev, k)
                   gate == E!MatchGate(ev, E!TaskRecord(ev, k))
               IN  row.group = gate /\ (gate # E!Missing => row.exposure = ev[gate].wait)
    BY DEF E!TaskRow, E!Row
  <1>3. ASSUME NEW i \in BareUses(ev)
        PROVE  LET row == E!ConsumedRow(ev, i, config)
               IN  /\ row.group = E!Missing
                   /\ E!PredictionsOf(ev, ev[i].rid) = {} => row.exposure = 0
    BY <1>1 DEF E!ConsumedRow, E!FirstPrediction
  <1>4. \A rid \in E!SkippedRids(ev) : E!SkipRow(ev, rid).group = E!Missing
    BY <1>1 DEF E!SkipRow
  <1>5. \A g \in Unmatched(ev) : /\ E!GateRow(ev, g, config).group = g
                                 /\ E!GateRow(ev, g, config).exposure = ev[g].wait
    BY <1>1 DEF E!GateRow
  <1>6. \A i \in DiskLoads(ev) : /\ E!MaceRow(ev, i, config).group = E!Missing
                                 /\ E!MaceRow(ev, i, config).exposure = ev[i].took
    BY <1>1 DEF E!MaceRow
  <1> QED BY <1>2, <1>3, <1>4, <1>5, <1>6

\* A task matches no gate or one of the worker.
LEMMA MatchIs ==
  ASSUME NEW ev \in Seq(Event), NEW rec, rec.rid \in Resource
  PROVE  LET gate == E!MatchGate(ev, rec)
         IN  gate # E!Missing => gate \in E!Gates(ev) /\ rec.rid \in {"vllm_model", "model_cache"}
  <1> DEFINE same == {g \in E!Gates(ev) : ev[g].model = E!ModelOf(rec.rid)}
             after == {g \in same : ev[g].at >= rec.started}
  <1>1. E!MatchGate(ev, rec) = IF same = {} THEN E!Missing
                               ELSE IF after # {} THEN E!Min(after) ELSE E!Max(same)
    BY DEF E!MatchGate
  <1>2. same \in SUBSET (1 .. Len(ev)) /\ Len(ev) \in Nat
    BY Positions, LenProperties DEF E!Gates
  <1>3. after \in SUBSET (1 .. Len(ev)) /\ after \subseteq same
    BY <1>2
  <1>4. \A g \in same : g \in E!Gates(ev) /\ rec.rid \in {"vllm_model", "model_cache"}
    <2> TAKE g \in same
    <2>1. g \in DOMAIN ev /\ ev[g].type \in WaitType
      BY DEF E!Gates, E!Where, WaitType
    <2>2. ev[g] \in Event
      BY <2>1, ElementOfSeq, LenProperties
    <2>3. ev[g].model \in Gate
      BY <2>1, <2>2, EventFields DEF WaitType
    <2>4. E!ModelOf(rec.rid) \in Gate
      BY <2>3
    <2> QED BY <2>4 DEF E!ModelOf, Gate, Resource
  <1> HIDE DEF same, after
  <1>5. CASE same = {}
    BY <1>1, <1>5
  <1>6. CASE same # {} /\ after # {}
    <2>1. E!Min(after) \in after
      BY <1>2, <1>3, <1>6, FirstOf DEF IsFirst
    <2> QED BY <1>1, <1>3, <1>4, <1>6, <2>1
  <1>7. CASE same # {} /\ after = {}
    <2>1. E!Max(same) \in same
      BY <1>2, <1>7, LastOf DEF IsLast
    <2> QED BY <1>1, <1>4, <1>7, <2>1
  <1> QED BY <1>5, <1>6, <1>7

\* Every gate is the group of one row that counts: of the first of its tasks, or
\* of the gate itself.
OfGate(n) == Rows[n].group # E!Missing
RowsOfGates == {n \in DOMAIN Rows : OfGate(n) /\ E!Counted(Rows, n)}

LEMMA GatedRows ==
  ASSUME RunInv
  PROVE  /\ \A n \in DOMAIN Rows : OfGate(n) =>
               /\ Rows[n].group \in E!Gates(events) /\ Rows[n].exposure = events[Rows[n].group].wait
               /\ n[2] \in Nat
               /\ \/ /\ n = <<"task", n[2]>> /\ n[2] \in DOMAIN tasks
                     /\ Rows[n].group \in E!MatchedGates(events)
                     /\ Rows[n].group = E!MatchGate(events, E!TaskRecord(events, n[2]))
                  \/ n = <<"gate", n[2]>> /\ n[2] \in Unmatched(events) /\ Rows[n].group = n[2]
         /\ \A k \in DOMAIN tasks : <<"task", k>> \in DOMAIN Rows
               /\ Rows[<<"task", k>>].group = E!MatchGate(events, E!TaskRecord(events, k))
         /\ \A g \in Unmatched(events) : <<"gate", g>> \in DOMAIN Rows /\ Rows[<<"gate", g>>].group = g
  <1>1. /\ events \in Seq(Event) /\ E!TasksOf(events) = DOMAIN tasks
        /\ DOMAIN tasks \subseteq Nat \ {0}
    BY EachRecord DEF RunInv, Stamped
  <1>2. \A k \in DOMAIN tasks : E!TaskRecord(events, k).rid \in Resource
    BY EachRecord DEF EvalRecord, Consistent, Task
  <1>3. E!Gates(events) \subseteq Nat \ {0}
    BY <1>1, Positions, LenProperties DEF E!Gates
  <1>4. DOMAIN Rows = RowIds(events)
    BY RowsOf DEF Rows
  <1>5. ASSUME NEW k \in DOMAIN tasks
        PROVE  /\ <<"task", k>> \in DOMAIN Rows
               /\ Rows[<<"task", k>>].group = E!MatchGate(events, E!TaskRecord(events, k))
               /\ OfGate(<<"task", k>>) =>
                     /\ Rows[<<"task", k>>].group \in E!MatchedGates(events)
                     /\ Rows[<<"task", k>>].group \in E!Gates(events)
                     /\ Rows[<<"task", k>>].exposure = events[Rows[<<"task", k>>].group].wait
    <2> DEFINE gate == E!MatchGate(events, E!TaskRecord(events, k))
    <2>1. <<"task", k>> \in DOMAIN Rows
      BY <1>1, <1>4 DEF RowIds
    <2>2. Rows[<<"task", k>>] = E!TaskRow(events, k)
      BY <1>1, RowsOf DEF Rows
    <2>3. /\ E!TaskRow(events, k).group = gate
          /\ gate # E!Missing => E!TaskRow(events, k).exposure = events[gate].wait
      BY <1>1, RowFields
    <2>4. gate # E!Missing => gate \in E!Gates(events)
                              /\ E!TaskRecord(events, k).rid \in {"vllm_model", "model_cache"}
      BY <1>1, <1>2, MatchIs
    <2>5. gate # E!Missing => gate \in E!MatchedGates(events)
      BY <1>1, <2>4 DEF E!MatchedGates
    <2> HIDE DEF gate
    <2>6. OfGate(<<"task", k>>) => gate # E!Missing
      BY <2>2, <2>3 DEF OfGate
    <2>7. Rows[<<"task", k>>].group = gate
      BY <2>2, <2>3
    <2> QED BY <2>1, <2>2, <2>3, <2>4, <2>5, <2>6, <2>7 DEF gate
  <1>6. ASSUME NEW g \in Unmatched(events)
        PROVE  /\ <<"gate", g>> \in DOMAIN Rows /\ Rows[<<"gate", g>>].group = g
               /\ Rows[<<"gate", g>>].exposure = events[g].wait
               /\ g \in E!Gates(events) /\ g \in Nat
    <2>1. <<"gate", g>> \in DOMAIN Rows
      BY <1>4 DEF RowIds
    <2>2. Rows[<<"gate", g>>] = E!GateRow(events, g, Config)
      BY RowsOf DEF Rows
    <2>3. E!GateRow(events, g, Config).group = g /\ E!GateRow(events, g, Config).exposure = events[g].wait
      BY RowFields
    <2> QED BY <1>3, <2>1, <2>2, <2>3 DEF Unmatched
  <1>7. ASSUME NEW n \in DOMAIN Rows, OfGate(n)
        PROVE  \/ \E k \in DOMAIN tasks : n = <<"task", k>>
               \/ \E g \in Unmatched(events) : n = <<"gate", g>>
    <2>1. CASE n \in {"skip"} \X E!SkippedRids(events)
      <3>1. PICK rid \in E!SkippedRids(events) : n = <<"skip", rid>>
        BY <2>1
      <3>2. Rows[n] = E!SkipRow(events, rid)
        BY <3>1, RowsOf DEF Rows
      <3>3. E!SkipRow(events, rid).group = E!Missing
        BY RowFields
      <3> QED BY <1>7, <3>2, <3>3 DEF OfGate
    <2>2. CASE n \in {"mace_load"} \X DiskLoads(events)
      <3>1. PICK i \in DiskLoads(events) : n = <<"mace_load", i>>
        BY <2>2
      <3>2. Rows[n] = E!MaceRow(events, i, Config)
        BY <3>1, RowsOf DEF Rows
      <3>3. E!MaceRow(events, i, Config).group = E!Missing
        BY RowFields
      <3> QED BY <1>7, <3>2, <3>3 DEF OfGate
    <2>3. CASE n \in {"consumed"} \X BareUses(events)
      <3>1. PICK i \in BareUses(events) : n = <<"consumed", i>>
        BY <2>3
      <3>2. Rows[n] = E!ConsumedRow(events, i, Config)
        BY <3>1, RowsOf DEF Rows
      <3>3. E!ConsumedRow(events, i, Config).group = E!Missing
        BY RowFields
      <3> QED BY <1>7, <3>2, <3>3 DEF OfGate
    <2>4. CASE n \in {"task"} \X DOMAIN tasks
      BY <2>4
    <2>5. CASE n \in {"gate"} \X Unmatched(events)
      BY <2>5
    <2> QED BY <1>1, <1>4, <1>7, <2>1, <2>2, <2>3, <2>4, <2>5 DEF RowIds
  <1>8. ASSUME NEW n \in DOMAIN Rows, OfGate(n)
        PROVE  /\ Rows[n].group \in E!Gates(events) /\ Rows[n].exposure = events[Rows[n].group].wait
               /\ n[2] \in Nat
               /\ \/ /\ n = <<"task", n[2]>> /\ n[2] \in DOMAIN tasks
                     /\ Rows[n].group \in E!MatchedGates(events)
                     /\ Rows[n].group = E!MatchGate(events, E!TaskRecord(events, n[2]))
                  \/ n = <<"gate", n[2]>> /\ n[2] \in Unmatched(events) /\ Rows[n].group = n[2]
    <2>1. CASE \E k \in DOMAIN tasks : n = <<"task", k>>
      <3>1. PICK k \in DOMAIN tasks : n = <<"task", k>>
        BY <2>1
      <3>2. n[2] = k /\ k \in Nat
        BY <1>1, <3>1
      <3> QED BY <1>5, <1>8, <3>1, <3>2
    <2>2. CASE \E g \in Unmatched(events) : n = <<"gate", g>>
      <3>1. PICK g \in Unmatched(events) : n = <<"gate", g>>
        BY <2>2
      <3>2. n[2] = g
        BY <3>1
      <3> QED BY <1>6, <3>1, <3>2
    <2> QED BY <1>7, <1>8, <2>1, <2>2
  <1> QED BY <1>5, <1>6, <1>8

\* Of the rows of a gate, which have the same exposure, the first counts.
LEMMA FirstCounts ==
  ASSUME RunInv, NEW n \in DOMAIN Rows, OfGate(n)
  PROVE  E!Counted(Rows, n) <=>
            \A m \in DOMAIN Rows \ {n} : Rows[m].group = Rows[n].group => n[2] <= m[2]
  <1>1. Rows[n].group # E!Missing
    BY DEF OfGate
  <1>2. ASSUME NEW m \in DOMAIN Rows \ {n}, Rows[m].group = Rows[n].group
        PROVE  /\ Rows[m].exposure = Rows[n].exposure /\ Rows[n].exposure \in Int
               /\ m[2] \in Nat /\ n[2] \in Nat
    <2>1. OfGate(m)
      BY <1>1, <1>2 DEF OfGate
    <2>2. /\ Rows[m].exposure = events[Rows[m].group].wait /\ m[2] \in Nat
          /\ Rows[n].exposure = events[Rows[n].group].wait /\ n[2] \in Nat
          /\ Rows[n].group \in E!Gates(events)
      BY <2>1, GatedRows
    <2>3. events \in Seq(Event)
      BY DEF RunInv, Stamped
    <2>4. events[Rows[n].group].wait \in Int
      BY <2>2, <2>3, GateSecondsInt DEF E!Gates, WaitType
    <2> QED BY <1>2, <2>2, <2>4
  <1>3. ASSUME NEW m \in DOMAIN Rows \ {n}
        PROVE  (/\ Rows[m].group = Rows[n].group
                /\ \/ Rows[m].exposure > Rows[n].exposure
                   \/ Rows[m].exposure = Rows[n].exposure /\ m[2] < n[2]) <=>
                  Rows[m].group = Rows[n].group /\ ~(n[2] <= m[2])
    BY <1>2
  <1>4. E!Counted(Rows, n) <=>
           ~\E m \in DOMAIN Rows \ {n} :
               /\ Rows[m].group = Rows[n].group
               /\ \/ Rows[m].exposure > Rows[n].exposure
                  \/ Rows[m].exposure = Rows[n].exposure /\ m[2] < n[2]
    BY <1>1 DEF E!Counted
  <1> QED BY <1>3, <1>4

LEMMA OneRowEach ==
  ASSUME RunInv
  PROVE  /\ \A n \in RowsOfGates : \A m \in RowsOfGates : Rows[n].group = Rows[m].group => n = m
         /\ \A g \in E!Gates(events) : \E n \in RowsOfGates : Rows[n].group = g
         /\ IsFiniteSet(RowsOfGates)
  <1>1. ASSUME NEW n \in RowsOfGates, NEW m \in RowsOfGates, Rows[n].group = Rows[m].group, n # m
        PROVE  FALSE
    <2>1. n \in DOMAIN Rows /\ m \in DOMAIN Rows /\ OfGate(n) /\ OfGate(m)
          /\ E!Counted(Rows, n) /\ E!Counted(Rows, m)
      BY DEF RowsOfGates
    <2>2. n[2] <= m[2] /\ m[2] <= n[2]
      BY <1>1, <2>1, FirstCounts
    <2>3. n[2] \in Nat /\ m[2] \in Nat
      BY <2>1, GatedRows
    <2>4. n[2] = m[2]
      BY <2>2, <2>3
    <2>5. \/ n = <<"task", n[2]>> /\ Rows[n].group \in E!MatchedGates(events)
          \/ n = <<"gate", n[2]>> /\ Rows[n].group \in Unmatched(events)
      BY <2>1, GatedRows
    <2>6. \/ m = <<"task", m[2]>> /\ Rows[m].group \in E!MatchedGates(events)
          \/ m = <<"gate", m[2]>> /\ Rows[m].group \in Unmatched(events)
      BY <2>1, GatedRows
    <2> QED BY <1>1, <2>4, <2>5, <2>6 DEF Unmatched
  <1>2. ASSUME NEW g \in E!Gates(events)
        PROVE  \E n \in RowsOfGates : Rows[n].group = g
    <2>1. events \in Seq(Event) /\ E!TasksOf(events) = DOMAIN tasks /\ DOMAIN tasks \subseteq Nat \ {0}
      BY EachRecord DEF RunInv, Stamped
    <2>2. g \in Nat /\ g # E!Missing
      BY <2>1, Positions, LenProperties DEF E!Gates, E!Missing
    <2>3. CASE g \in E!MatchedGates(events)
      <3> DEFINE S == {k \in DOMAIN tasks : E!MatchGate(events, E!TaskRecord(events, k)) = g}
      <3>1. S # {} /\ S \subseteq Nat
        BY <2>1, <2>3 DEF E!MatchedGates
      <3>2. PICK k \in S : \A j \in S : k <= j
        <4> HIDE DEF S
        <4> QED BY <3>1, LeastIndex
      <3>3. k \in DOMAIN tasks /\ <<"task", k>> \in DOMAIN Rows /\ Rows[<<"task", k>>].group = g
        BY GatedRows
      <3>4. OfGate(<<"task", k>>)
        BY <2>2, <3>3 DEF OfGate
      <3>5. ASSUME NEW m \in DOMAIN Rows \ {<<"task", k>>}, Rows[m].group = g
            PROVE  k <= m[2]
        <4>1. OfGate(m)
          BY <2>2, <3>5 DEF OfGate
        <4>2. m[2] \in DOMAIN tasks /\ Rows[m].group = E!MatchGate(events, E!TaskRecord(events, m[2]))
          BY <2>3, <3>5, <4>1, GatedRows DEF Unmatched
        <4> QED BY <3>2, <3>5, <4>2
      <3>6. E!Counted(Rows, <<"task", k>>)
        <4>1. <<"task", k>>[2] = k
          OBVIOUS
        <4> QED BY <3>3, <3>4, <3>5, <4>1, FirstCounts
      <3> QED BY <3>3, <3>4, <3>6 DEF RowsOfGates
    <2>4. CASE g \notin E!MatchedGates(events)
      <3>1. g \in Unmatched(events)
        BY <2>4 DEF Unmatched
      <3>2. <<"gate", g>> \in DOMAIN Rows /\ Rows[<<"gate", g>>].group = g
        BY <3>1, GatedRows
      <3>3. OfGate(<<"gate", g>>)
        BY <2>2, <3>2 DEF OfGate
      <3>4. ASSUME NEW m \in DOMAIN Rows \ {<<"gate", g>>}, Rows[m].group = g
            PROVE  FALSE
        <4>1. OfGate(m)
          BY <2>2, <3>4 DEF OfGate
        <4>2. m = <<"gate", m[2]>> /\ Rows[m].group = m[2]
          BY <2>4, <3>4, <4>1, GatedRows
        <4> QED BY <3>4, <4>2
      <3>5. E!Counted(Rows, <<"gate", g>>)
        BY <3>2, <3>3, <3>4, FirstCounts
      <3> QED BY <3>2, <3>3, <3>5 DEF RowsOfGates
    <2> QED BY <2>3, <2>4
  <1>3. IsFiniteSet(RowsOfGates)
    <2> DEFINE A == {"task"} \X DOMAIN tasks
               B == {"gate"} \X E!Gates(events)
    <2>1. events \in Seq(Event) /\ IsFiniteSet(DOMAIN tasks)
      BY EachRecord DEF RunInv, Stamped
    <2>2. IsFiniteSet(E!Gates(events))
      <3>1. E!Gates(events) \in SUBSET (1 .. Len(events)) /\ Len(events) \in Nat
        BY <2>1, Positions, LenProperties DEF E!Gates
      <3> QED BY <3>1, PositionsFinite
    <2>3. IsFiniteSet({"task"}) /\ IsFiniteSet({"gate"})
      BY FS_Singleton
    <2>4. IsFiniteSet(A)
      BY <2>1, <2>3, FS_Product
    <2>5. IsFiniteSet(B)
      BY <2>2, <2>3, FS_Product
    <2>6. RowsOfGates \subseteq A \cup B
      <3> SUFFICES ASSUME NEW n \in RowsOfGates
                   PROVE  n \in A \cup B
        OBVIOUS
      <3>1. n \in DOMAIN Rows /\ OfGate(n)
        BY DEF RowsOfGates
      <3>2. \/ n = <<"task", n[2]>> /\ n[2] \in DOMAIN tasks
            \/ n = <<"gate", n[2]>> /\ n[2] \in Unmatched(events)
        BY <3>1, GatedRows
      <3> QED BY <3>2 DEF Unmatched
    <2> HIDE DEF A, B
    <2>7. IsFiniteSet(A \cup B)
      BY <2>4, <2>5, FS_Union
    <2> QED BY <2>6, <2>7, FS_Subset
  <1> QED BY <1>1, <1>2, <1>3

\* Seconds of the rows that count at gates, and of all waits at gates.
LEMMA GatesTotal ==
  ASSUME NEW ev \in Seq(Event)
  PROVE  /\ Part([i \in E!Gates(ev) |-> ev[i].wait], E!Gates(ev)) =
               E!GateSeconds(ev, "worker_swap_wait") + E!GateSeconds(ev, "aggregator_swap_wait")
         /\ \A i \in E!Gates(ev) : ev[i].wait \in Int
  <1> DEFINE A == E!Where(ev, "worker_swap_wait")
             B == E!Where(ev, "aggregator_swap_wait")
             g == [i \in E!Gates(ev) |-> ev[i].wait]
  <1>1. A \cap B = {} /\ E!Gates(ev) = A \cup B
    BY DEF E!Where, E!Gates
  <1>2. "worker_swap_wait" \in WaitType /\ "aggregator_swap_wait" \in WaitType
    BY DEF WaitType
  <1>3. /\ IsFiniteSet(A) /\ \A i \in A : ev[i].wait \in Int
        /\ E!GateSeconds(ev, "worker_swap_wait") = Part([i \in A |-> ev[i].wait], A)
    BY <1>2, GateSecondsInt
  <1>4. /\ IsFiniteSet(B) /\ \A i \in B : ev[i].wait \in Int
        /\ E!GateSeconds(ev, "aggregator_swap_wait") = Part([i \in B |-> ev[i].wait], B)
    BY <1>2, GateSecondsInt
  <1>5. \A k \in A : [i \in A |-> ev[i].wait][k] = g[k]
    BY <1>1
  <1>6. \A k \in B : [i \in B |-> ev[i].wait][k] = g[k]
    BY <1>1
  <1>7. IntOn(g, A \cup B)
    BY <1>1, <1>3, <1>4 DEF IntOn
  <1>8. Part([i \in A |-> ev[i].wait], A) = Part(g, A)
    <2> HIDE DEF A, g
    <2> QED BY <1>5, PartSame
  <1>9. Part([i \in B |-> ev[i].wait], B) = Part(g, B)
    <2> HIDE DEF B, g
    <2> QED BY <1>6, PartSame
  <1> HIDE DEF A, B, g
  <1>10. Adds(g, A, B)
    BY <1>1, <1>3, <1>4, <1>7, PartUnion
  <1> QED BY <1>1, <1>3, <1>4, <1>8, <1>9, <1>10 DEF Adds, g

LEMMA GatesCounted ==
  ASSUME SecondsInv
  PROVE  /\ SumFunction([n \in RowsOfGates |-> Rows[n].exposure]) = GateSeconds
         /\ \A n \in RowsOfGates : Rows[n].exposure \in Int
  <1> DEFINE f == [n \in RowsOfGates |-> Rows[n].group]
             g == [i \in E!Gates(events) |-> events[i].wait]
             h == [n \in RowsOfGates |-> Rows[n].exposure]
  <1>1. RunInv /\ events \in Seq(Event) /\ GatesTold /\ Typed
    BY DEF SecondsInv, RunInv, Stamped
  <1>2. \A i \in E!Gates(events) : g[i] \in Int
    BY <1>1, GatesTotal
  <1>3. \A n \in RowsOfGates : f[n] \in E!Gates(events) /\ h[n] = g[f[n]] /\ h[n] \in Int
    <2> TAKE n \in RowsOfGates
    <2>1. n \in DOMAIN Rows /\ OfGate(n)
      BY DEF RowsOfGates
    <2>2. Rows[n].group \in E!Gates(events) /\ Rows[n].exposure = events[Rows[n].group].wait
      BY <1>1, <2>1, GatedRows
    <2> QED BY <1>2, <2>2
  <1>4. \A n \in RowsOfGates : \A m \in RowsOfGates : f[n] = f[m] => n = m
    BY <1>1, OneRowEach
  <1>5. {f[n] : n \in RowsOfGates} = E!Gates(events)
    <2>1. \A i \in E!Gates(events) : \E n \in RowsOfGates : f[n] = i
      BY <1>1, OneRowEach
    <2> HIDE DEF f
    <2> QED BY <1>3, <2>1
  <1>6. IsFiniteSet(RowsOfGates)
    BY <1>1, OneRowEach
  <1>7. Part(g, E!Gates(events)) = E!GateSeconds(events, "worker_swap_wait")
                        + E!GateSeconds(events, "aggregator_swap_wait")
    BY <1>1, GatesTotal
  <1>8. GateSeconds = Part(g, E!Gates(events))
    BY <1>1, <1>7, GateSecondsBoth DEF GatesTold
  <1>9. SumFunction(h) = Part(h, RowsOfGates)
    <2>1. h = [n \in RowsOfGates |-> h[n]]
      OBVIOUS
    <2> QED BY <2>1 DEF Part
  <1>10. \A n \in RowsOfGates : Rows[n].exposure \in Int
    BY <1>3
  <1>11. SumFunction([n \in RowsOfGates |-> Rows[n].exposure]) = Part(h, RowsOfGates)
    BY <1>9
  <1>12. \A n \in RowsOfGates : h[n] = g[f[n]] /\ h[n] \in Int
    BY <1>3
  <1> HIDE DEF f, g, h
  <1>13. Part(h, RowsOfGates) = Part(g, {f[x] : x \in RowsOfGates})
    BY <1>4, <1>6, <1>12, PartMoved
  <1> QED BY <1>5, <1>8, <1>10, <1>11, <1>13

LEMMA GateOnceMeets ==
  ASSUME SecondsInv
  PROVE  GateOnce
  <1>1. RowsOfGates = {n \in DOMAIN Rows : Rows[n].group # E!Missing /\ E!Counted(Rows, n)}
    BY DEF RowsOfGates, OfGate
  <1> QED BY <1>1, GatesCounted DEF GateOnce

\* Whatever rows tell of a gate, of tasks or of itself, its seconds enter the
\* stall classes once (extract_prefetch_lifecycle.py).
THEOREM GatesCountOnce ==
  TraceSpec => []GateOnce
  <1>1. SecondsInv => GateOnce
    BY GateOnceMeets
  <1> QED BY <1>1, SecondsInvariant, PTL

-------------------------------------------------------------------------------
(* The engine of the worker.                                               *)

OfWorker == {k \in DOMAIN tasks : tasks[k].rid = "vllm_model"}
BeforeGate == {"begin", "planner", "planned", "worker_gate"}

\* What was started ahead for the worker lands when its engine serves; what the
\* worker's gate consumed was waited for as long as the gate was closed.
EngineMet ==
    /\ pc \in {"begin", "planner"} => OfWorker = {}
    /\ pc \in BeforeGate => Stood(needs, {"worker"}) = 0
    /\ pc = "planned" => \A k \in OfWorker : /\ tasks[k].status = "in_progress"
                                             /\ tasks[k].lands = engines["worker"]
    /\ pc = "worker_gate" =>
          /\ busy <= clock /\ (clock = since \/ clock <= engines["worker"])
          /\ \A k \in OfWorker : /\ tasks[k].lands = engines["worker"]
                                 /\ tasks[k].status = "used" => tasks[k].consumed = since
    /\ pc \notin BeforeGate => \A k \in OfWorker : tasks[k].status = "used" =>
                                   Waited(tasks[k]) = Stood(needs, {"worker"})

\* The tasks of the worker are as they were.
WorkerKept ==
    \A k \in DOMAIN tasks' : tasks'[k].rid = "vllm_model" =>
        /\ k \in DOMAIN tasks /\ tasks[k].rid = "vllm_model"
        /\ tasks'[k].lands = tasks[k].lands /\ tasks'[k].consumed = tasks[k].consumed
        /\ tasks'[k].status = "used" <=> tasks[k].status = "used"

LEMMA WorkerKeptBy ==
  ASSUME Typed, Stamped, Kept(events, tasks), LagsMet
  PROVE  /\ Apart \/ Tick \/ UNCHANGED vars => WorkerKept
         /\ \A k \in DOMAIN tasks : PollReports(k) => WorkerKept
         /\ \A tool \in Tool, p \in BOOLEAN, a \in BOOLEAN : ToolStarts(tool, p, a) => WorkerKept
  <1>1. ASSUME tasks' = tasks
        PROVE  WorkerKept
    BY <1>1 DEF WorkerKept
  <1>2. Apart \/ Tick \/ UNCHANGED vars => tasks' = tasks
    BY ApartTells DEF Tick, vars
  <1>3. ASSUME NEW k \in DOMAIN tasks, PollReports(k)
        PROVE  WorkerKept
    BY <1>3, PollReportsTells DEF ReportTells, WorkerKept
  <1>4. ASSUME NEW tool \in Tool, NEW p \in BOOLEAN, NEW a \in BOOLEAN, ToolStarts(tool, p, a)
        PROVE  WorkerKept
    <2> DEFINE j == Judge(tool)
               r == Ahead(tool, p, a)
    <2>1. tasks' = r[1] /\ Judged(tool, j) /\ AheadTells(tool, p, r)
      BY <1>4, ToolStartsTells DEF ToolTells
    <2>2. \A k \in DOMAIN tasks' : tasks'[k].rid = "vllm_model" =>
             k \in DOMAIN j.tasks /\ tasks'[k] = j.tasks[k]
      BY <2>1 DEF AheadTells
    <2>3. DOMAIN j.tasks = DOMAIN tasks /\ \A k \in DOMAIN tasks : SameTask(tasks[k], j.tasks[k])
      BY <2>1 DEF Judged, SameTasks
    <2>4. \A k \in DOMAIN tasks : tasks[k].rid = "vllm_model" =>
             /\ j.tasks[k].consumed = tasks[k].consumed
             /\ j.tasks[k].status = "used" <=> tasks[k].status = "used"
      <3>1. CASE j.tasks = tasks
        BY <3>1
      <3>2. CASE \E c : Consumed(tasks, "mace_model", <<j.tasks, c>>)
        BY <3>2 DEF Consumed
      <3>3. CASE \E c : Cancelled(tasks, pending, <<j.tasks, c>>)
        BY <3>3 DEF Cancelled
      <3> QED BY <2>1, <3>1, <3>2, <3>3 DEF Judged
    <2> HIDE DEF j, r
    <2> QED BY <2>2, <2>3, <2>4 DEF WorkerKept, SameTask
  <1> QED BY <1>1, <1>2, <1>3, <1>4

LEMMA WorkerStood ==
  ASSUME Typed, [TraceNext]_vars
  PROVE  /\ ~WorkerReady => Stood(needs', {"worker"}) = Stood(needs, {"worker"})
         /\ WorkerReady => Stood(needs', {"worker"}) = Stood(needs, {"worker"}) + (clock - since)
  <1> DEFINE w == {"worker"}
  <1>1. w \in SUBSET {"worker", "mace", "aggregator"} /\ "worker" \in w /\ "aggregator" \notin w
        /\ "mace" \notin w
    OBVIOUS
  <1>2. Stood(needs, w) \in Nat
    BY StoodNext
  <1> HIDE DEF w
  <1>3. WorkerReady => Stood(needs', w) = Stood(needs, w) + (clock - since)
    BY <1>1, StoodNext
  <1>4. AggregatorReady => Stood(needs', w) = Stood(needs, w) + 0
    BY <1>1, StoodNext
  <1>5. (\E k \in DOMAIN tasks : TakesCalculator(k)) \/ LoadedItself => Stood(needs', w) = Stood(needs, w) + 0
    BY <1>1, StoodNext
  <1>6. needs' = needs => Stood(needs', w) = Stood(needs, w)
    BY <1>1, StoodNext
  <1> QED BY <1>2, <1>3, <1>4, <1>5, <1>6, NeedsGrow DEF w

LEMMA EngineAhead ==
  ASSUME Typed, Stamped, Kept(events, tasks), EngineMet, [TraceNext]_vars,
         PlannerStarts \/ PlannerEnds
  PROVE  EngineMet'
  <1>1. ~WorkerReady
    BY Moves
  <1>2. Stood(needs', {"worker"}) = Stood(needs, {"worker"})
    BY <1>1, WorkerStood
  <1>3. CASE PlannerStarts
    <2>1. pc = "begin" /\ pc' = "planner"
      BY <1>3, Moves
    <2>2. PICK e, r : Scheduled(tasks, "model_cache", 0, pace.cache, r) /\ tasks' = r[1]
      BY <1>3, PlannerStartsTells DEF Staged
    <2>3. \A k \in DOMAIN tasks' : tasks'[k].rid # "vllm_model"
      BY <2>1, <2>2 DEF Scheduled, EngineMet, OfWorker
    <2> QED BY <1>2, <2>1, <2>3 DEF EngineMet, OfWorker, BeforeGate
  <1>4. CASE PlannerEnds
    <2>1. pc = "planner" /\ pc' = "planned"
      BY <1>4, Moves
    <2>2. PICK e, r : Scheduled(tasks, "vllm_model", 0, pace.worker, r) /\ tasks' = r[1]
      BY <1>4, PlannerEndsTells DEF Staged
    <2>3. mode = "real" => engines'["worker"] = clock + pace.worker
      BY <1>4 DEF PlannerEnds, Typed, Gate
    <2>4. \A k \in DOMAIN tasks' : tasks'[k].rid = "vllm_model" =>
             tasks'[k].status = "in_progress" /\ tasks'[k].lands = engines'["worker"]
      BY <2>1, <2>2, <2>3 DEF Scheduled, EngineMet, OfWorker
    <2> QED BY <1>2, <2>1, <2>4 DEF EngineMet, OfWorker, BeforeGate
  <1> QED BY <1>3, <1>4

LEMMA EngineGate ==
  ASSUME Typed, Stamped, Kept(events, tasks), EngineMet, [TraceNext]_vars, WorkerGate
  PROVE  EngineMet'
  <1>1. ~WorkerReady
    BY Moves
  <1>2. Stood(needs', {"worker"}) = Stood(needs, {"worker"})
    BY <1>1, WorkerStood
  <1>3. pc = "planned" /\ pc' = "worker_gate" /\ since' = clock
    BY Moves
  <1>4. /\ busy' = clock + 0 /\ clock' = clock /\ clock \in Nat
        /\ engines["worker"] # None => engines' = engines
    BY DEF WorkerGate, Enter, Typed
  <1>5. GateTells
    BY WorkerGateTells
  <1>6. \A k \in OfWorker : /\ tasks[k].status = "in_progress" /\ tasks[k].lands = engines["worker"]
                            /\ tasks[k].lands # None
    <2> TAKE k \in OfWorker
    <2>1. tasks[k].lands \in Nat
      BY TaskOf DEF Kept, Consistent, Task, OfWorker
    <2> QED BY <1>3, <2>1 DEF EngineMet, None
  <1>7. \A k \in DOMAIN tasks' : tasks'[k].rid = "vllm_model" =>
           /\ tasks'[k].lands = engines'["worker"]
           /\ tasks'[k].status = "used" => tasks'[k].consumed = clock
    <2> SUFFICES ASSUME NEW k \in DOMAIN tasks', tasks'[k].rid = "vllm_model"
                 PROVE  /\ tasks'[k].lands = engines'["worker"]
                        /\ tasks'[k].status = "used" => tasks'[k].consumed = clock
      OBVIOUS
    <2>1. k \in DOMAIN tasks /\ SameTask(tasks[k], tasks'[k])
      BY <1>5 DEF GateTells, SameTasks
    <2>2. k \in OfWorker
      BY <2>1 DEF SameTask, OfWorker
    <2>3. tasks'[k] = tasks[k] \/ tasks'[k].consumed = clock
      BY <1>5, <2>1 DEF GateTells
    <2> QED BY <1>4, <1>6, <2>1, <2>2, <2>3 DEF SameTask
  <1>8. busy' <= clock' /\ clock' = since'
    BY <1>3, <1>4
  <1>9. Stood(needs, {"worker"}) = 0
    BY <1>3 DEF EngineMet, BeforeGate
  <1> QED BY <1>2, <1>3, <1>7, <1>8, <1>9 DEF EngineMet, OfWorker, BeforeGate

\* The gate opens when the engine serves.
LEMMA EngineReady ==
  ASSUME Typed, Stamped, Kept(events, tasks), LagsMet, EngineMet, [TraceNext]_vars, WorkerReady
  PROVE  EngineMet'
  <1>1. pc = "worker_gate" /\ pc' = "worker"
    BY Moves
  <1>2. engines["worker"] <= clock
    BY DEF WorkerReady
  <1>3. Stood(needs, {"worker"}) = 0 /\ Stood(needs', {"worker"}) = Stood(needs, {"worker"}) + (clock - since)
    BY <1>1, WorkerStood DEF EngineMet, BeforeGate
  <1>4. since \in Nat /\ clock \in Nat /\ since <= clock
    BY DEF Typed
  <1>5. WorkerKept
    BY WorkerKeptBy DEF Apart
  <1>6. ASSUME NEW k \in DOMAIN tasks', tasks'[k].rid = "vllm_model", tasks'[k].status = "used"
        PROVE  Waited(tasks'[k]) = clock - since
    <2>1. k \in OfWorker /\ tasks[k].status = "used" /\ tasks'[k].lands = tasks[k].lands
          /\ tasks'[k].consumed = tasks[k].consumed
      BY <1>5, <1>6 DEF WorkerKept, OfWorker
    <2>2. tasks[k].lands = engines["worker"] /\ tasks[k].consumed = since
      BY <1>1, <2>1 DEF EngineMet
    <2>3. tasks[k].lands \in Nat
      BY <2>1, TaskOf DEF Kept, Consistent, Task, OfWorker
    <2>4. clock = since \/ clock <= engines["worker"]
      BY <1>1 DEF EngineMet
    <2>5. Waited(tasks'[k]) = T!AtLeastZero(engines["worker"] - since)
      BY <2>1, <2>2 DEF Waited
    <2>6. CASE clock = since
      BY <1>2, <1>4, <2>2, <2>3, <2>5, <2>6 DEF T!AtLeastZero
    <2>7. CASE clock <= engines["worker"]
      <3>1. engines["worker"] = clock
        BY <1>2, <1>4, <2>2, <2>3, <2>7
      <3> QED BY <1>4, <2>5, <3>1 DEF T!AtLeastZero
    <2> QED BY <2>4, <2>6, <2>7
  <1>7. Stood(needs', {"worker"}) = clock - since
    BY <1>3, <1>4
  <1> QED BY <1>1, <1>6, <1>7 DEF EngineMet, OfWorker, BeforeGate

\* While a gate is closed the clock goes up to the instant its engine serves.
LEMMA EngineTick ==
  ASSUME Typed, Stamped, Kept(events, tasks), LagsMet, EngineMet, [TraceNext]_vars, Tick
  PROVE  EngineMet'
  <1>1. ~WorkerReady
    <2>1. Tick => clock' = clock + 1
      BY DEF Tick
    <2>2. WorkerReady => clock' = clock
      BY DEF WorkerReady
    <2> QED BY <2>1, <2>2 DEF Typed
  <1>2. Stood(needs', {"worker"}) = Stood(needs, {"worker"})
    BY <1>1, WorkerStood
  <1>3. UNCHANGED <<pc, tasks, engines, since, busy>> /\ clock' = clock + 1 /\ clock \in Nat
    BY DEF Tick, Typed
  <1>4. pc = "worker_gate" => busy' <= clock' /\ clock' <= engines'["worker"]
    <2> SUFFICES ASSUME pc = "worker_gate"
                 PROVE  busy' <= clock' /\ clock' <= engines'["worker"]
      OBVIOUS
    <2>1. busy <= clock /\ busy \in Nat /\ engines["worker"] \in Nat \cup {None}
      BY DEF EngineMet, Typed, Gate
    <2>2. busy > clock \/ engines["worker"] > clock
      BY DEF Tick, Blocked
    <2> QED BY <1>3, <2>1, <2>2 DEF None
  <1> QED BY <1>2, <1>3, <1>4 DEF EngineMet, OfWorker, BeforeGate

\* The other steps leave the tasks of the worker and the gate's waits alone.
LEMMA EngineElse ==
  ASSUME Typed, Stamped, Kept(events, tasks), LagsMet, EngineMet, [TraceNext]_vars, ~WorkerReady,
         WorkerKept, pc' = pc \/ (pc \notin BeforeGate /\ pc' \notin BeforeGate),
         pc' = pc => UNCHANGED <<clock, since, engines, busy>>,
         pc' = pc => \A k \in DOMAIN tasks' : tasks'[k].status = tasks[k].status
  PROVE  EngineMet'
  <1>1. Stood(needs', {"worker"}) = Stood(needs, {"worker"})
    BY WorkerStood
  <1>2. \A k \in DOMAIN tasks' : tasks'[k].rid = "vllm_model" =>
           k \in OfWorker /\ Waited(tasks'[k]) = Waited(tasks[k])
    BY DEF WorkerKept, OfWorker, Waited
  <1>3. CASE pc' = pc
    BY <1>1, <1>2, <1>3 DEF EngineMet, OfWorker, WorkerKept
  <1>4. CASE pc \notin BeforeGate /\ pc' \notin BeforeGate
    <2>1. \A k \in OfWorker : tasks[k].status = "used" => Waited(tasks[k]) = Stood(needs, {"worker"})
      BY <1>4 DEF EngineMet
    <2>2. \A k \in OfWorker' : tasks'[k].status = "used" =>
             Waited(tasks'[k]) = Stood(needs', {"worker"})
      BY <1>1, <1>2, <2>1 DEF OfWorker, WorkerKept
    <2>3. pc' \notin {"begin", "planner", "planned", "worker_gate"}
      BY <1>4 DEF BeforeGate
    <2> QED BY <2>2, <2>3 DEF EngineMet, BeforeGate
  <1> QED BY <1>3, <1>4

LEMMA EngineNext ==
  ASSUME Typed, Stamped, Kept(events, tasks), LagsMet, EngineMet, [TraceNext]_vars
  PROVE  EngineMet'
  <1>1. CASE PlannerStarts \/ PlannerEnds
    BY <1>1, EngineAhead
  <1>2. CASE WorkerGate
    BY <1>2, EngineGate
  <1>3. CASE WorkerReady
    BY <1>3, EngineReady
  <1>4. CASE Tick
    BY <1>4, EngineTick
  <1>5. ASSUME NEW k \in DOMAIN tasks, PollReports(k)
        PROVE  EngineMet'
    <2>1. UNCHANGED <<pc, clock, since, engines, busy>>
      BY <1>5 DEF PollReports
    <2>2. ~WorkerReady
      <3>1. WorkerReady => pc = "worker_gate" /\ pc' = "worker"
        BY Moves
      <3> QED BY <2>1, <3>1
    <2>3. WorkerKept /\ \A x \in DOMAIN tasks' : tasks'[x].status = tasks[x].status
      BY <1>5, PollReportsTells, WorkerKeptBy DEF ReportTells
    <2> QED BY <2>1, <2>2, <2>3, EngineElse
  <1>6. CASE UNCHANGED vars
    <2>1. UNCHANGED <<pc, clock, since, engines, busy, tasks>>
      BY <1>6 DEF vars
    <2>2. ~WorkerReady
      <3>1. WorkerReady => pc = "worker_gate" /\ pc' = "worker"
        BY Moves
      <3> QED BY <2>1, <3>1
    <2> QED BY <1>6, <2>1, <2>2, WorkerKeptBy, EngineElse
  <1>7. ASSUME NEW tool \in Tool, NEW p \in BOOLEAN, NEW a \in BOOLEAN, ToolStarts(tool, p, a)
        PROVE  EngineMet'
    <2>1. pc = "worker" /\ pc' \in {"loading", "tool"}
      BY <1>7, Moves
    <2>2. ~WorkerReady
      BY <2>1, Moves
    <2>3. pc \notin BeforeGate /\ pc' \notin BeforeGate /\ pc' # pc
      BY <2>1 DEF BeforeGate
    <2> QED BY <1>7, <2>2, <2>3, WorkerKeptBy, EngineElse
  <1>8. CASE \/ AggregatorReady \/ (\E k \in DOMAIN tasks : TakesCalculator(k))
             \/ LoadsItself \/ LoadedItself \/ ToolEnds \/ AggregatorGate \/ RunEnds
    <2>1. /\ pc \in {"aggregator_gate", "loading", "disk", "tool", "worker", "aggregator"}
          /\ pc' \in {"aggregator_gate", "loading", "disk", "tool", "worker", "aggregator", "ended"}
          /\ pc' # pc
      BY <1>8, Moves
    <2>2. ~WorkerReady
      BY <2>1, Moves
    <2>3. pc \notin BeforeGate /\ pc' \notin BeforeGate /\ pc' # pc
      BY <2>1 DEF BeforeGate
    <2>4. WorkerKept
      BY <1>8, WorkerKeptBy DEF Apart
    <2> QED BY <2>2, <2>3, <2>4, EngineElse
  <1> QED BY <1>1, <1>2, <1>3, <1>4, <1>5, <1>6, <1>7, <1>8 DEF TraceNext, Workflow

LEMMA EngineInit ==
  ASSUME TraceInit
  PROVE  EngineMet
  <1>1. pc = "begin" /\ tasks = <<>> /\ needs = <<>>
    BY DEF TraceInit
  <1>2. OfWorker = {} /\ StoodAt(needs, {"worker"}) = {}
    BY <1>1 DEF OfWorker, StoodAt
  <1>3. Stood(needs, {"worker"}) = 0
    BY <1>2, PartEmpty DEF Stood
  <1> QED BY <1>1, <1>2, <1>3 DEF EngineMet, BeforeGate

LEMMA ResidualMeets ==
  ASSUME RunInv, EngineMet
  PROVE  ResidualTrue
  <1> SUFFICES ASSUME Ended, NEW k \in Told, tasks[k].rid = "vllm_model"
               PROVE  E!StallOf(E!TaskRecord(events, k)) = BlockedFor({"worker"})
    BY DEF ResidualTrue
  <1>1. k \in DOMAIN tasks /\ tasks[k].status = "used" /\ tasks[k].reported
    BY DEF Told, Used
  <1>2. E!TaskRecord(events, k) = EvalRecord(tasks[k]) /\ Consistent(tasks[k])
    BY <1>1, EachRecord
  <1>3. E!StallOf(EvalRecord(tasks[k])) = Waited(tasks[k])
    BY <1>1, <1>2, SecondsOfUsed
  <1>4. Waited(tasks[k]) = Stood(needs, {"worker"})
    BY <1>1 DEF EngineMet, OfWorker, BeforeGate, Ended
  <1> QED BY <1>2, <1>3, <1>4, StoodIs

\* The residual of the worker's engine is the time its gate was closed, however
\* late the poll thread reports the load (parse_eval_traces.py).
THEOREM ResidualAlwaysTrue ==
  TraceSpec => []ResidualTrue
  <1>1. TraceInit => EngineMet
    BY EngineInit
  <1>2. RunInv /\ EngineMet /\ [TraceNext]_vars => EngineMet'
    BY EngineNext DEF RunInv
  <1>3. RunInv /\ EngineMet => ResidualTrue
    BY ResidualMeets
  <1> QED BY <1>1, <1>2, <1>3, RunInvariant, PTL DEF TraceSpec

-------------------------------------------------------------------------------
(* The kinds of events a step adds.                                        *)

PlannerTypes ==
    {"chain_start", "chain_end", "plan_extracted", "prediction_result", "prefetch_decision",
     "prefetch_started"}
VerdictTypes ==
    {"prediction_validated", "resource_consumed", "divergence_detected", "prefetch_cancelled",
     "conservative_mode"}
PredictTypes == {"prediction_result", "checkpoint_created", "prefetch_decision", "prefetch_started"}
CallTypes == {"chain_end", "tool_call", "aggregator_prefetch_start"}

\* Several extensions are one.
Joined(ev, a, b, types) ==
    Fresh(a \o b, types) /\ (ev \o a) \o b = ev \o (a \o b) /\ ev \o a \in Seq(Event)

LEMMA GrewMore ==
  ASSUME NEW ev \in Seq(Event), NEW a, NEW b, NEW s, NEW t, Fresh(a, s), Fresh(b, t)
  PROVE  Joined(ev, a, b, s \cup t)
  <1>1. Fresh(a, s \cup t) /\ Fresh(b, s \cup t)
    <2>1. s \subseteq s \cup t /\ t \subseteq s \cup t
      OBVIOUS
    <2> QED BY <2>1, FreshMore
  <1>2. a \in Seq(Event) /\ b \in Seq(Event)
    BY DEF Fresh
  <1>3. Fresh(a \o b, s \cup t)
    BY <1>1, FreshJoin
  <1>4. ev \o a \in Seq(Event)
    BY <1>2, ConcatProperties
  <1> QED BY <1>2, <1>3, <1>4, RegroupedTwo DEF Joined

LEMMA GrewWider ==
  ASSUME NEW s, NEW t, s \subseteq t, Grew(s)
  PROVE  Grew(t)
  <1> QED BY FreshMore DEF Grew

LEMMA PlannerGrew ==
  ASSUME Typed, Stamped, Kept(events, tasks), PlannerStarts \/ PlannerEnds
  PROVE  Grew(PlannerTypes) /\ (mode = "baseline" => Grew({"chain_start", "chain_end"}) /\ tasks' = tasks)
  <1>1. PICK e, rid, load : e.type \in {"chain_start", "chain_end"} /\ Staged(e, rid, load)
    <2>1. /\ Tracked("chain_start", "PlannerAgent").type = "chain_start"
          /\ Tracked("chain_end", "PlannerAgent").type = "chain_end"
      BY DEF Tracked
    <2> QED BY <2>1, PlannerStartsTells, PlannerEndsTells
  <1>2. PICK b, r : /\ Fresh(<<e>>, {e.type}) /\ Fresh(b, {"plan_extracted", "prediction_result"})
                    /\ mode = "baseline" => b = <<>>
                    /\ Scheduled(tasks, rid, 0, load, r)
                    /\ Fresh(r[2], {"prefetch_decision", "prefetch_started"})
                    /\ events' = ((events \o <<e>>) \o b) \o r[2] /\ tasks' = r[1]
    BY <1>1 DEF Staged
  <1>3. events \in Seq(Event)
    BY DEF Stamped
  <1> DEFINE a == <<e>>
             s1 == {e.type}
             s2 == {"plan_extracted", "prediction_result"}
             s3 == {"prefetch_decision", "prefetch_started"}
             t == (s1 \cup s2) \cup s3
  <1>6. t \subseteq PlannerTypes
    BY <1>1 DEF PlannerTypes
  <1> HIDE DEF a, s1, s2, s3
  <1>4. Joined(events, a, b, s1 \cup s2)
    BY <1>2, <1>3, GrewMore DEF a, s1, s2
  <1>5. Joined(events, a \o b, r[2], t)
    <2>1. Fresh(a \o b, s1 \cup s2) /\ Fresh(r[2], s3)
      BY <1>2, <1>4 DEF Joined, s3
    <2> QED BY <1>3, <2>1, GrewMore
  <1>7. Grew(t)
    <2>1. /\ Fresh((a \o b) \o r[2], t) /\ (events \o (a \o b)) \o r[2] = events \o ((a \o b) \o r[2])
          /\ (events \o a) \o b = events \o (a \o b)
      BY <1>4, <1>5 DEF Joined
    <2> HIDE DEF t
    <2> QED BY <1>2, <2>1 DEF Grew, a
  <1>8. Grew(PlannerTypes)
    <2> HIDE DEF t
    <2> QED BY <1>6, <1>7, GrewWider
  <1>9. ASSUME mode = "baseline"
        PROVE  Grew({"chain_start", "chain_end"}) /\ tasks' = tasks
    <2>1. b = <<>> /\ r[2] = <<>> /\ r[1] = tasks
      BY <1>2, <1>9 DEF Scheduled
    <2>2. Fresh(<<e>>, {"chain_start", "chain_end"})
      <3>1. {e.type} \subseteq {"chain_start", "chain_end"}
        BY <1>1
      <3> QED BY <1>2, <3>1, FreshMore
    <2>3. events' = events \o <<e>>
      <3>1. (events \o a) \o <<>> = events \o a
        BY <1>4, ConcatEmptySeq DEF Joined
      <3> QED BY <1>2, <2>1, <3>1 DEF a
    <2> QED BY <1>2, <2>1, <2>2, <2>3 DEF Grew
  <1> QED BY <1>8, <1>9

LEMMA ToolGrew ==
  ASSUME Typed, Stamped, Kept(events, tasks), NEW tool \in Tool, NEW predicts \in BOOLEAN,
         NEW admitted \in BOOLEAN, ToolStarts(tool, predicts, admitted)
  PROVE  /\ Grew((CallTypes \cup VerdictTypes) \cup PredictTypes)
         /\ mode = "baseline" => Grew(CallTypes \cup VerdictTypes) /\ DOMAIN tasks' = DOMAIN tasks
  <1> DEFINE a == Called(tool)
             b == BootEvents(tool)
             c == Judge(tool).events
             d == MadeEvents(tool, predicts)
             r == Ahead(tool, predicts, admitted)
  <1>1. events \in Seq(Event) /\ ToolTells(tool, predicts, admitted)
    BY ToolStartsTells DEF Stamped
  <1>2. /\ Fresh(a, {"chain_end", "tool_call"}) /\ Fresh(b, {"aggregator_prefetch_start"})
        /\ Fresh(c, VerdictTypes) /\ Fresh(d, {"prediction_result", "checkpoint_created"})
        /\ Fresh(r[2], {"prefetch_decision", "prefetch_started"})
    BY <1>1 DEF ToolTells, Judged, AheadTells, VerdictTypes
  <1>3. events' = ((((events \o a) \o b) \o c) \o d) \o r[2] /\ tasks' = r[1]
    BY <1>1 DEF ToolTells, AtCall, AtVerdict, AtPrediction
  <1>4. mode = "baseline" => d = <<>> /\ r[1] = Judge(tool).tasks /\ r[2] = <<>>
    BY DEF MadeEvents, Ahead, Makes, Active
  <1>5. DOMAIN Judge(tool).tasks = DOMAIN tasks
    BY <1>1 DEF ToolTells, Judged, SameTasks
  <1> HIDE DEF a, b, c, d, r
  <1> DEFINE s1 == {"chain_end", "tool_call"}
             s2 == {"aggregator_prefetch_start"}
             s4 == {"prediction_result", "checkpoint_created"}
             s5 == {"prefetch_decision", "prefetch_started"}
  <1>7. s1 \cup s2 = CallTypes /\ s4 \cup s5 = PredictTypes
    BY DEF CallTypes, PredictTypes
  <1> HIDE DEF s1, s2, s4, s5
  <1>6. Joined(events, a, b, s1 \cup s2)
    BY <1>1, <1>2, GrewMore DEF s1, s2
  <1>8. Fresh(a \o b, CallTypes)
    BY <1>6, <1>7 DEF Joined
  <1> DEFINE ab == a \o b
  <1> HIDE DEF ab
  <1>9. Joined(events, ab, c, CallTypes \cup VerdictTypes)
    BY <1>1, <1>2, <1>8, GrewMore DEF ab
  <1> DEFINE abc == ab \o c
             s == CallTypes \cup VerdictTypes
  <1> HIDE DEF abc, s
  <1>10. Fresh(abc, s) /\ events \o abc = ((events \o a) \o b) \o c
    BY <1>6, <1>9 DEF abc, s, ab, Joined
  <1>11. events \o abc \in Seq(Event)
    <2>1. abc \in Seq(Event)
      BY <1>10 DEF Fresh
    <2> QED BY <1>1, <2>1, ConcatProperties
  <1>12. Joined(events \o abc, d, r[2], PredictTypes)
    <2>1. Joined(events \o abc, d, r[2], s4 \cup s5)
      BY <1>2, <1>11, GrewMore DEF s4, s5
    <2> QED BY <1>7, <2>1
  <1> DEFINE dr == d \o r[2]
  <1> HIDE DEF dr
  <1>13. Joined(events, abc, dr, s \cup PredictTypes)
    <2>1. Fresh(dr, PredictTypes)
      BY <1>12 DEF dr, Joined
    <2> QED BY <1>1, <1>10, <2>1, GrewMore
  <1>14. events' = events \o (abc \o dr)
    BY <1>3, <1>10, <1>12, <1>13 DEF dr, Joined
  <1>15. Grew(s \cup PredictTypes)
    BY <1>13, <1>14 DEF Grew, Joined
  <1>16. ASSUME mode = "baseline"
         PROVE  Grew(s) /\ DOMAIN tasks' = DOMAIN tasks
    <2>1. d = <<>> /\ r[2] = <<>>
      BY <1>4, <1>16
    <2>2. events' = events \o abc
      <3>1. (events \o abc) \o <<>> = events \o abc
        BY <1>11, ConcatEmptySeq
      <3> QED BY <1>3, <1>10, <2>1, <3>1
    <2> QED BY <1>3, <1>4, <1>5, <1>10, <1>16, <2>2 DEF Grew
  <1> QED BY <1>15, <1>16 DEF s

LEMMA GateGrew ==
  ASSUME Typed, Stamped, Kept(events, tasks), WorkerGate
  PROVE  Grew({"chain_start", "resource_consumed"}) /\ DOMAIN tasks' = DOMAIN tasks
  <1>1. PICK c : /\ Fresh(c, {"resource_consumed"})
                 /\ events' = (events \o <<Tracked("chain_start", "WorkerAgent")>>) \o c
    BY WorkerGateTells DEF GateTells
  <1>2. Fresh(<<Tracked("chain_start", "WorkerAgent")>>, {"chain_start"}) /\ DOMAIN tasks' = DOMAIN tasks
    BY WorkerGateTells DEF GateTells, SameTasks
  <1> DEFINE a == <<Tracked("chain_start", "WorkerAgent")>>
  <1> HIDE DEF a
  <1> DEFINE s1 == {"chain_start"}
             s2 == {"resource_consumed"}
  <1>3. s1 \cup s2 = {"chain_start", "resource_consumed"}
    OBVIOUS
  <1> HIDE DEF s1, s2
  <1>4. Joined(events, a, c, s1 \cup s2)
    BY <1>1, <1>2, GrewMore DEF a, s1, s2, Stamped
  <1>5. Fresh(a \o c, {"chain_start", "resource_consumed"}) /\ events' = events \o (a \o c)
    BY <1>1, <1>3, <1>4 DEF Joined, a
  <1> QED BY <1>2, <1>5 DEF Grew

\* A step leaves alone what it adds no event of.
LEMMA GrewSame ==
  ASSUME Stamped, NEW types, Grew(types), NEW others, types \cap others = {}
  PROVE  Same(events, events', others)
  <1> QED BY FreshSame DEF Grew, Stamped

\* Where a step adds events of some types at all.
LEMMA StepGrew ==
  ASSUME Typed, Stamped, Kept(events, tasks), LagsMet, [TraceNext]_vars
  PROVE  \/ PlannerStarts \/ PlannerEnds
         \/ WorkerGate
         \/ \E tool \in Tool, p \in BOOLEAN, a \in BOOLEAN : ToolStarts(tool, p, a)
         \/ (\E k \in DOMAIN tasks : TakesCalculator(k)) \/ LoadedItself
         \/ Grew({"worker_swap_wait", "aggregator_swap_wait", "tool_end", "chain_start", "chain_end",
                  "prefetch_completed"})
  <1> DEFINE rest == {"worker_swap_wait", "aggregator_swap_wait", "tool_end", "chain_start", "chain_end",
                      "prefetch_completed"}
  <1>1. events' = events => Grew(rest)
    <2>1. events \o <<>> = events /\ Fresh(<<>>, rest)
      BY FreshNone, ConcatEmptySeq DEF Stamped
    <2> QED BY <2>1 DEF Grew
  <1>2. /\ {"worker_swap_wait"} \subseteq rest /\ {"aggregator_swap_wait"} \subseteq rest
        /\ {"tool_end", "chain_start"} \subseteq rest /\ {"chain_end", "chain_start"} \subseteq rest
        /\ {"chain_end"} \subseteq rest /\ {"prefetch_completed"} \subseteq rest
    OBVIOUS
  <1> HIDE DEF rest
  <1>3. \A k \in DOMAIN tasks : PollReports(k) => Grew({"prefetch_completed"})
    BY PollReportsTells DEF ReportTells, Grew
  <1>4. ASSUME WorkerReady \/ AggregatorReady \/ ToolEnds \/ AggregatorGate \/ RunEnds
               \/ \E k \in DOMAIN tasks : PollReports(k)
        PROVE  Grew(rest)
    BY <1>2, <1>3, <1>4, SimpleTells, GrewWider
  <1>5. ASSUME LoadsItself \/ Tick \/ UNCHANGED vars
        PROVE  Grew(rest)
    <2>1. UNCHANGED vars => events' = events
      BY DEF vars
    <2> QED BY <1>1, <1>5, <2>1, SimpleTells
  <1> QED BY <1>4, <1>5 DEF TraceNext, Workflow, rest

-------------------------------------------------------------------------------
(* The loads of calculators, and the runs that never prefetch.             *)

Loads(ev) == E!Where(ev, "mace_load")
Took(ev) == Part([i \in Loads(ev) |-> ev[i].took], Loads(ev))

LEMMA TookSame ==
  ASSUME NEW ev, NEW ev2, Same(ev, ev2, {"mace_load"})
  PROVE  Took(ev2) = Took(ev) /\ Loads(ev2) = Loads(ev) /\ \A i \in Loads(ev) : ev2[i] = ev[i]
  <1>1. Loads(ev2) = Loads(ev) /\ \A i \in Loads(ev) : ev2[i] = ev[i]
    BY DEF Same, Loads
  <1>2. [i \in Loads(ev2) |-> ev2[i].took] = [i \in Loads(ev) |-> ev[i].took]
    BY <1>1
  <1> QED BY <1>1, <1>2 DEF Took

LEMMA TookMore ==
  ASSUME NEW ev \in Seq(Event), NEW e \in Event, e.type = "mace_load"
  PROVE  /\ Took(ev \o <<e>>) = Took(ev) + e.took
         /\ Took(ev) \in Int /\ \A i \in Loads(ev) : ev[i].took \in Int /\ IsFiniteSet(Loads(ev))
         /\ \A i \in Loads(ev \o <<e>>) :
               \/ i \in Loads(ev) /\ (ev \o <<e>>)[i] = ev[i]
               \/ (ev \o <<e>>)[i] = e
  <1> DEFINE ev2 == ev \o <<e>>
             n == Len(ev) + 1
             S == Loads(ev)
             g == [i \in S |-> ev[i].took]
             h == [i \in S \cup {n} |-> ev2[i].took]
  <1>1. Added(ev, ev2, e)
    BY OneAdded
  <1>2. /\ ev2[n] = e /\ \A i \in S : i <= Len(ev) /\ ev2[i] = ev[i]
        /\ Loads(ev2) = S \cup {n}
    BY <1>1 DEF Added, Loads, EventType
  <1>3. S \in SUBSET (1 .. Len(ev)) /\ Len(ev) \in Nat
    BY Positions, LenProperties DEF Loads
  <1>4. IsFiniteSet(S) /\ n \notin S
    <2> HIDE DEF S
    <2>1. IsFiniteSet(S)
      BY <1>3, PositionsFinite
    <2>2. n \notin 1 .. Len(ev)
      BY <1>3
    <2> HIDE DEF n
    <2> QED BY <1>3, <2>1, <2>2
  <1>5. \A i \in S : ev[i].took \in Int
    <2> TAKE i \in S
    <2>1. ev[i] \in Event /\ ev[i].type = "mace_load"
      BY ElementOfSeq, LenProperties DEF E!Where, Loads
    <2> QED BY <2>1, EventFields
  <1>6. e.took \in Int
    BY EventFields
  <1>7. Took(ev) = Part(g, S) /\ Took(ev2) = Part(h, S \cup {n})
    BY <1>2 DEF Took
  <1>8. (\A x \in S : h[x] = g[x] /\ g[x] \in Int) /\ h[n] = e.took
    BY <1>2, <1>5
  <1>9. \A i \in Loads(ev2) : (i \in S /\ ev2[i] = ev[i]) \/ ev2[i] = e
    BY <1>2
  <1> HIDE DEF ev2, n, S, g, h
  <1>10. Part(h, S \cup {n}) = Part(g, S) + h[n] /\ Part(g, S) \in Int
    BY <1>4, <1>6, <1>8, PartGrows
  <1> QED BY <1>4, <1>5, <1>7, <1>8, <1>9, <1>10 DEF ev2, S

\* Every second a tool stood for a calculator is in the trace; a run that never
\* prefetches has no tasks and no predictions, and loads from disk.
LoadsTold == Took(events) = Stood(needs, {"mace"})

BaselineTold ==
    mode = "baseline" =>
        /\ DOMAIN tasks = {} /\ E!Where(events, "prediction_result") = {}
        /\ E!Where(events, "prefetch_decision") = {}
        /\ \A i \in Loads(events) : events[i].what = "disk"

LEMMA MaceStood ==
  ASSUME Typed, [TraceNext]_vars
  PROVE  /\ (\E k \in DOMAIN tasks : TakesCalculator(k)) \/ LoadedItself =>
               Stood(needs', {"mace"}) = Stood(needs, {"mace"}) + (clock - since)
         /\ ~((\E k \in DOMAIN tasks : TakesCalculator(k)) \/ LoadedItself) =>
               Stood(needs', {"mace"}) = Stood(needs, {"mace"})
  <1> DEFINE w == {"mace"}
  <1>1. w \in SUBSET {"worker", "mace", "aggregator"} /\ "worker" \notin w /\ "aggregator" \notin w
        /\ "mace" \in w
    OBVIOUS
  <1>2. Stood(needs, w) \in Nat
    BY StoodNext
  <1> HIDE DEF w
  <1>3. WorkerReady => Stood(needs', w) = Stood(needs, w) + 0
    BY <1>1, StoodNext
  <1>4. AggregatorReady => Stood(needs', w) = Stood(needs, w) + 0
    BY <1>1, StoodNext
  <1>5. (\E k \in DOMAIN tasks : TakesCalculator(k)) \/ LoadedItself =>
           Stood(needs', w) = Stood(needs, w) + (clock - since)
    BY <1>1, StoodNext
  <1>6. needs' = needs => Stood(needs', w) = Stood(needs, w)
    BY <1>1, StoodNext
  <1> QED BY <1>2, <1>3, <1>4, <1>5, <1>6, NeedsGrow DEF w

\* A calculator is there.
LEMMA LoadsGrow ==
  ASSUME Typed, Stamped, LoadsTold, BaselineTold, [TraceNext]_vars,
         (\E k \in DOMAIN tasks : TakesCalculator(k)) \/ LoadedItself
  PROVE  LoadsTold' /\ BaselineTold'
  <1>1. PICK source \in {"prefetch_cache", "disk"} :
           /\ HasCalculator(source) /\ UNCHANGED <<mode, tasks>>
           /\ mode = "baseline" => source = "disk"
    <2>1. CASE \E k \in DOMAIN tasks : TakesCalculator(k)
      <3>1. mode # "baseline"
        BY <2>1 DEF BaselineTold
      <3>2. HasCalculator("prefetch_cache") /\ UNCHANGED <<mode, tasks>>
        BY <2>1 DEF TakesCalculator, script
      <3> QED BY <3>1, <3>2
    <2>2. CASE LoadedItself
      <3>1. HasCalculator("disk") /\ UNCHANGED <<mode, tasks>>
        BY <2>2 DEF LoadedItself, script
      <3> QED BY <3>1
    <2> QED BY <2>1, <2>2
  <1> DEFINE e == Timed("mace_load", source, clock - since)
  <1>2. clock \in Nat /\ since \in Nat /\ events \in Seq(Event)
    BY DEF Typed, Stamped
  <1>3. e \in Event
    BY <1>2, TrackedWritten
  <1>4. e.type = "mace_load" /\ e.took = clock - since /\ e.what = source /\ e.at = clock
    BY DEF Timed
  <1>5. events' = events \o <<e>>
    BY <1>1 DEF HasCalculator, Emit
  <1> HIDE DEF e
  <1>6. Took(events') = Took(events) + (clock - since)
    BY <1>2, <1>3, <1>4, <1>5, TookMore
  <1>7. \A i \in Loads(events') : (i \in Loads(events) /\ events'[i] = events[i]) \/ events'[i] = e
    BY <1>2, <1>3, <1>4, <1>5, TookMore
  <1>8. LoadsTold'
    <2>1. Stood(needs', {"mace"}) = Stood(needs, {"mace"}) + (clock - since)
      BY MaceStood
    <2> QED BY <1>6, <2>1 DEF LoadsTold
  <1>9. BaselineTold'
    <2>1. Fresh(<<e>>, {"mace_load"})
      BY <1>3, <1>4, FreshOne
    <2>2. {"mace_load"} \cap {"prediction_result", "prefetch_decision"} = {}
      OBVIOUS
    <2>3. Same(events, events', {"prediction_result", "prefetch_decision"})
      BY <1>2, <1>5, <2>1, <2>2, FreshSame
    <2>4. /\ E!Where(events', "prediction_result") = E!Where(events, "prediction_result")
          /\ E!Where(events', "prefetch_decision") = E!Where(events, "prefetch_decision")
      BY <2>3 DEF Same
    <2>5. mode' = mode /\ tasks' = tasks
      BY <1>1
    <2>6. mode = "baseline" => \A i \in Loads(events') : events'[i].what = "disk"
      BY <1>1, <1>4, <1>7 DEF BaselineTold
    <2> QED BY <2>4, <2>5, <2>6 DEF BaselineTold
  <1> QED BY <1>8, <1>9

\* No calculator is there in this step.
LEMMA LoadsStay ==
  ASSUME Typed, Stamped, LoadsTold, BaselineTold, [TraceNext]_vars,
         ~((\E k \in DOMAIN tasks : TakesCalculator(k)) \/ LoadedItself),
         NEW types, Grew(types), "mace_load" \notin types,
         NEW bare, mode = "baseline" => /\ DOMAIN tasks' = DOMAIN tasks
                                        /\ Grew(bare) /\ "prediction_result" \notin bare
                                        /\ "prefetch_decision" \notin bare
  PROVE  LoadsTold' /\ BaselineTold'
  <1>1. Same(events, events', {"mace_load"})
    <2>1. types \cap {"mace_load"} = {}
      OBVIOUS
    <2> QED BY <2>1, GrewSame
  <1>2. /\ Took(events') = Took(events) /\ Loads(events') = Loads(events)
        /\ \A i \in Loads(events) : events'[i] = events[i]
    BY <1>1, TookSame
  <1>3. LoadsTold'
    BY <1>2, MaceStood DEF LoadsTold
  <1>4. mode' = mode
    BY DEF TraceNext, Workflow, PollReports, PlannerStarts, PlannerEnds, WorkerGate, WorkerReady,
           ToolStarts, TakesCalculator, LoadsItself, LoadedItself, ToolEnds, AggregatorGate,
           AggregatorReady, RunEnds, Tick, script, vars
  <1>5. mode = "baseline" => Same(events, events', {"prediction_result", "prefetch_decision"})
    <2> SUFFICES ASSUME mode = "baseline"
                 PROVE  Same(events, events', {"prediction_result", "prefetch_decision"})
      OBVIOUS
    <2>1. bare \cap {"prediction_result", "prefetch_decision"} = {}
      OBVIOUS
    <2> QED BY <2>1, GrewSame
  <1>6. BaselineTold'
    BY <1>2, <1>4, <1>5 DEF BaselineTold, Same
  <1> QED BY <1>3, <1>6

LEMMA BaselineNext ==
  ASSUME Typed, Stamped, Kept(events, tasks), LagsMet, LoadsTold, BaselineTold, [TraceNext]_vars
  PROVE  LoadsTold' /\ BaselineTold'
  <1> DEFINE rest == {"worker_swap_wait", "aggregator_swap_wait", "tool_end", "chain_start", "chain_end",
                      "prefetch_completed"}
             loads == (\E k \in DOMAIN tasks : TakesCalculator(k)) \/ LoadedItself
  <1>1. CASE loads
    BY <1>1, LoadsGrow
  <1>2. CASE ~loads /\ (PlannerStarts \/ PlannerEnds)
    <2>1. /\ Grew(PlannerTypes) /\ "mace_load" \notin PlannerTypes
          /\ mode = "baseline" => Grew({"chain_start", "chain_end"}) /\ tasks' = tasks
      BY <1>2, PlannerGrew DEF PlannerTypes
    <2> QED BY <1>2, <2>1, LoadsStay
  <1>3. CASE ~loads /\ WorkerGate
    <2>1. Grew({"chain_start", "resource_consumed"}) /\ DOMAIN tasks' = DOMAIN tasks
      BY <1>3, GateGrew
    <2> QED BY <1>3, <2>1, LoadsStay
  <1>4. CASE ~loads /\ \E tool \in Tool, p \in BOOLEAN, a \in BOOLEAN : ToolStarts(tool, p, a)
    <2>1. /\ Grew((CallTypes \cup VerdictTypes) \cup PredictTypes)
          /\ mode = "baseline" => Grew(CallTypes \cup VerdictTypes) /\ DOMAIN tasks' = DOMAIN tasks
      BY <1>4, ToolGrew
    <2>2. /\ "mace_load" \notin (CallTypes \cup VerdictTypes) \cup PredictTypes
          /\ "prediction_result" \notin CallTypes \cup VerdictTypes
          /\ "prefetch_decision" \notin CallTypes \cup VerdictTypes
      BY DEF CallTypes, VerdictTypes, PredictTypes
    <2> QED BY <1>4, <2>1, <2>2, LoadsStay
  <1>5. CASE /\ ~loads /\ ~PlannerStarts /\ ~PlannerEnds /\ ~WorkerGate
             /\ ~\E tool \in Tool, p \in BOOLEAN, a \in BOOLEAN : ToolStarts(tool, p, a)
    <2>1. Grew(rest)
      BY <1>5, StepGrew
    <2>2. /\ "mace_load" \notin rest /\ "prediction_result" \notin rest
          /\ "prefetch_decision" \notin rest
      OBVIOUS
    <2>3. DOMAIN tasks' = DOMAIN tasks
      <3>1. CASE \E k \in DOMAIN tasks : PollReports(k)
        BY <3>1, PollReportsTells DEF ReportTells
      <3>2. CASE Apart \/ Tick \/ UNCHANGED vars
        BY <3>2, ApartTells DEF Tick, vars
      <3> QED BY <1>5, <3>1, <3>2 DEF TraceNext, Workflow, Apart
    <2> HIDE DEF rest
    <2> QED BY <1>5, <2>1, <2>2, <2>3, LoadsStay
  <1> QED BY <1>1, <1>2, <1>3, <1>4, <1>5

LEMMA BaselineInit ==
  ASSUME TraceInit
  PROVE  LoadsTold /\ BaselineTold
  <1>1. tasks = <<>> /\ needs = <<>> /\ \A type : E!Where(events, type) = {}
    BY DEF TraceInit, E!Where
  <1>2. StoodAt(needs, {"mace"}) = {} /\ Loads(events) = {} /\ DOMAIN tasks = {}
    BY <1>1 DEF StoodAt, Loads
  <1>3. Took(events) = 0 /\ Stood(needs, {"mace"}) = 0
    BY <1>2, PartEmpty DEF Took, Stood
  <1> QED BY <1>1, <1>2, <1>3 DEF LoadsTold, BaselineTold

-------------------------------------------------------------------------------
(* The stall classes of a run that never prefetches.                       *)

LEMMA ImageFinite ==
  ASSUME NEW S, IsFiniteSet(S), NEW f
  PROVE  IsFiniteSet({f[x] : x \in S})
  <1> DEFINE good == {s \in SUBSET S : IsFiniteSet({f[x] : x \in s})}
  <1>1. {} \in good
    <2>1. {f[x] : x \in {}} = {}
      OBVIOUS
    <2> QED BY <2>1, FS_EmptySet
  <1>2. \A s \in good : \A y \in S \ s : s \cup {y} \in good
    <2> TAKE s \in good
    <2> TAKE y \in S \ s
    <2>1. {f[x] : x \in s \cup {y}} = {f[x] : x \in s} \cup {f[y]}
      OBVIOUS
    <2>2. IsFiniteSet({f[x] : x \in s} \cup {f[y]})
      <3>1. IsFiniteSet({f[x] : x \in s})
        OBVIOUS
      <3> HIDE DEF good
      <3> QED BY <3>1, FS_AddElement
    <2> QED BY <2>1, <2>2
  <1>3. good \in SUBSET SUBSET S
    OBVIOUS
  <1>4. S \in good
    <2> HIDE DEF good
    <2> QED BY <1>1, <1>2, <1>3, Grown
  <1> QED BY <1>4

\* The sums over the classes of S add up to the sum over S.
OfClass(S, c, k) == {x \in S : c[x] = k}
InClasses(S, c, s) == {x \in S : c[x] \in s}

LEMMA PartSplit ==
  ASSUME NEW S, IsFiniteSet(S), NEW g, IntOn(g, S), NEW c, NEW K, IsFiniteSet(K),
         NEW h, \A k \in K : h[k] = Part(g, OfClass(S, c, k))
  PROVE  Part(h, K) = Part(g, InClasses(S, c, K))
  <1> DEFINE good == {s \in SUBSET K : Part(h, s) = Part(g, InClasses(S, c, s))}
  <1>1. {} \in good
    <2>1. InClasses(S, c, {}) = {}
      BY DEF InClasses
    <2> QED BY <2>1, PartEmpty
  <1>2. \A s : InClasses(S, c, s) \in SUBSET S
    BY DEF InClasses
  <1>3. \A k : OfClass(S, c, k) \in SUBSET S
    BY DEF OfClass
  <1>4. \A s \in SUBSET S : IsFiniteSet(s) /\ IntOn(g, s)
    BY FS_Subset DEF IntOn
  <1>5. \A k \in K : h[k] \in Int
    BY <1>3, <1>4, PartInt
  <1>6. \A s \in good : \A y \in K \ s : s \cup {y} \in good
    <2> TAKE s \in good
    <2> TAKE y \in K \ s
    <2> DEFINE a == InClasses(S, c, s)
               b == OfClass(S, c, y)
    <2>1. a \cap b = {} /\ InClasses(S, c, s \cup {y}) = a \cup b
      BY DEF InClasses, OfClass
    <2>2. a \in SUBSET S /\ b \in SUBSET S /\ a \cup b \in SUBSET S
      BY <1>2, <1>3
    <2>3. Part(h, s) = Part(g, a) /\ s \in SUBSET K /\ s \cup {y} \in SUBSET K /\ h[y] = Part(g, b)
      OBVIOUS
    <2> HIDE DEF a, b, good
    <2>4. Adds(g, a, b)
      BY <1>4, <2>1, <2>2, PartUnion
    <2>5. More(h, s, y)
      <3>1. IsFiniteSet(s)
        BY <2>3, FS_Subset
      <3>2. IntOn(h, s \cup {y}) /\ y \notin s
        BY <1>5, <2>3 DEF IntOn
      <3> QED BY <3>1, <3>2, PartInsert
    <2>6. Part(h, s \cup {y}) = Part(g, InClasses(S, c, s \cup {y}))
      BY <2>1, <2>3, <2>4, <2>5 DEF Adds, More
    <2> QED BY <2>3, <2>6 DEF good
  <1>7. good \in SUBSET SUBSET K
    OBVIOUS
  <1>8. K \in good
    <2> HIDE DEF good
    <2> QED BY <1>1, <1>6, <1>7, Grown
  <1> QED BY <1>8

\* The classes share out the seconds of the rows that count.
CountedRows == {n \in DOMAIN Rows : E!Counted(Rows, n)}
Exposures == [n \in DOMAIN Rows |-> Rows[n].exposure]

LEMMA TaxonomyTotal ==
  ASSUME IsFiniteSet(DOMAIN Rows), \A n \in CountedRows : Rows[n].exposure \in Int
  PROVE  TaxonomySeconds = Part(Exposures, CountedRows)
  <1> DEFINE c == [n \in DOMAIN Rows |-> E!StallClass(Rows[n], E!OnTimeGates(Rows))]
             K == {c[n] : n \in DOMAIN Rows}
             h == [class \in K |-> E!ClassSeconds(Rows, class)]
  <1>1. TaxonomySeconds = Part(h, K)
    <2>1. K = {E!StallClass(Rows[n], E!OnTimeGates(Rows)) : n \in DOMAIN Rows}
      OBVIOUS
    <2>2. TaxonomySeconds = SumFunction([class \in {E!StallClass(Rows[n], E!OnTimeGates(Rows)) :
                                                       n \in DOMAIN Rows} |-> E!ClassSeconds(Rows, class)])
      BY DEF TaxonomySeconds
    <2>3. TaxonomySeconds = SumFunction(h)
      BY <2>1, <2>2
    <2>4. h = [class \in K |-> h[class]]
      OBVIOUS
    <2> QED BY <2>3, <2>4 DEF Part
  <1>2. \A k \in K : h[k] = Part(Exposures, OfClass(CountedRows, c, k))
    <2> TAKE k \in K
    <2> DEFINE R == {n \in DOMAIN Rows : /\ E!Counted(Rows, n)
                                         /\ E!StallClass(Rows[n], E!OnTimeGates(Rows)) = k}
    <2>1. R = OfClass(CountedRows, c, k)
      BY DEF OfClass, CountedRows
    <2>2. E!ClassSeconds(Rows, k) = E!SumFunction([n \in R |-> Rows[n].exposure])
      BY DEF E!ClassSeconds
    <2>3. [n \in R |-> Rows[n].exposure] = [n \in R |-> Exposures[n]]
      BY DEF Exposures
    <2>4. E!SumFunction([n \in R |-> Exposures[n]]) = Part(Exposures, R)
      BY SumsSame DEF Part
    <2> QED BY <2>1, <2>2, <2>3, <2>4
  <1>3. IsFiniteSet(K)
    <2> HIDE DEF c
    <2> QED BY ImageFinite
  <1>4. IsFiniteSet(CountedRows) /\ IntOn(Exposures, CountedRows)
    <2>1. CountedRows \in SUBSET DOMAIN Rows
      BY DEF CountedRows
    <2> QED BY <2>1, FS_Subset DEF IntOn, Exposures
  <1>5. InClasses(CountedRows, c, K) = CountedRows
    BY DEF InClasses, CountedRows
  <1> HIDE DEF c, K, h
  <1> QED BY <1>1, <1>2, <1>3, <1>4, <1>5, PartSplit

\* Rows of a run without tasks: of its gates, its loads and its consumptions.
LoadRows == {<<"mace_load", i>> : i \in DiskLoads(events)}
UseRows == {<<"consumed", i>> : i \in BareUses(events)}
GateRows == {<<"gate", i>> : i \in Unmatched(events)}

LEMMA PlainRows ==
  ASSUME RunInv, BaselineTold, mode = "baseline"
  PROVE  /\ DOMAIN Rows = (GateRows \cup LoadRows) \cup UseRows
         /\ \A i \in DiskLoads(events) : /\ Rows[<<"mace_load", i>>].group = E!Missing
                                         /\ Rows[<<"mace_load", i>>].exposure = events[i].took
         /\ \A i \in BareUses(events) : /\ Rows[<<"consumed", i>>].group = E!Missing
                                        /\ Rows[<<"consumed", i>>].exposure = 0
         /\ \A g \in Unmatched(events) : Rows[<<"gate", g>>].group # E!Missing
         /\ IsFiniteSet(GateRows) /\ IsFiniteSet(LoadRows) /\ IsFiniteSet(UseRows)
         /\ DiskLoads(events) = Loads(events)
  <1>1. events \in Seq(Event)
    BY DEF RunInv, Stamped
  <1>2. E!TasksOf(events) = {}
    BY EachRecord DEF BaselineTold
  <1>3. E!SkippedRids(events) = {}
    BY DEF E!SkippedRids, BaselineTold
  <1>4. DOMAIN Rows = (GateRows \cup LoadRows) \cup UseRows
    <2>1. DOMAIN Rows = RowIds(events)
      BY RowsOf DEF Rows
    <2> QED BY <1>2, <1>3, <2>1 DEF RowIds, GateRows, LoadRows, UseRows
  <1>5. \A rid : E!PredictionsOf(events, rid) = {}
    BY DEF E!PredictionsOf, BaselineTold
  <1>6. \A i \in DiskLoads(events) : /\ Rows[<<"mace_load", i>>].group = E!Missing
                                     /\ Rows[<<"mace_load", i>>].exposure = events[i].took
    <2> TAKE i \in DiskLoads(events)
    <2>1. Rows[<<"mace_load", i>>] = E!MaceRow(events, i, Config)
      BY RowsOf DEF Rows
    <2>2. /\ E!MaceRow(events, i, Config).group = E!Missing
          /\ E!MaceRow(events, i, Config).exposure = events[i].took
      BY RowFields
    <2> QED BY <2>1, <2>2
  <1>7. \A i \in BareUses(events) : /\ Rows[<<"consumed", i>>].group = E!Missing
                                    /\ Rows[<<"consumed", i>>].exposure = 0
    <2> TAKE i \in BareUses(events)
    <2>1. Rows[<<"consumed", i>>] = E!ConsumedRow(events, i, Config)
      BY RowsOf DEF Rows
    <2>2. /\ E!ConsumedRow(events, i, Config).group = E!Missing
          /\ E!PredictionsOf(events, events[i].rid) = {} => E!ConsumedRow(events, i, Config).exposure = 0
      BY RowFields
    <2> QED BY <1>5, <2>1, <2>2
  <1>8. \A g \in Unmatched(events) : Rows[<<"gate", g>>].group # E!Missing
    <2> TAKE g \in Unmatched(events)
    <2>1. Rows[<<"gate", g>>].group = g
      BY GatedRows
    <2>2. g \in E!Where(events, "worker_swap_wait") \cup E!Where(events, "aggregator_swap_wait")
      BY DEF Unmatched, E!Gates
    <2>3. g \in 1 .. Len(events)
      BY <1>1, <2>2, Positions
    <2> QED BY <1>1, <2>1, <2>3, LenProperties DEF E!Missing
  <1>9. IsFiniteSet(Unmatched(events)) /\ IsFiniteSet(DiskLoads(events)) /\ IsFiniteSet(BareUses(events))
    <2>1. Len(events) \in Nat
      BY <1>1, LenProperties
    <2>2. \A type : E!Where(events, type) \in SUBSET (1 .. Len(events))
      BY <1>1, Positions
    <2>3. /\ Unmatched(events) \in SUBSET (1 .. Len(events))
          /\ DiskLoads(events) \in SUBSET (1 .. Len(events))
          /\ BareUses(events) \in SUBSET (1 .. Len(events))
      BY <2>2 DEF Unmatched, DiskLoads, BareUses, E!Gates
    <2> QED BY <2>1, <2>3, PositionsFinite
  <1>10. IsFiniteSet(GateRows)
    <2> DEFINE f == [i \in Unmatched(events) |-> <<"gate", i>>]
    <2>1. GateRows = {f[i] : i \in Unmatched(events)}
      BY DEF GateRows
    <2> HIDE DEF f
    <2> QED BY <1>9, <2>1, ImageFinite
  <1>11. IsFiniteSet(LoadRows)
    <2> DEFINE f == [i \in DiskLoads(events) |-> <<"mace_load", i>>]
    <2>1. LoadRows = {f[i] : i \in DiskLoads(events)}
      BY DEF LoadRows
    <2> HIDE DEF f
    <2> QED BY <1>9, <2>1, ImageFinite
  <1>12. IsFiniteSet(UseRows)
    <2> DEFINE f == [i \in BareUses(events) |-> <<"consumed", i>>]
    <2>1. UseRows = {f[i] : i \in BareUses(events)}
      BY DEF UseRows
    <2> HIDE DEF f
    <2> QED BY <1>9, <2>1, ImageFinite
  <1>13. DiskLoads(events) = Loads(events)
    BY DEF DiskLoads, Loads, BaselineTold
  <1> QED BY <1>4, <1>6, <1>7, <1>8, <1>10, <1>11, <1>12, <1>13

LEMMA ReconcileMeets ==
  ASSUME SecondsInv, LoadsTold, BaselineTold
  PROVE  BaselineReconciles
  <1> SUFFICES ASSUME mode = "baseline"
               PROVE  TaxonomySeconds = BlockedFor({"worker", "aggregator", "mace"})
    BY DEF BaselineReconciles
  <1>1. RunInv /\ events \in Seq(Event) /\ Typed /\ GatesTold
    BY DEF SecondsInv, RunInv, Stamped
  <1>2. /\ DOMAIN Rows = (GateRows \cup LoadRows) \cup UseRows
        /\ IsFiniteSet(GateRows) /\ IsFiniteSet(LoadRows) /\ IsFiniteSet(UseRows)
        /\ DiskLoads(events) = Loads(events)
    BY <1>1, PlainRows
  <1>3. \A n \in LoadRows \cup UseRows : Rows[n].group = E!Missing
    BY <1>1, PlainRows DEF LoadRows, UseRows
  <1>4. \A n \in GateRows : Rows[n].group # E!Missing
    BY <1>1, PlainRows DEF GateRows
  <1>5. CountedRows = RowsOfGates \cup (LoadRows \cup UseRows)
    <2>1. \A n \in LoadRows \cup UseRows : E!Counted(Rows, n)
      BY <1>3 DEF E!Counted
    <2> QED BY <1>2, <1>3, <1>4, <2>1 DEF CountedRows, RowsOfGates, OfGate
  <1>6. RowsOfGates \cap (LoadRows \cup UseRows) = {} /\ LoadRows \cap UseRows = {}
    <2>1. RowsOfGates \cap (LoadRows \cup UseRows) = {}
      BY <1>3 DEF RowsOfGates, OfGate
    <2>2. LoadRows \cap UseRows = {}
      BY DEF LoadRows, UseRows
    <2> QED BY <2>1, <2>2
  <1>7. \A n \in RowsOfGates : n \in DOMAIN Rows /\ Rows[n].exposure \in Int
    BY GatesCounted DEF RowsOfGates
  <1>8. \A i \in Loads(events) : events[i].took \in Int
    <2> TAKE i \in Loads(events)
    <2>1. i \in DOMAIN events /\ events[i].type = "mace_load"
      BY DEF Loads, E!Where
    <2>2. events[i] \in Event
      BY <1>1, <2>1, ElementOfSeq, LenProperties
    <2> QED BY <2>1, <2>2, EventFields
  <1>9. \A n \in LoadRows : Rows[n].exposure \in Int
    BY <1>1, <1>2, <1>8, PlainRows DEF LoadRows
  <1>10. \A n \in UseRows : Rows[n].exposure = 0
    BY <1>1, PlainRows DEF UseRows
  <1>11. IsFiniteSet(RowsOfGates)
    BY <1>1, OneRowEach
  <1>12. IsFiniteSet(DOMAIN Rows)
    BY <1>2, FS_Union
  <1>13. \A n \in CountedRows : Rows[n].exposure \in Int
    BY <1>5, <1>7, <1>9, <1>10
  <1>14. TaxonomySeconds = Part(Exposures, CountedRows)
    BY <1>12, <1>13, TaxonomyTotal
  <1>15. \A n \in CountedRows : Exposures[n] = Rows[n].exposure
    BY DEF Exposures, CountedRows
  <1>16. Part(Exposures, RowsOfGates) = GateSeconds
    <2>1. [n \in RowsOfGates |-> Exposures[n]] = [n \in RowsOfGates |-> Rows[n].exposure]
      BY <1>5, <1>15
    <2> QED BY <2>1, GatesCounted DEF Part
  <1>17. Part(Exposures, UseRows) = 0
    <2>1. \A n \in UseRows : Exposures[n] = 0
      BY <1>5, <1>10, <1>15
    <2> QED BY <1>2, <2>1, PartZero
  <1>18. Part(Exposures, LoadRows) = Took(events)
    <2> DEFINE f == [n \in LoadRows |-> n[2]]
               g == [i \in Loads(events) |-> events[i].took]
    <2>1. \A n \in LoadRows : n = <<"mace_load", n[2]>> /\ n[2] \in Loads(events)
      BY <1>2 DEF LoadRows
    <2>2. \A n \in LoadRows : Exposures[n] = g[f[n]] /\ Exposures[n] \in Int
      <3> TAKE n \in LoadRows
      <3>1. n = <<"mace_load", n[2]>> /\ n[2] \in Loads(events)
        BY <2>1
      <3>2. Rows[<<"mace_load", n[2]>>].exposure = events[n[2]].took
        BY <1>1, <1>2, <3>1, PlainRows
      <3>3. Exposures[n] = Rows[n].exposure
        BY <1>5, <1>15
      <3> QED BY <1>8, <3>1, <3>2, <3>3
    <2>3. \A n \in LoadRows : \A m \in LoadRows : f[n] = f[m] => n = m
      BY <2>1
    <2>4. {f[n] : n \in LoadRows} = Loads(events)
      <3>1. \A i \in Loads(events) : <<"mace_load", i>> \in LoadRows /\ f[<<"mace_load", i>>] = i
        BY <1>2 DEF LoadRows
      <3>2. \A n \in LoadRows : f[n] \in Loads(events)
        BY <2>1
      <3> HIDE DEF f
      <3> QED BY <3>1, <3>2
    <2> HIDE DEF f, g
    <2>5. Part(Exposures, LoadRows) = Part(g, {f[n] : n \in LoadRows})
      BY <1>2, <2>2, <2>3, PartMoved
    <2> QED BY <2>4, <2>5 DEF Took, g
  <1> DEFINE other == LoadRows \cup UseRows
  <1>19. IntOn(Exposures, RowsOfGates \cup other)
    BY <1>5, <1>13, <1>15 DEF IntOn
  <1>20. Adds(Exposures, LoadRows, UseRows)
    <2>1. IntOn(Exposures, LoadRows \cup UseRows)
      BY <1>19 DEF IntOn
    <2> QED BY <1>2, <1>6, <2>1, PartUnion
  <1>21. Adds(Exposures, RowsOfGates, other)
    <2>1. IsFiniteSet(other)
      BY <1>2, FS_Union
    <2>2. RowsOfGates \cap other = {}
      BY <1>6
    <2> HIDE DEF other
    <2> QED BY <1>11, <1>19, <2>1, <2>2, PartUnion
  <1>22. Took(events) \in Int
    <2>1. {"mace"} \cap {"worker"} = {}
      OBVIOUS
    <2>2. Stood(needs, {"mace"}) \in Nat
      BY <1>1, <2>1, StoodBoth
    <2> QED BY <2>2 DEF LoadsTold
  <1>23. TaxonomySeconds = GateSeconds + Took(events)
    BY <1>5, <1>14, <1>16, <1>17, <1>18, <1>20, <1>21, <1>22 DEF Adds
  <1>24. BlockedFor({"worker", "aggregator", "mace"}) = GateSeconds + Took(events)
    <2>1. {"worker", "aggregator"} \cap {"mace"} = {}
      OBVIOUS
    <2>2. {"worker", "aggregator"} \cup {"mace"} = {"worker", "aggregator", "mace"}
      OBVIOUS
    <2>3. Stood(needs, {"worker", "aggregator"} \cup {"mace"}) =
             Stood(needs, {"worker", "aggregator"}) + Stood(needs, {"mace"})
      BY <1>1, <2>1, StoodBoth
    <2> QED BY <2>2, <2>3, StoodIs DEF LoadsTold, GateSeconds
  <1> QED BY <1>23, <1>24

LoadsInv == RunInv /\ LoadsTold /\ BaselineTold

\* Every second a tool stood for a calculator is in the trace, and a run that
\* never prefetches shows none of what prefetching leaves, in every state.
THEOREM LoadsInvariant ==
  TraceSpec => []LoadsInv
  <1>1. TraceInit => LoadsInv
    BY RunInvInit, BaselineInit DEF LoadsInv
  <1>2. LoadsInv /\ [TraceNext]_vars => LoadsInv'
    <2> SUFFICES ASSUME LoadsInv, [TraceNext]_vars
                 PROVE  LoadsInv'
      OBVIOUS
    <2>1. RunInv /\ LoadsTold /\ BaselineTold
      BY DEF LoadsInv
    <2>2. RunInv'
      BY <2>1, RunInvNext
    <2>3. LoadsTold' /\ BaselineTold'
      BY <2>1, BaselineNext DEF RunInv
    <2> QED BY <2>2, <2>3 DEF LoadsInv
  <1> QED BY <1>1, <1>2, PTL DEF TraceSpec

\* In a run that never prefetches, the stall classes add up to exactly the time
\* the workflow was blocked (extract_prefetch_lifecycle.py).
THEOREM BaselineAlwaysReconciles ==
  TraceSpec => []BaselineReconciles
  <1>1. SecondsInv /\ LoadsInv => BaselineReconciles
    BY ReconcileMeets DEF LoadsInv
  <1> QED BY <1>1, SecondsInvariant, LoadsInvariant, PTL

\* The seconds the reports attribute are seconds the workflow had: waits at the
\* gates, residuals, reasoning, and in a baseline all of the blocked time, each
\* once (parse_eval_traces.py, extract_prefetch_lifecycle.py).
THEOREM SecondsAlwaysTrue ==
  TraceSpec => []SecondsTrue
  <1>1. /\ TypeOK /\ GateStallCounted /\ GateOnce /\ ResidualTrue
        /\ BaselineReconciles /\ ReasoningExact
        => SecondsTrue
    BY DEF SecondsTrue
  <1> QED BY <1>1, TypesHold, GateStallsCounted, GatesCountOnce, ResidualAlwaysTrue,
             BaselineAlwaysReconciles, ReasoningAlwaysExact, PTL

-------------------------------------------------------------------------------
(* Predictions, and the verdicts on them.                                  *)

Preds(ev) == E!Where(ev, "prediction_result")
Made(ev) == {p \in Preds(ev) : ev[p].rid = "mace_model"}
Plain(ev) == {p \in Preds(ev) : ev[p].rid # "mace_model"}
Ckpts(ev) == E!Where(ev, "checkpoint_created")
Hits(ev) == E!Where(ev, "prediction_validated")
Diverged(ev) == E!Where(ev, "divergence_detected")
Verdicts(ev) == Hits(ev) \cup Diverged(ev)

\* The number of a call, from the first on.
CallNo(ev, c) == Cardinality({d \in Calls(ev) : d <= c})

\* A tool predicts once at most, and its checkpoint has the number of the call.
Foretold(ev, n) ==
    /\ \A p \in Made(ev) : ev[p].step \in 1 .. n
    /\ \A p \in Made(ev), q \in Made(ev) : ev[p].step = ev[q].step => p = q
    /\ \A i \in Ckpts(ev) : ev[i].ckpt = ev[i].step /\ \E p \in Made(ev) : ev[p].step = ev[i].step
    /\ \A p \in Made(ev) : \E i \in Ckpts(ev) : ev[i].step = ev[p].step

\* What was predicted before call n is judged once, by the call after it.
JudgedBelow(ev, n) ==
    /\ \A v \in Verdicts(ev) : ev[v].ckpt < n /\ \E p \in Made(ev) : ev[p].step = ev[v].ckpt
    /\ \A v \in Verdicts(ev), w \in Verdicts(ev) : ev[v].ckpt = ev[w].ckpt => v = w
    /\ \A p \in Made(ev) : ev[p].step < n => \E v \in Verdicts(ev) : ev[v].ckpt = ev[p].step
    /\ \A v \in Verdicts(ev) : \E c \in Calls(ev) :
          CallNo(ev, c) = ev[v].ckpt + 1 /\ (v \in Hits(ev) <=> ev[c].what = "run_ase")

Judging(ev, told, judged) == Foretold(ev, told) /\ JudgedBelow(ev, judged)

\* The planner's handlers predict their resource once.
PlannedOnce(ev, activity) ==
    /\ \A p \in Plain(ev) : ev[p].step = 0
    /\ \A p \in Plain(ev), q \in Plain(ev) : ev[p].rid = ev[q].rid => p = q
    /\ activity = "begin" => Plain(ev) = {}
    /\ activity = "planner" => \A p \in Plain(ev) : ev[p].rid = "model_cache"

\* ev2 has of a set what ev has.
SameAt(ev, ev2, S, S2) == S2 = S /\ \A i \in S : ev2[i] = ev[i]

GuardTypes ==
    {"prediction_result", "checkpoint_created", "prediction_validated", "divergence_detected",
     "tool_call"}

LEMMA GuardSameIs ==
  ASSUME NEW ev, NEW ev2, NEW types, Same(ev, ev2, types)
  PROVE  /\ "prediction_result" \in types =>
               SameAt(ev, ev2, Preds(ev), Preds(ev2)) /\ SameAt(ev, ev2, Made(ev), Made(ev2))
               /\ SameAt(ev, ev2, Plain(ev), Plain(ev2))
         /\ "checkpoint_created" \in types => SameAt(ev, ev2, Ckpts(ev), Ckpts(ev2))
         /\ "prediction_validated" \in types => SameAt(ev, ev2, Hits(ev), Hits(ev2))
         /\ "divergence_detected" \in types => SameAt(ev, ev2, Diverged(ev), Diverged(ev2))
         /\ "tool_call" \in types => SameAt(ev, ev2, Calls(ev), Calls(ev2))
  <1>1. "prediction_result" \in types =>
               SameAt(ev, ev2, Preds(ev), Preds(ev2)) /\ SameAt(ev, ev2, Made(ev), Made(ev2))
               /\ SameAt(ev, ev2, Plain(ev), Plain(ev2))
    <2> SUFFICES ASSUME "prediction_result" \in types
                 PROVE  /\ SameAt(ev, ev2, Preds(ev), Preds(ev2))
                        /\ SameAt(ev, ev2, Made(ev), Made(ev2))
                        /\ SameAt(ev, ev2, Plain(ev), Plain(ev2))
      OBVIOUS
    <2>1. Preds(ev2) = Preds(ev) /\ \A i \in Preds(ev) : ev2[i] = ev[i]
      BY DEF Same, Preds
    <2>2. Made(ev2) = Made(ev) /\ Plain(ev2) = Plain(ev)
      BY <2>1 DEF Made, Plain
    <2> QED BY <2>1, <2>2 DEF SameAt, Made, Plain
  <1> QED BY <1>1 DEF Same, SameAt, Ckpts, Hits, Diverged, Calls

\* Nothing but plain predictions is new.
LEMMA JudgingSame ==
  ASSUME NEW ev, NEW ev2, NEW n, NEW m, Judging(ev, n, m),
         SameAt(ev, ev2, Made(ev), Made(ev2)), SameAt(ev, ev2, Ckpts(ev), Ckpts(ev2)),
         SameAt(ev, ev2, Hits(ev), Hits(ev2)), SameAt(ev, ev2, Diverged(ev), Diverged(ev2)),
         SameAt(ev, ev2, Calls(ev), Calls(ev2))
  PROVE  Judging(ev2, n, m)
  <1>1. Foretold(ev2, n)
    BY DEF Judging, Foretold, SameAt
  <1>2. Verdicts(ev2) = Verdicts(ev) /\ \A v \in Verdicts(ev) : ev2[v] = ev[v]
    BY DEF SameAt, Verdicts
  <1>3. \A c : CallNo(ev2, c) = CallNo(ev, c)
    BY DEF CallNo, SameAt
  <1>4. JudgedBelow(ev2, m)
    BY <1>2, <1>3 DEF Judging, JudgedBelow, SameAt
  <1> QED BY <1>1, <1>4 DEF Judging

LEMMA JudgingKept ==
  ASSUME NEW ev, NEW ev2, NEW n, NEW m, Judging(ev, n, m), Same(ev, ev2, GuardTypes)
  PROVE  Judging(ev2, n, m)
  <1>1. /\ "prediction_result" \in GuardTypes /\ "checkpoint_created" \in GuardTypes
        /\ "prediction_validated" \in GuardTypes /\ "divergence_detected" \in GuardTypes
        /\ "tool_call" \in GuardTypes
    BY DEF GuardTypes
  <1> QED BY <1>1, GuardSameIs, JudgingSame

\* ev2 has one call more than ev, at m.
CallAdded(ev, ev2, m) ==
    /\ Calls(ev2) = Calls(ev) \cup {m} /\ m \notin Calls(ev) /\ m \in Nat
    /\ \A c \in Calls(ev) : c < m /\ c \in Nat /\ ev2[c] = ev[c]

\* A call is counted.
LEMMA CallJudging ==
  ASSUME NEW ev \in Seq(Event), NEW ev2, NEW n \in Nat, Judging(ev, n, n),
         Cardinality(Calls(ev)) = n, Same(ev, ev2, GuardTypes \ {"tool_call"}),
         NEW m, CallAdded(ev, ev2, m)
  PROVE  Judging(ev2, n, n) /\ Cardinality(Calls(ev2)) = n + 1 /\ CallNo(ev2, m) = n + 1
  <1> USE DEF CallAdded
  <1>1. /\ SameAt(ev, ev2, Made(ev), Made(ev2)) /\ SameAt(ev, ev2, Ckpts(ev), Ckpts(ev2))
        /\ SameAt(ev, ev2, Hits(ev), Hits(ev2)) /\ SameAt(ev, ev2, Diverged(ev), Diverged(ev2))
    <2>1. /\ "prediction_result" \in GuardTypes \ {"tool_call"}
          /\ "checkpoint_created" \in GuardTypes \ {"tool_call"}
          /\ "prediction_validated" \in GuardTypes \ {"tool_call"}
          /\ "divergence_detected" \in GuardTypes \ {"tool_call"}
      BY DEF GuardTypes
    <2> QED BY <2>1, GuardSameIs
  <1>2. Foretold(ev2, n)
    BY <1>1 DEF Judging, Foretold, SameAt
  <1>3. Verdicts(ev2) = Verdicts(ev) /\ \A v \in Verdicts(ev) : ev2[v] = ev[v]
    BY <1>1 DEF SameAt, Verdicts
  <1>4. \A c \in Calls(ev) : CallNo(ev2, c) = CallNo(ev, c)
    <2> TAKE c \in Calls(ev)
    <2>1. {d \in Calls(ev2) : d <= c} = {d \in Calls(ev) : d <= c}
      OBVIOUS
    <2> QED BY <2>1 DEF CallNo
  <1>5. JudgedBelow(ev2, n)
    <2>1. \A v \in Verdicts(ev2) : \E c \in Calls(ev2) :
             CallNo(ev2, c) = ev2[v].ckpt + 1 /\ (v \in Hits(ev2) <=> ev2[c].what = "run_ase")
      <3> TAKE v \in Verdicts(ev2)
      <3>1. PICK c \in Calls(ev) : /\ CallNo(ev, c) = ev[v].ckpt + 1
                                   /\ v \in Hits(ev) <=> ev[c].what = "run_ase"
        BY <1>3 DEF Judging, JudgedBelow
      <3> QED BY <1>1, <1>3, <1>4, <3>1 DEF SameAt
    <2> QED BY <1>1, <1>3, <2>1 DEF Judging, JudgedBelow, SameAt
  <1>6. IsFiniteSet(Calls(ev))
    <2>1. Calls(ev) \in SUBSET (1 .. Len(ev)) /\ Len(ev) \in Nat
      BY Positions, LenProperties DEF Calls
    <2> QED BY <2>1, PositionsFinite
  <1>7. Cardinality(Calls(ev2)) = n + 1
    BY <1>6, FS_AddElement
  <1>8. {d \in Calls(ev2) : d <= m} = Calls(ev2)
    OBVIOUS
  <1> QED BY <1>2, <1>5, <1>7, <1>8 DEF Judging, CallNo

\* Call n + 1 is told, and it agrees with the verdict e.
CallAgrees(ev, n, e) ==
    \E c \in Calls(ev) : /\ CallNo(ev, c) = n + 1
                         /\ e.type = "prediction_validated" <=> ev[c].what = "run_ase"

\* The prediction of the call before is judged.
LEMMA VerdictJudging ==
  ASSUME NEW ev \in Seq(Event), NEW n \in Nat, Judging(ev, n, n), NEW e \in Event,
         e.type \in {"prediction_validated", "divergence_detected"}, e.ckpt = n,
         \E p \in Made(ev) : ev[p].step = n, CallAgrees(ev, n, e)
  PROVE  Judging(ev \o <<e>>, n, n + 1) /\ SameAt(ev, ev \o <<e>>, Calls(ev), Calls(ev \o <<e>>))
  <1> DEFINE ev2 == ev \o <<e>>
             m == Len(ev) + 1
  <1>1. Added(ev, ev2, e)
    BY OneAdded
  <1> HIDE DEF ev2
  <1>2. /\ ev2[m] = e /\ m \in Nat
        /\ \A type \in EventType : \A i \in E!Where(ev, type) : i # m /\ ev2[i] = ev[i]
    <2>1. Len(ev) \in Nat /\ \A type : E!Where(ev, type) \in SUBSET (1 .. Len(ev))
      BY Positions, LenProperties
    <2> QED BY <1>1, <2>1 DEF Added
  <1>3. \A type \in GuardTypes : type \in EventType
    BY DEF GuardTypes, EventType
  <1> HIDE DEF m
  <1>4. /\ Hits(ev2) = IF e.type = "prediction_validated" THEN Hits(ev) \cup {m} ELSE Hits(ev)
        /\ Diverged(ev2) = IF e.type = "divergence_detected" THEN Diverged(ev) \cup {m}
                           ELSE Diverged(ev)
        /\ Preds(ev2) = Preds(ev) /\ Ckpts(ev2) = Ckpts(ev) /\ Calls(ev2) = Calls(ev)
    BY <1>1, <1>3 DEF Added, Hits, Diverged, Preds, Ckpts, Calls, GuardTypes, m
  <1>5. /\ \A i \in Preds(ev) \cup Ckpts(ev) \cup Calls(ev) : ev2[i] = ev[i]
        /\ \A i \in Verdicts(ev) : ev2[i] = ev[i] /\ i # m
    BY <1>2, <1>3 DEF Preds, Ckpts, Calls, Verdicts, Hits, Diverged, GuardTypes
  <1>6. Made(ev2) = Made(ev) /\ \A p \in Made(ev) : ev2[p] = ev[p]
    BY <1>4, <1>5 DEF Made
  <1>7. Foretold(ev2, n)
    BY <1>4, <1>5, <1>6 DEF Judging, Foretold
  <1>8. Verdicts(ev2) = Verdicts(ev) \cup {m} /\ ev2[m].ckpt = n
    BY <1>2, <1>4 DEF Verdicts
  <1>9. \A c : CallNo(ev2, c) = CallNo(ev, c)
    BY <1>4 DEF CallNo
  <1>10. \A p \in Made(ev) : ev[p].step \in 1 .. n
    BY DEF Judging, Foretold
  <1>11. \A v \in Verdicts(ev) : ev[v].ckpt \in Nat /\ ev[v].ckpt < n
    BY <1>10 DEF Judging, JudgedBelow
  <1>12. JudgedBelow(ev2, n + 1)
    <2>1. \A v \in Verdicts(ev2) : /\ ev2[v].ckpt < n + 1
                                   /\ \E p \in Made(ev2) : ev2[p].step = ev2[v].ckpt
      <3> TAKE v \in Verdicts(ev2)
      <3>1. CASE v = m
        BY <1>2, <1>6, <1>8, <3>1
      <3>2. CASE v # m
        <4>1. v \in Verdicts(ev) /\ ev2[v] = ev[v]
          BY <1>5, <1>8, <3>2
        <4>2. \E p \in Made(ev) : ev[p].step = ev[v].ckpt
          BY <4>1 DEF Judging, JudgedBelow
        <4> QED BY <1>6, <1>11, <4>1, <4>2
      <3> QED BY <3>1, <3>2
    <2>2. \A v \in Verdicts(ev2), w \in Verdicts(ev2) : ev2[v].ckpt = ev2[w].ckpt => v = w
      <3>1. \A v \in Verdicts(ev), w \in Verdicts(ev) : ev[v].ckpt = ev[w].ckpt => v = w
        BY DEF Judging, JudgedBelow
      <3>2. \A v \in Verdicts(ev) : ev2[v].ckpt # ev2[m].ckpt
        BY <1>5, <1>8, <1>11
      <3> QED BY <1>5, <1>8, <3>1, <3>2
    <2>3. \A p \in Made(ev2) : ev2[p].step < n + 1 =>
             \E v \in Verdicts(ev2) : ev2[v].ckpt = ev2[p].step
      <3> TAKE p \in Made(ev2)
      <3> HAVE ev2[p].step < n + 1
      <3>1. p \in Made(ev) /\ ev2[p] = ev[p] /\ ev[p].step \in 1 .. n
        BY <1>6, <1>10
      <3>2. CASE ev[p].step = n
        BY <1>8, <3>1, <3>2
      <3>3. CASE ev[p].step # n
        <4>1. ev[p].step < n
          BY <3>1, <3>3
        <4>2. \E v \in Verdicts(ev) : ev[v].ckpt = ev[p].step
          BY <3>1, <4>1 DEF Judging, JudgedBelow
        <4> QED BY <1>5, <1>8, <3>1, <4>2
      <3> QED BY <3>2, <3>3
    <2>4. \A v \in Verdicts(ev2) : \E c \in Calls(ev2) :
             CallNo(ev2, c) = ev2[v].ckpt + 1 /\ (v \in Hits(ev2) <=> ev2[c].what = "run_ase")
      <3> TAKE v \in Verdicts(ev2)
      <3>1. CASE v = m
        <4>1. PICK c \in Calls(ev) : /\ CallNo(ev, c) = n + 1
                                     /\ e.type = "prediction_validated" <=> ev[c].what = "run_ase"
          BY DEF CallAgrees
        <4>2. m \in Hits(ev2) <=> e.type = "prediction_validated"
          BY <1>4, <1>5 DEF Verdicts
        <4> QED BY <1>4, <1>5, <1>8, <1>9, <3>1, <4>1, <4>2
      <3>2. CASE v # m
        <4>1. v \in Verdicts(ev) /\ ev2[v] = ev[v] /\ (v \in Hits(ev2) <=> v \in Hits(ev))
          BY <1>4, <1>5, <1>8, <3>2
        <4>2. PICK c \in Calls(ev) : /\ CallNo(ev, c) = ev[v].ckpt + 1
                                     /\ v \in Hits(ev) <=> ev[c].what = "run_ase"
          BY <4>1 DEF Judging, JudgedBelow
        <4> QED BY <1>4, <1>5, <1>9, <4>1, <4>2
      <3> QED BY <3>1, <3>2
    <2> QED BY <2>1, <2>2, <2>3, <2>4 DEF JudgedBelow
  <1>13. SameAt(ev, ev2, Calls(ev), Calls(ev2))
    BY <1>4, <1>5 DEF SameAt
  <1> QED BY <1>7, <1>12, <1>13 DEF Judging, ev2

\* No prediction was there to judge, or none is made.
LEMMA JudgingLater ==
  ASSUME NEW ev, NEW n \in Nat, Judging(ev, n, n), \A p \in Made(ev) : ev[p].step # n
  PROVE  Judging(ev, n, n + 1)
  <1>1. \A p \in Made(ev) : ev[p].step \in 1 .. n /\ ev[p].step < n
    <2>1. \A p \in Made(ev) : ev[p].step \in 1 .. n
      BY DEF Judging, Foretold
    <2> QED BY <2>1
  <1>2. \A v \in Verdicts(ev) : ev[v].ckpt < n + 1
    <2>1. \A v \in Verdicts(ev) : ev[v].ckpt \in Nat /\ ev[v].ckpt < n
      BY <1>1 DEF Judging, JudgedBelow
    <2> QED BY <2>1
  <1>3. JudgedBelow(ev, n + 1)
    BY <1>1, <1>2 DEF Judging, JudgedBelow
  <1> QED BY <1>3 DEF Judging

LEMMA JudgingWider ==
  ASSUME NEW ev, NEW n \in Nat, NEW m, Judging(ev, n, m)
  PROVE  Judging(ev, n + 1, m)
  <1>1. \A p \in Made(ev) : ev[p].step \in 1 .. (n + 1)
    <2>1. \A p \in Made(ev) : ev[p].step \in 1 .. n
      BY DEF Judging, Foretold
    <2> QED BY <2>1
  <1> QED BY <1>1 DEF Judging, Foretold

\* A tool predicts.
LEMMA PredictionJudging ==
  ASSUME NEW ev \in Seq(Event), NEW n \in Nat, Judging(ev, n, n + 1), NEW d \in Event,
         NEW e \in Event, d.type = "prediction_result", d.rid = "mace_model", d.step = n + 1,
         e.type = "checkpoint_created", e.step = n + 1, e.ckpt = n + 1
  PROVE  /\ Judging(ev \o <<d, e>>, n + 1, n + 1)
         /\ SameAt(ev, ev \o <<d, e>>, Calls(ev), Calls(ev \o <<d, e>>))
         /\ SameAt(ev, ev \o <<d, e>>, Plain(ev), Plain(ev \o <<d, e>>))
         /\ \E p \in Made(ev \o <<d, e>>) : (ev \o <<d, e>>)[p].step = n + 1
  <1> DEFINE ev1 == ev \o <<d>>
             ev2 == ev1 \o <<e>>
             m == Len(ev) + 1
             k == Len(ev1) + 1
  <1>1. Added(ev, ev1, d)
    BY OneAdded
  <1>2. ev1 \in Seq(Event)
    BY <1>1 DEF Added
  <1>3. Added(ev1, ev2, e) /\ ev \o <<d, e>> = ev2
    BY <1>2, OneAdded, PairAdded
  <1>20. /\ Len(ev) \in Nat /\ \A type : E!Where(ev, type) \in SUBSET (1 .. Len(ev))
         /\ Len(ev1) \in Nat /\ \A type : E!Where(ev1, type) \in SUBSET (1 .. Len(ev1))
    BY <1>2, Positions, LenProperties
  <1> HIDE DEF ev1, ev2
  <1>4. /\ ev1[m] = d /\ m \in Nat
        /\ \A type \in EventType : \A i \in E!Where(ev, type) : i # m /\ ev1[i] = ev[i]
    BY <1>1, <1>20 DEF Added
  <1>5. /\ ev2[k] = e /\ k \in Nat
        /\ \A type \in EventType : \A i \in E!Where(ev1, type) : i # k /\ ev2[i] = ev1[i]
    BY <1>3, <1>20 DEF Added
  <1>6. \A type \in GuardTypes : type \in EventType
    BY DEF GuardTypes, EventType
  <1> HIDE DEF m, k
  <1>7. /\ Preds(ev1) = Preds(ev) \cup {m} /\ Ckpts(ev1) = Ckpts(ev) /\ Calls(ev1) = Calls(ev)
        /\ Hits(ev1) = Hits(ev) /\ Diverged(ev1) = Diverged(ev)
    BY <1>1, <1>6 DEF Added, Hits, Diverged, Preds, Ckpts, Calls, GuardTypes, m
  <1>8. /\ Preds(ev2) = Preds(ev1) /\ Ckpts(ev2) = Ckpts(ev1) \cup {k} /\ Calls(ev2) = Calls(ev1)
        /\ Hits(ev2) = Hits(ev1) /\ Diverged(ev2) = Diverged(ev1)
    BY <1>3, <1>6 DEF Added, Hits, Diverged, Preds, Ckpts, Calls, GuardTypes, k
  <1>9. /\ \A i \in Preds(ev) : ev2[i] = ev[i] /\ i # m
        /\ \A i \in Ckpts(ev) : ev2[i] = ev[i]
        /\ \A i \in Calls(ev) : ev2[i] = ev[i]
        /\ \A i \in Verdicts(ev) : ev2[i] = ev[i]
        /\ ev2[m] = d /\ ev2[k] = e
    <2>1. /\ \A i \in Preds(ev) \cup Ckpts(ev) \cup Calls(ev) \cup Verdicts(ev) : ev1[i] = ev[i]
          /\ \A i \in Preds(ev) : i # m
      BY <1>4, <1>6 DEF Preds, Ckpts, Calls, Verdicts, Hits, Diverged, GuardTypes
    <2>2. \A i \in Preds(ev1) \cup Ckpts(ev1) \cup Calls(ev1) \cup Verdicts(ev1) : ev2[i] = ev1[i]
      BY <1>5, <1>6 DEF Preds, Ckpts, Calls, Verdicts, Hits, Diverged, GuardTypes
    <2>3. Verdicts(ev1) = Verdicts(ev) /\ m \in Preds(ev1)
      BY <1>7 DEF Verdicts
    <2> QED BY <1>4, <1>5, <1>7, <2>1, <2>2, <2>3
  <1>10. /\ Made(ev2) = Made(ev) \cup {m} /\ Plain(ev2) = Plain(ev)
         /\ \A p \in Made(ev) : ev2[p] = ev[p] /\ p # m
    BY <1>7, <1>8, <1>9 DEF Made, Plain
  <1>11. Verdicts(ev2) = Verdicts(ev)
    BY <1>7, <1>8 DEF Verdicts
  <1>12. \A p \in Made(ev) : ev[p].step \in 1 .. n
    BY DEF Judging, Foretold
  <1>13. Foretold(ev2, n + 1)
    <2>1. \A p \in Made(ev2) : ev2[p].step \in 1 .. (n + 1)
      BY <1>9, <1>10, <1>12
    <2>2. \A p \in Made(ev2), q \in Made(ev2) : ev2[p].step = ev2[q].step => p = q
      <3>1. \A p \in Made(ev), q \in Made(ev) : ev[p].step = ev[q].step => p = q
        BY DEF Judging, Foretold
      <3>2. \A p \in Made(ev) : ev2[p].step # ev2[m].step
        BY <1>9, <1>10, <1>12
      <3> QED BY <1>10, <3>1, <3>2
    <2>3. \A i \in Ckpts(ev2) : /\ ev2[i].ckpt = ev2[i].step
                                /\ \E p \in Made(ev2) : ev2[p].step = ev2[i].step
      <3>1. \A i \in Ckpts(ev) : /\ ev[i].ckpt = ev[i].step
                                 /\ \E p \in Made(ev) : ev[p].step = ev[i].step
        BY DEF Judging, Foretold
      <3> QED BY <1>7, <1>8, <1>9, <1>10, <3>1
    <2>4. \A p \in Made(ev2) : \E i \in Ckpts(ev2) : ev2[i].step = ev2[p].step
      <3>1. \A p \in Made(ev) : \E i \in Ckpts(ev) : ev[i].step = ev[p].step
        BY DEF Judging, Foretold
      <3> QED BY <1>7, <1>8, <1>9, <1>10, <3>1
    <2> QED BY <2>1, <2>2, <2>3, <2>4 DEF Foretold
  <1>14. \A c : CallNo(ev2, c) = CallNo(ev, c)
    BY <1>7, <1>8 DEF CallNo
  <1>15. JudgedBelow(ev2, n + 1)
    <2>1. \A v \in Verdicts(ev2) : /\ ev2[v].ckpt < n + 1
                                   /\ \E p \in Made(ev2) : ev2[p].step = ev2[v].ckpt
      <3>1. \A v \in Verdicts(ev) : ev[v].ckpt < n + 1 /\ \E p \in Made(ev) : ev[p].step = ev[v].ckpt
        BY DEF Judging, JudgedBelow
      <3> QED BY <1>9, <1>10, <1>11, <3>1
    <2>2. \A v \in Verdicts(ev2), w \in Verdicts(ev2) : ev2[v].ckpt = ev2[w].ckpt => v = w
      BY <1>9, <1>11 DEF Judging, JudgedBelow
    <2>3. \A p \in Made(ev2) : ev2[p].step < n + 1 =>
             \E v \in Verdicts(ev2) : ev2[v].ckpt = ev2[p].step
      <3> TAKE p \in Made(ev2)
      <3> HAVE ev2[p].step < n + 1
      <3>1. p # m
        BY <1>9
      <3>2. p \in Made(ev) /\ ev2[p] = ev[p]
        BY <1>10, <3>1
      <3>3. \E v \in Verdicts(ev) : ev[v].ckpt = ev[p].step
        BY <3>2 DEF Judging, JudgedBelow
      <3> QED BY <1>9, <1>11, <3>2, <3>3
    <2>4. \A v \in Verdicts(ev2) : \E c \in Calls(ev2) :
             CallNo(ev2, c) = ev2[v].ckpt + 1 /\ (v \in Hits(ev2) <=> ev2[c].what = "run_ase")
      <3> TAKE v \in Verdicts(ev2)
      <3>1. PICK c \in Calls(ev) : /\ CallNo(ev, c) = ev[v].ckpt + 1
                                   /\ v \in Hits(ev) <=> ev[c].what = "run_ase"
        BY <1>11 DEF Judging, JudgedBelow
      <3> QED BY <1>7, <1>8, <1>9, <1>11, <1>14, <3>1
    <2> QED BY <2>1, <2>2, <2>3, <2>4 DEF JudgedBelow
  <1>16. SameAt(ev, ev2, Calls(ev), Calls(ev2)) /\ SameAt(ev, ev2, Plain(ev), Plain(ev2))
    BY <1>7, <1>8, <1>9, <1>10 DEF SameAt, Plain
  <1>17. m \in Made(ev2) /\ ev2[m].step = n + 1
    BY <1>9, <1>10
  <1> QED BY <1>3, <1>13, <1>15, <1>16, <1>17 DEF Judging

-------------------------------------------------------------------------------
(* Every call judges the prediction of the one before.                     *)

LEMMA SameOn ==
  ASSUME NEW ev, NEW ev1, NEW ev2, NEW types, Same(ev, ev1, types), Same(ev1, ev2, types)
  PROVE  Same(ev, ev2, types)
  <1> QED BY DEF Same

LEMMA SameLess ==
  ASSUME NEW ev, NEW ev2, NEW types, Same(ev, ev2, types), NEW some, some \subseteq types
  PROVE  Same(ev, ev2, some)
  <1> QED BY DEF Same

\* The verdict of a call, and what its consumption or its cancellation tells.
LEMMA VerdictStage ==
  ASSUME Typed, NEW tool \in Tool, Judged(tool, Judge(tool)), NEW ev \in Seq(Event),
         Judging(ev, step, step), pending \in {0, step},
         pending # 0 <=> \E p \in Made(ev) : ev[p].step = step,
         \E c \in Calls(ev) : CallNo(ev, c) = step + 1 /\ ev[c].what = tool
  PROVE  /\ Judging(ev \o Judge(tool).events, step, step + 1)
         /\ Same(ev, ev \o Judge(tool).events, {"prediction_result", "checkpoint_created", "tool_call"})
         /\ ev \o Judge(tool).events \in Seq(Event)
  <1> DEFINE j == Judge(tool)
             others == {"prediction_result", "checkpoint_created", "tool_call"}
             types == {"prediction_validated", "resource_consumed", "divergence_detected",
                       "prefetch_cancelled", "conservative_mode"}
  <1>1. step \in Nat /\ clock \in Nat
    <2>1. MaxTools \in Nat
      BY TraceConstants
    <2> QED BY <2>1 DEF Typed
  <1>2. Fresh(j.events, types)
    BY DEF Judged
  <1>3. types \cap others = {}
    OBVIOUS
  <1>4. Same(ev, ev \o j.events, others) /\ ev \o j.events \in Seq(Event)
    <2> HIDE DEF types, others, j
    <2> QED BY <1>2, <1>3, FreshSame
  <1>5. Judging(ev \o j.events, step, step + 1)
    <2>1. CASE pending = 0
      <3>1. j.events = <<>>
        BY <2>1 DEF Judged
      <3>2. ev \o j.events = ev
        BY <3>1, ConcatEmptySeq
      <3>3. \A p \in Made(ev) : ev[p].step # step
        BY <2>1
      <3> QED BY <1>1, <3>2, <3>3, JudgingLater
    <2>2. CASE pending # 0 /\ tool = "run_ase"
      <3> DEFINE e == PredictionValidated(pending)
      <3>1. PICK c : Consumed(tasks, "mace_model", <<j.tasks, c>>) /\ j.events = <<e>> \o c
        BY <2>2 DEF Judged
      <3>2. pending = step
        BY <2>2
      <3>3. e \in Event
        BY <1>1, <3>2, GuardEventsWritten
      <3>4. e.type = "prediction_validated" /\ e.ckpt = step
        BY <3>2 DEF PredictionValidated
      <3> HIDE DEF e
      <3>5. Judging(ev \o <<e>>, step, step + 1)
        <4>1. \E p \in Made(ev) : ev[p].step = step
          BY <2>2
        <4>2. CallAgrees(ev, step, e)
          BY <2>2, <3>4 DEF CallAgrees
        <4>3. e.type \in {"prediction_validated", "divergence_detected"} /\ e.ckpt = step
          BY <3>4
        <4>4. step \in Nat
          BY <1>1
        <4> HIDE DEF j, others, types
        <4> QED BY <3>3, <4>1, <4>2, <4>3, <4>4, VerdictJudging
      <3>6. Fresh(c, {"resource_consumed"})
        <4>1. c \in Seq(Event) /\ Now(c) /\ Quiet(c, EventType \ {"resource_consumed"})
          BY <3>1 DEF Consumed
        <4> QED BY <4>1, FreshCall
      <3>7. ev \o <<e>> \in Seq(Event)
        BY <3>3, OneAdded DEF Added
      <3>8. Same(ev \o <<e>>, (ev \o <<e>>) \o c, GuardTypes)
        <4>1. {"resource_consumed"} \cap GuardTypes = {}
          BY DEF GuardTypes
        <4> QED BY <3>6, <3>7, <4>1, FreshSame
      <3>9. Judging((ev \o <<e>>) \o c, step, step + 1)
        BY <3>5, <3>8, JudgingKept
      <3>10. ev \o (<<e>> \o c) = (ev \o <<e>>) \o c
        <4>1. c \in Seq(Event) /\ <<e>> \in Seq(Event)
          BY <3>3, <3>6 DEF Fresh
        <4> QED BY <4>1, RegroupedTwo
      <3> QED BY <3>1, <3>9, <3>10
    <2>3. CASE pending # 0 /\ tool # "run_ase"
      <3> DEFINE e == DivergenceDetected(pending)
                 d == <<ConservativeMode>>
      <3>1. PICK c : Cancelled(tasks, pending, <<j.tasks, c>>) /\ j.events = (<<e>> \o c) \o d
        BY <2>3 DEF Judged
      <3>2. pending = step
        BY <2>3
      <3>3. e \in Event
        BY <1>1, <3>2, GuardEventsWritten
      <3>4. e.type = "divergence_detected" /\ e.ckpt = step
        BY <3>2 DEF DivergenceDetected
      <3>11. Fresh(d, {"conservative_mode"})
        <4>1. ConservativeMode \in Event
          BY <1>1, GuardEventsWritten
        <4>2. ConservativeMode.type = "conservative_mode" /\ ConservativeMode.at = clock
          BY DEF ConservativeMode
        <4> QED BY <4>1, <4>2, FreshOne
      <3> HIDE DEF e, d
      <3>5. Judging(ev \o <<e>>, step, step + 1)
        <4>1. \E p \in Made(ev) : ev[p].step = step
          BY <2>3
        <4>2. CallAgrees(ev, step, e)
          BY <2>3, <3>4 DEF CallAgrees
        <4>3. e.type \in {"prediction_validated", "divergence_detected"} /\ e.ckpt = step
          BY <3>4
        <4>4. step \in Nat
          BY <1>1
        <4> HIDE DEF j, others, types
        <4> QED BY <3>3, <4>1, <4>2, <4>3, <4>4, VerdictJudging
      <3>6. Fresh(c, {"prefetch_cancelled"})
        <4>1. c \in Seq(Event) /\ Now(c) /\ Quiet(c, EventType \ {"prefetch_cancelled"})
          BY <3>1 DEF Cancelled
        <4> QED BY <4>1, FreshCall
      <3>7. ev \o <<e>> \in Seq(Event)
        BY <3>3, OneAdded DEF Added
      <3>8. Same(ev \o <<e>>, (ev \o <<e>>) \o c, GuardTypes) /\ (ev \o <<e>>) \o c \in Seq(Event)
        <4>1. {"prefetch_cancelled"} \cap GuardTypes = {}
          BY DEF GuardTypes
        <4> QED BY <3>6, <3>7, <4>1, FreshSame
      <3>12. Same((ev \o <<e>>) \o c, ((ev \o <<e>>) \o c) \o d, GuardTypes)
        <4>1. {"conservative_mode"} \cap GuardTypes = {}
          BY DEF GuardTypes
        <4> QED BY <3>8, <3>11, <4>1, FreshSame
      <3>9. Judging(((ev \o <<e>>) \o c) \o d, step, step + 1)
        <4>1. Judging((ev \o <<e>>) \o c, step, step + 1)
          BY <3>5, <3>8, JudgingKept
        <4> QED BY <3>12, <4>1, JudgingKept
      <3>10. ev \o ((<<e>> \o c) \o d) = ((ev \o <<e>>) \o c) \o d
        <4>1. c \in Seq(Event) /\ <<e>> \in Seq(Event) /\ d \in Seq(Event)
          BY <3>3, <3>6, <3>11 DEF Fresh
        <4> DEFINE a == <<e>>
        <4> HIDE DEF a
        <4>2. Groups(ev, a, c, d)
          BY <4>1, RegroupedThree DEF a
        <4> QED BY <4>2 DEF Groups, a
      <3> QED BY <3>1, <3>9, <3>10
    <2> QED BY <2>1, <2>2, <2>3
  <1> QED BY <1>4, <1>5

\* The prediction of a call, if it makes one.
LEMMA PredictionStage ==
  ASSUME Typed, NEW tool \in Tool, NEW predicts \in BOOLEAN, NEW ev \in Seq(Event),
         Judging(ev, step, step + 1)
  PROVE  LET ev2 == ev \o MadeEvents(tool, predicts)
         IN  /\ Judging(ev2, step + 1, step + 1)
             /\ SameAt(ev, ev2, Calls(ev), Calls(ev2)) /\ SameAt(ev, ev2, Plain(ev), Plain(ev2))
             /\ Makes(tool, predicts) <=> \E p \in Made(ev2) : ev2[p].step = step + 1
  <1> DEFINE ev2 == ev \o MadeEvents(tool, predicts)
  <1> SUFFICES /\ Judging(ev2, step + 1, step + 1)
               /\ SameAt(ev, ev2, Calls(ev), Calls(ev2)) /\ SameAt(ev, ev2, Plain(ev), Plain(ev2))
               /\ Makes(tool, predicts) <=> \E p \in Made(ev2) : ev2[p].step = step + 1
    OBVIOUS
  <1>1. step \in Nat /\ clock \in Nat
    <2>1. MaxTools \in Nat
      BY TraceConstants
    <2> QED BY <2>1 DEF Typed
  <1>2. CASE Makes(tool, predicts)
    <2> DEFINE d == PredictionResult(step + 1, "mace_model")
               e == CheckpointCreated(step + 1)
    <2>1. d \in Event /\ e \in Event
      BY <1>1, GuardEventsWritten DEF Resource
    <2>2. /\ d.type = "prediction_result" /\ d.rid = "mace_model" /\ d.step = step + 1
          /\ e.type = "checkpoint_created" /\ e.step = step + 1 /\ e.ckpt = step + 1
      BY DEF PredictionResult, CheckpointCreated
    <2>3. ev2 = ev \o <<d, e>>
      BY <1>2 DEF MadeEvents
    <2> HIDE DEF ev2, d, e
    <2> QED BY <1>1, <1>2, <2>1, <2>2, <2>3, PredictionJudging
  <1>3. CASE ~Makes(tool, predicts)
    <2>1. ev2 = ev
      BY <1>3, ConcatEmptySeq DEF MadeEvents
    <2>2. Judging(ev, step + 1, step + 1)
      BY <1>1, JudgingWider
    <2>3. \A p \in Made(ev) : ev[p].step # step + 1
      <3>1. \A p \in Made(ev) : ev[p].step \in 1 .. step
        BY DEF Judging, Foretold
      <3> QED BY <1>1, <3>1
    <2> HIDE DEF ev2
    <2> QED BY <1>3, <2>1, <2>2, <2>3 DEF SameAt
  <1> QED BY <1>2, <1>3

VerdictsTold ==
    /\ Judging(events, step, step) /\ Cardinality(Calls(events)) = step
    /\ pending \in {0, step}
    /\ pending # 0 <=> \E p \in Made(events) : events[p].step = step
    /\ PlannedOnce(events, pc)

LEMMA VerdictsCall ==
  ASSUME Typed, Stamped, Kept(events, tasks), VerdictsTold, NEW tool \in Tool,
         NEW predicts \in BOOLEAN, NEW admitted \in BOOLEAN, ToolStarts(tool, predicts, admitted)
  PROVE  VerdictsTold'
  <1>1. ToolTells(tool, predicts, admitted) /\ events \in Seq(Event)
    BY ToolStartsTells DEF Stamped
  <1>2. step \in Nat
    <2>1. MaxTools \in Nat
      BY TraceConstants
    <2> QED BY <2>1 DEF Typed
  <1> DEFINE ev1 == AtCall(tool)
             ev2 == AtVerdict(tool)
             ev3 == AtPrediction(tool, predicts)
  <1>3. ev1 \in Seq(Event) /\ Same(events, ev1, GuardTypes \ {"tool_call"})
    <2> DEFINE others == GuardTypes \ {"tool_call"}
    <2>1. /\ Fresh(Called(tool), {"chain_end", "tool_call"})
          /\ Fresh(BootEvents(tool), {"aggregator_prefetch_start"})
      BY <1>1 DEF ToolTells
    <2>2. {"chain_end", "tool_call"} \cap others = {} /\ {"aggregator_prefetch_start"} \cap others = {}
      BY DEF GuardTypes
    <2> HIDE DEF others
    <2>3. events \o Called(tool) \in Seq(Event) /\ Same(events, events \o Called(tool), others)
      BY <1>1, <2>1, <2>2, FreshSame
    <2>4. Same(events \o Called(tool), ev1, others) /\ ev1 \in Seq(Event)
      BY <2>1, <2>2, <2>3, FreshSame DEF AtCall
    <2>5. Same(events, ev1, others)
      BY <2>3, <2>4, SameOn
    <2> QED BY <2>4, <2>5 DEF others
  <1>4. PICK m \in Nat : /\ Calls(ev1) = Calls(events) \cup {m} /\ m \notin Calls(events)
                         /\ ev1[m].what = tool
                         /\ \A c \in Calls(events) : c < m /\ c \in Nat /\ ev1[c] = events[c]
    BY <1>1, CalledTells DEF ToolTells
  <1> HIDE DEF ev1, ev2, ev3
  <1>5. Judging(ev1, step, step) /\ Cardinality(Calls(ev1)) = step + 1 /\ CallNo(ev1, m) = step + 1
    <2>1. Judging(events, step, step) /\ Cardinality(Calls(events)) = step
      BY DEF VerdictsTold
    <2>2. /\ events \in Seq(Event) /\ Same(events, ev1, GuardTypes \ {"tool_call"})
          /\ CallAdded(events, ev1, m)
      BY <1>1, <1>3, <1>4 DEF CallAdded
    <2> QED BY <1>2, <2>1, <2>2, CallJudging
  <1>6. SameAt(events, ev1, Made(events), Made(ev1)) /\ SameAt(events, ev1, Plain(events), Plain(ev1))
    <2>1. "prediction_result" \in GuardTypes \ {"tool_call"}
      BY DEF GuardTypes
    <2> QED BY <1>3, <2>1, GuardSameIs
  <1>7. /\ Judging(ev2, step, step + 1) /\ ev2 \in Seq(Event)
        /\ Same(ev1, ev2, {"prediction_result", "checkpoint_created", "tool_call"})
    <2>1. pending # 0 <=> \E p \in Made(ev1) : ev1[p].step = step
      BY <1>6 DEF VerdictsTold, SameAt
    <2>2. pending \in {0, step}
      BY DEF VerdictsTold
    <2>3. \E c \in Calls(ev1) : CallNo(ev1, c) = step + 1 /\ ev1[c].what = tool
      BY <1>4, <1>5
    <2>4. Judged(tool, Judge(tool)) /\ ev2 = ev1 \o Judge(tool).events
      BY <1>1 DEF ToolTells, AtVerdict, ev1, ev2
    <2> QED BY <1>3, <1>5, <2>1, <2>2, <2>3, <2>4, VerdictStage
  <1>8. SameAt(ev1, ev2, Calls(ev1), Calls(ev2)) /\ SameAt(ev1, ev2, Plain(ev1), Plain(ev2))
    BY <1>7, GuardSameIs
  <1>9. /\ Judging(ev3, step + 1, step + 1)
        /\ SameAt(ev2, ev3, Calls(ev2), Calls(ev3)) /\ SameAt(ev2, ev3, Plain(ev2), Plain(ev3))
        /\ Makes(tool, predicts) <=> \E p \in Made(ev3) : ev3[p].step = step + 1
    <2>1. ev3 = ev2 \o MadeEvents(tool, predicts)
      BY DEF ev2, ev3, AtPrediction
    <2> QED BY <1>7, <2>1, PredictionStage
  <1>10. ev3 \in Seq(Event) /\ Same(ev3, events', GuardTypes)
    <2>1. /\ Fresh(Ahead(tool, predicts, admitted)[2], {"prefetch_decision", "prefetch_started"})
          /\ events' = ev3 \o Ahead(tool, predicts, admitted)[2] /\ ev3 \in Seq(Event)
      BY <1>1 DEF ToolTells, AheadTells, ev3
    <2>2. {"prefetch_decision", "prefetch_started"} \cap GuardTypes = {}
      BY DEF GuardTypes
    <2> QED BY <2>1, <2>2, FreshSame
  <1>11. Judging(events', step + 1, step + 1)
    BY <1>9, <1>10, JudgingKept
  <1>12. /\ SameAt(ev3, events', Calls(ev3), Calls(events')) /\ SameAt(ev3, events', Made(ev3), Made(events'))
         /\ SameAt(ev3, events', Plain(ev3), Plain(events'))
    <2>1. "prediction_result" \in GuardTypes /\ "tool_call" \in GuardTypes
      BY DEF GuardTypes
    <2> QED BY <1>10, <2>1, GuardSameIs
  <1>13. Cardinality(Calls(events')) = step + 1
    BY <1>5, <1>8, <1>9, <1>12 DEF SameAt
  <1>14. Makes(tool, predicts) <=> \E p \in Made(events') : events'[p].step = step + 1
    BY <1>9, <1>12 DEF SameAt
  <1>15. Plain(events') = Plain(events) /\ \A p \in Plain(events) : events'[p] = events[p]
    BY <1>6, <1>8, <1>9, <1>12 DEF SameAt
  <1>16. /\ step' = step + 1 /\ pending' = IF Makes(tool, predicts) THEN step + 1 ELSE 0
         /\ pc' \in {"loading", "tool"}
    BY DEF ToolStarts, Makes, Enter
  <1>17. PlannedOnce(events', pc')
    BY <1>15, <1>16 DEF VerdictsTold, PlannedOnce
  <1>18. pending' \in {0, step'} /\ (pending' # 0 <=> \E p \in Made(events') : events'[p].step = step')
    BY <1>2, <1>14, <1>16
  <1> QED BY <1>11, <1>13, <1>16, <1>17, <1>18 DEF VerdictsTold

\* A handler of the planner predicts its resource.
LEMMA PredictionsStaged ==
  ASSUME Typed, Stamped, NEW e, e.type \in {"chain_start", "chain_end"}, NEW rid, NEW load,
         Staged(e, rid, load)
  PROVE  /\ Preds(events) \subseteq Preds(events') /\ \A p \in Preds(events) : events'[p] = events[p]
         /\ \A p \in Preds(events') \ Preds(events) : events'[p].rid = rid /\ events'[p].step = 0
         /\ \A p \in Preds(events') \ Preds(events), q \in Preds(events') \ Preds(events) : p = q
         /\ Same(events, events', GuardTypes \ {"prediction_result"})
  <1>1. PICK b, r : /\ Fresh(<<e>>, {e.type}) /\ Fresh(b, {"plan_extracted", "prediction_result"})
                    /\ \A j \in DOMAIN b : b[j].type = "prediction_result" =>
                                              b[j].rid = rid /\ b[j].step = 0
                    /\ \A i \in DOMAIN b, j \in DOMAIN b :
                          b[i].type = "prediction_result" /\ b[j].type = "prediction_result" => i = j
                    /\ Fresh(r[2], {"prefetch_decision", "prefetch_started"})
                    /\ events' = ((events \o <<e>>) \o b) \o r[2]
    BY DEF Staged
  <1> DEFINE a == <<e>>
             c == r[2]
             ev1 == events \o a
             ev2 == ev1 \o b
  <1>2. /\ Fresh(a, {e.type}) /\ Fresh(c, {"prefetch_decision", "prefetch_started"})
        /\ events' = ev2 \o c /\ events \in Seq(Event)
    BY <1>1 DEF Stamped
  <1> HIDE DEF a, c, ev1, ev2
  <1>3. ev1 \in Seq(Event) /\ Same(events, ev1, GuardTypes)
    <2>1. {e.type} \cap GuardTypes = {}
      BY DEF GuardTypes
    <2> QED BY <1>2, <2>1, FreshSame DEF ev1
  <1>4. ev2 \in Seq(Event) /\ Same(ev1, ev2, GuardTypes \ {"prediction_result"})
    <2>1. {"plan_extracted", "prediction_result"} \cap (GuardTypes \ {"prediction_result"}) = {}
      BY DEF GuardTypes
    <2> QED BY <1>1, <1>3, <2>1, FreshSame DEF ev2
  <1>5. Same(ev2, events', GuardTypes)
    <2>1. {"prefetch_decision", "prefetch_started"} \cap GuardTypes = {}
      BY DEF GuardTypes
    <2> QED BY <1>2, <1>4, <2>1, FreshSame
  <1>6. Same(events, events', GuardTypes \ {"prediction_result"})
    <2> DEFINE some == GuardTypes \ {"prediction_result"}
    <2>1. some \subseteq GuardTypes
      OBVIOUS
    <2> HIDE DEF some
    <2>2. Same(events, ev1, some) /\ Same(ev2, events', some)
      BY <1>3, <1>5, <2>1, SameLess
    <2>3. Same(events, ev2, some)
      BY <1>4, <2>2, SameOn DEF some
    <2>4. Same(events, events', some)
      BY <2>2, <2>3, SameOn
    <2> QED BY <2>4 DEF some
  <1>7. /\ Preds(ev1) = Preds(events) /\ \A p \in Preds(events) : ev1[p] = events[p]
        /\ Preds(events') = Preds(ev2) /\ \A p \in Preds(ev2) : events'[p] = ev2[p]
    <2>1. "prediction_result" \in GuardTypes
      BY DEF GuardTypes
    <2> QED BY <1>3, <1>5, <2>1 DEF Same, Preds
  <1>8. /\ \A i \in DOMAIN ev1 : i \in DOMAIN ev2 /\ i <= Len(ev1) /\ ev2[i] = ev1[i]
        /\ \A i \in DOMAIN ev2 :
              \/ i \in DOMAIN ev1
              \/ i - Len(ev1) \in DOMAIN b /\ ev2[i] = b[i - Len(ev1)]
    <2>1. b \in Seq(Event)
      BY <1>1 DEF Fresh
    <2> QED BY <1>3, <2>1, Longer DEF ev2
  <1>9. /\ Preds(ev1) \subseteq Preds(ev2) /\ \A p \in Preds(ev1) : ev2[p] = ev1[p]
        /\ \A p \in Preds(ev2) \ Preds(ev1) : /\ p \in DOMAIN ev2 /\ p - Len(ev1) \in DOMAIN b
                                              /\ ev2[p] = b[p - Len(ev1)]
                                              /\ ev2[p].type = "prediction_result"
    BY <1>8 DEF Preds, E!Where
  <1>10. \A p \in Preds(ev2) \ Preds(ev1) : ev2[p].rid = rid /\ ev2[p].step = 0
    BY <1>1, <1>9
  <1>11. \A p \in Preds(ev2) \ Preds(ev1), q \in Preds(ev2) \ Preds(ev1) : p = q
    <2> TAKE p \in Preds(ev2) \ Preds(ev1), q \in Preds(ev2) \ Preds(ev1)
    <2>1. p - Len(ev1) = q - Len(ev1)
      BY <1>1, <1>9
    <2>2. p \in Nat /\ q \in Nat /\ Len(ev1) \in Nat
      BY <1>3, <1>4, <1>9, LenProperties
    <2> QED BY <2>1, <2>2
  <1> QED BY <1>6, <1>7, <1>9, <1>10, <1>11

LEMMA VerdictsPlanner ==
  ASSUME Typed, Stamped, Kept(events, tasks), VerdictsTold, PlannerStarts \/ PlannerEnds
  PROVE  VerdictsTold'
  <1>1. PICK rid : /\ \E e, load : e.type \in {"chain_start", "chain_end"} /\ Staged(e, rid, load)
                   /\ \/ pc = "begin" /\ pc' = "planner" /\ rid = "model_cache"
                      \/ pc = "planner" /\ pc' = "planned" /\ rid = "vllm_model"
    <2>1. /\ Tracked("chain_start", "PlannerAgent").type = "chain_start"
          /\ Tracked("chain_end", "PlannerAgent").type = "chain_end"
      BY DEF Tracked
    <2>2. CASE PlannerStarts
      <3>1. Staged(Tracked("chain_start", "PlannerAgent"), "model_cache", pace.cache)
        BY <2>2, PlannerStartsTells
      <3>2. pc = "begin" /\ pc' = "planner"
        BY <2>2, Moves
      <3> QED BY <2>1, <3>1, <3>2
    <2>3. CASE PlannerEnds
      <3>1. Staged(Tracked("chain_end", "PlannerAgent"), "vllm_model", pace.worker)
        BY <2>3, PlannerEndsTells
      <3>2. pc = "planner" /\ pc' = "planned"
        BY <2>3, Moves
      <3> QED BY <2>1, <3>1, <3>2
    <2> QED BY <2>2, <2>3
  <1>2. /\ Preds(events) \subseteq Preds(events') /\ \A p \in Preds(events) : events'[p] = events[p]
        /\ \A p \in Preds(events') \ Preds(events) : events'[p].rid = rid /\ events'[p].step = 0
        /\ \A p \in Preds(events') \ Preds(events), q \in Preds(events') \ Preds(events) : p = q
        /\ Same(events, events', GuardTypes \ {"prediction_result"})
    BY <1>1, PredictionsStaged
  <1>3. SameAt(events, events', Made(events), Made(events'))
    BY <1>1, <1>2 DEF SameAt, Made
  <1>4. /\ SameAt(events, events', Ckpts(events), Ckpts(events'))
        /\ SameAt(events, events', Hits(events), Hits(events'))
        /\ SameAt(events, events', Diverged(events), Diverged(events'))
        /\ SameAt(events, events', Calls(events), Calls(events'))
    <2>1. /\ "checkpoint_created" \in GuardTypes \ {"prediction_result"}
          /\ "prediction_validated" \in GuardTypes \ {"prediction_result"}
          /\ "divergence_detected" \in GuardTypes \ {"prediction_result"}
          /\ "tool_call" \in GuardTypes \ {"prediction_result"}
      BY DEF GuardTypes
    <2> QED BY <1>2, <2>1, GuardSameIs
  <1>5. Judging(events', step, step)
    BY <1>3, <1>4, JudgingSame DEF VerdictsTold
  <1>6. UNCHANGED <<step, pending>>
    BY DEF PlannerStarts, PlannerEnds
  <1>7. /\ \A p \in Plain(events) : p \in Preds(events') /\ events'[p] = events[p]
        /\ \A p \in Plain(events') : p \in Plain(events) \/ p \in Preds(events') \ Preds(events)
    BY <1>2 DEF Plain
  <1>8. \A p \in Plain(events) : events[p].rid # rid
    BY <1>1 DEF VerdictsTold, PlannedOnce
  <1>9. PlannedOnce(events', pc')
    <2>1. \A p \in Plain(events') : events'[p].step = 0
      BY <1>2, <1>7 DEF VerdictsTold, PlannedOnce
    <2>2. \A p \in Plain(events'), q \in Plain(events') : events'[p].rid = events'[q].rid => p = q
      <3>1. \A p \in Plain(events), q \in Plain(events) : events[p].rid = events[q].rid => p = q
        BY DEF VerdictsTold, PlannedOnce
      <3> QED BY <1>2, <1>7, <1>8, <3>1
    <2>3. pc' = "planner" => \A p \in Plain(events') : events'[p].rid = "model_cache"
      BY <1>1, <1>2, <1>7 DEF VerdictsTold, PlannedOnce
    <2> QED BY <1>1, <2>1, <2>2, <2>3 DEF PlannedOnce
  <1>10. /\ Cardinality(Calls(events')) = step' /\ pending' \in {0, step'}
         /\ pending' # 0 <=> \E p \in Made(events') : events'[p].step = step'
    BY <1>3, <1>4, <1>6 DEF SameAt, VerdictsTold
  <1> QED BY <1>5, <1>6, <1>9, <1>10 DEF VerdictsTold

\* The other steps tell nothing of predictions.
LEMMA GuardUntouched ==
  ASSUME Typed, Stamped, Kept(events, tasks), LagsMet, [TraceNext]_vars,
         ~PlannerStarts, ~PlannerEnds,
         ~\E tool \in Tool, p \in BOOLEAN, a \in BOOLEAN : ToolStarts(tool, p, a)
  PROVE  /\ Same(events, events', GuardTypes) /\ UNCHANGED <<step, pending, until>>
         /\ pc' \in {"begin", "planner"} => pc' = pc
  <1>1. CASE WorkerGate
    <2>1. Grew({"chain_start", "resource_consumed"})
      BY <1>1, GateGrew
    <2>2. {"chain_start", "resource_consumed"} \cap GuardTypes = {}
      BY DEF GuardTypes
    <2>3. Same(events, events', GuardTypes)
      BY <2>1, <2>2, GrewSame
    <2>4. UNCHANGED <<step, pending, until>>
      BY <1>1 DEF WorkerGate
    <2> QED BY <1>1, <2>3, <2>4, Moves
  <1>2. CASE (\E k \in DOMAIN tasks : TakesCalculator(k)) \/ LoadedItself
    <2>1. Grew({"mace_load"})
      BY <1>2, SimpleTells
    <2>2. {"mace_load"} \cap GuardTypes = {}
      BY DEF GuardTypes
    <2>3. Same(events, events', GuardTypes)
      BY <2>1, <2>2, GrewSame
    <2>4. UNCHANGED <<step, pending, until>>
      BY <1>2 DEF TakesCalculator, LoadedItself
    <2> QED BY <1>2, <2>3, <2>4, Moves
  <1>3. CASE ~WorkerGate /\ ~((\E k \in DOMAIN tasks : TakesCalculator(k)) \/ LoadedItself)
    <2> DEFINE rest == {"worker_swap_wait", "aggregator_swap_wait", "tool_end", "chain_start",
                        "chain_end", "prefetch_completed"}
    <2>1. Grew(rest)
      BY <1>3, StepGrew
    <2>2. rest \cap GuardTypes = {}
      BY DEF GuardTypes
    <2>3. Same(events, events', GuardTypes)
      <3> HIDE DEF rest
      <3> QED BY <2>1, <2>2, GrewSame
    <2>4. UNCHANGED <<step, pending, until>>
      BY <1>3 DEF TraceNext, Workflow, PollReports, WorkerReady, LoadsItself, ToolEnds,
                  AggregatorGate, AggregatorReady, RunEnds, Tick, vars
    <2>5. pc' \in {"begin", "planner"} => pc' = pc
      <3>1. UNCHANGED vars => pc' = pc
        BY DEF vars
      <3> QED BY <1>3, <3>1, Moves DEF TraceNext, Workflow
    <2> QED BY <2>3, <2>4, <2>5
  <1> QED BY <1>1, <1>2, <1>3

LEMMA VerdictsNext ==
  ASSUME Typed, Stamped, Kept(events, tasks), LagsMet, VerdictsTold, [TraceNext]_vars
  PROVE  VerdictsTold'
  <1>1. CASE PlannerStarts \/ PlannerEnds
    BY <1>1, VerdictsPlanner
  <1>2. CASE \E tool \in Tool, p \in BOOLEAN, a \in BOOLEAN : ToolStarts(tool, p, a)
    BY <1>2, VerdictsCall
  <1>3. CASE /\ ~PlannerStarts /\ ~PlannerEnds
             /\ ~\E tool \in Tool, p \in BOOLEAN, a \in BOOLEAN : ToolStarts(tool, p, a)
    <2>1. /\ Same(events, events', GuardTypes) /\ UNCHANGED <<step, pending>>
          /\ pc' \in {"begin", "planner"} => pc' = pc
      BY <1>3, GuardUntouched
    <2>2. Judging(events', step, step)
      BY <2>1, JudgingKept DEF VerdictsTold
    <2>3. /\ SameAt(events, events', Made(events), Made(events'))
          /\ SameAt(events, events', Plain(events), Plain(events'))
          /\ SameAt(events, events', Calls(events), Calls(events'))
      <3>1. "prediction_result" \in GuardTypes /\ "tool_call" \in GuardTypes
        BY DEF GuardTypes
      <3> QED BY <2>1, <3>1, GuardSameIs
    <2>4. PlannedOnce(events', pc')
      BY <2>1, <2>3 DEF VerdictsTold, PlannedOnce, SameAt
    <2> QED BY <2>1, <2>2, <2>3, <2>4 DEF VerdictsTold, SameAt
  <1> QED BY <1>1, <1>2, <1>3

LEMMA VerdictsInit ==
  ASSUME TraceInit
  PROVE  VerdictsTold
  <1>1. /\ events = <<>> /\ step = 0 /\ pending = 0
        /\ \A type : E!Where(events, type) = {}
    BY DEF TraceInit, E!Where
  <1>2. /\ Made(events) = {} /\ Plain(events) = {} /\ Ckpts(events) = {} /\ Verdicts(events) = {}
        /\ Calls(events) = {}
    BY <1>1 DEF Made, Plain, Preds, Ckpts, Verdicts, Hits, Diverged, Calls
  <1>3. Cardinality(Calls(events)) = 0
    BY <1>2, FS_EmptySet
  <1>4. Judging(events, step, step) /\ PlannedOnce(events, pc)
    BY <1>2 DEF Judging, Foretold, JudgedBelow, PlannedOnce
  <1> QED BY <1>1, <1>2, <1>3, <1>4 DEF VerdictsTold

VerdictsInv == RunInv /\ VerdictsTold

\* What the trace tells of calls, predictions and verdicts is so in every state
\* (_pending_checkpoint of chemgraph.py is judged by the next call, once).
THEOREM VerdictsInvariant ==
  TraceSpec => []VerdictsInv
  <1>1. TraceInit => VerdictsInv
    BY RunInvInit, VerdictsInit DEF VerdictsInv
  <1>2. VerdictsInv /\ [TraceNext]_vars => VerdictsInv'
    BY RunInvNext, VerdictsNext DEF VerdictsInv, RunInv
  <1> QED BY <1>1, <1>2, PTL DEF TraceSpec

-------------------------------------------------------------------------------
(* The verdicts of the reports.                                            *)

LEMMA GuardFields ==
  \A e \in Event : /\ e.type = "prediction_validated" => e.hit /\ e.ckpt \in Nat
                   /\ e.type = "divergence_detected" => e.ckpt \in Nat
                   /\ e.type = "checkpoint_created" => e.step \in Nat /\ e.ckpt \in Nat
                   /\ e.type = "mace_load" => e.what \in {"prefetch_cache", "disk", None}
  <1> TAKE e \in Event
  <1>1. CASE e \in TaskEvent
    BY <1>1 DEF TaskEvent
  <1>2. CASE e \in GuardEvent
    BY <1>2 DEF GuardEvent
  <1>3. CASE e \in WaitEvent
    BY <1>3 DEF WaitEvent
  <1>4. CASE e \in TrackedEvent
    BY <1>4 DEF TrackedEvent
  <1> QED BY <1>1, <1>2, <1>3, <1>4 DEF Event

\* The kinds of events are apart from each other.
LEMMA GuardSets ==
  ASSUME NEW ev \in Seq(Event)
  PROVE  /\ Preds(ev) \in SUBSET (1 .. Len(ev)) /\ Ckpts(ev) \in SUBSET (1 .. Len(ev))
         /\ Hits(ev) \in SUBSET (1 .. Len(ev)) /\ Diverged(ev) \in SUBSET (1 .. Len(ev))
         /\ Calls(ev) \in SUBSET (1 .. Len(ev)) /\ Len(ev) \in Nat
         /\ Hits(ev) \cap Diverged(ev) = {}
         /\ \A p \in Preds(ev) : ev[p].step \in Nat
         /\ \A v \in Hits(ev) : ev[v].hit /\ ev[v].ckpt \in Nat
         /\ \A v \in Diverged(ev) : ev[v].ckpt \in Nat
  <1>1. /\ Preds(ev) \in SUBSET (1 .. Len(ev)) /\ Ckpts(ev) \in SUBSET (1 .. Len(ev))
        /\ Hits(ev) \in SUBSET (1 .. Len(ev)) /\ Diverged(ev) \in SUBSET (1 .. Len(ev))
        /\ Calls(ev) \in SUBSET (1 .. Len(ev)) /\ Len(ev) \in Nat
    BY Positions, LenProperties DEF Preds, Ckpts, Hits, Diverged, Calls
  <1>2. \A i \in 1 .. Len(ev) : ev[i] \in Event
    BY ElementOfSeq, LenProperties
  <1>3. Hits(ev) \cap Diverged(ev) = {}
    BY DEF Hits, Diverged, E!Where
  <1>4. \A p \in Preds(ev) : ev[p].step \in Nat
    <2> TAKE p \in Preds(ev)
    <2>1. ev[p] \in Event /\ ev[p].type = "prediction_result"
      BY <1>1, <1>2 DEF Preds, E!Where
    <2> QED BY <2>1, EventFields
  <1>5. \A v \in Hits(ev) : ev[v].hit /\ ev[v].ckpt \in Nat
    <2> TAKE v \in Hits(ev)
    <2>1. ev[v] \in Event /\ ev[v].type = "prediction_validated"
      BY <1>1, <1>2 DEF Hits, E!Where
    <2> QED BY <2>1, GuardFields
  <1>6. \A v \in Diverged(ev) : ev[v].ckpt \in Nat
    <2> TAKE v \in Diverged(ev)
    <2>1. ev[v] \in Event /\ ev[v].type = "divergence_detected"
      BY <1>1, <1>2 DEF Diverged, E!Where
    <2> QED BY <2>1, GuardFields
  <1> QED BY <1>1, <1>3, <1>4, <1>5, <1>6

\* The checkpoint of a tool's prediction is the call; the planner's have none.
LEMMA CheckpointIs ==
  ASSUME NEW ev \in Seq(Event), NEW n \in Nat, Foretold(ev, n), NEW activity, PlannedOnce(ev, activity)
  PROVE  /\ \A p \in Made(ev) : E!CheckpointOf(ev, p) = ev[p].step
         /\ \A p \in Plain(ev) : E!CheckpointOf(ev, p) = E!Missing
  <1>1. \A p \in Made(ev) : E!CheckpointOf(ev, p) = ev[p].step
    <2> TAKE p \in Made(ev)
    <2> DEFINE made == {i \in Ckpts(ev) : ev[i].step = ev[p].step}
    <2>1. E!CheckpointOf(ev, p) = IF made = {} THEN E!Missing ELSE ev[E!Max(made)].ckpt
      BY DEF E!CheckpointOf, Ckpts
    <2>2. made # {} /\ \A i \in made : ev[i].ckpt = ev[p].step
      BY DEF Foretold
    <2>3. made \in SUBSET E!Where(ev, "checkpoint_created")
      BY DEF Ckpts
    <2> HIDE DEF made
    <2>4. E!Max(made) \in made
      BY <2>2, <2>3, LastIn DEF IsLast
    <2> QED BY <2>1, <2>2, <2>4
  <1>2. \A p \in Plain(ev) : E!CheckpointOf(ev, p) = E!Missing
    <2> TAKE p \in Plain(ev)
    <2>1. \A i \in Ckpts(ev) : ev[i].step # ev[p].step
      <3> TAKE i \in Ckpts(ev)
      <3>1. PICK q \in Made(ev) : ev[q].step = ev[i].step
        BY DEF Foretold
      <3>2. ev[q].step \in 1 .. n /\ ev[p].step = 0
        BY DEF Foretold, PlannedOnce
      <3> QED BY <3>1, <3>2
    <2>2. {i \in Ckpts(ev) : ev[i].step = ev[p].step} = {}
      BY <2>1
    <2> QED BY <2>2 DEF E!CheckpointOf, Ckpts
  <1> QED BY <1>1, <1>2

\* A prediction has the verdict that names its checkpoint, if there is one.
Verdict(ev, p) ==
    IF \E v \in Hits(ev) : ev[v].ckpt = ev[p].step THEN "hit"
    ELSE IF \E v \in Diverged(ev) : ev[v].ckpt = ev[p].step THEN "miss" ELSE "unknown"

LEMMA ValidatedHitIs ==
  ASSUME NEW ev \in Seq(Event), NEW n \in Nat, Judging(ev, n, n), NEW activity, PlannedOnce(ev, activity)
  PROVE  /\ \A p \in Made(ev) : E!ValidatedHit(ev, p) = Verdict(ev, p)
         /\ \A p \in Plain(ev) : E!ValidatedHit(ev, p) = "unknown"
  <1>1. /\ \A p \in Made(ev) : E!CheckpointOf(ev, p) = ev[p].step
        /\ \A p \in Plain(ev) : E!CheckpointOf(ev, p) = E!Missing
    BY CheckpointIs DEF Judging
  <1>2. /\ \A v \in Hits(ev) : ev[v].hit /\ ev[v].ckpt \in Nat
        /\ \A v \in Diverged(ev) : ev[v].ckpt \in Nat
    BY GuardSets
  <1>3. \A p : E!ValidatedHit(ev, p) =
           IF \E v \in Hits(ev) : ev[v].ckpt = E!CheckpointOf(ev, p) /\ ev[v].hit THEN "hit"
           ELSE IF \E v \in Diverged(ev) : ev[v].ckpt = E!CheckpointOf(ev, p) THEN "miss"
           ELSE "unknown"
    BY DEF E!ValidatedHit, Hits, Diverged
  <1>4. \A p \in Made(ev) : E!ValidatedHit(ev, p) = Verdict(ev, p)
    BY <1>1, <1>2, <1>3 DEF Verdict
  <1>5. E!Missing \notin Nat
    BY DEF E!Missing
  <1>6. \A p \in Plain(ev) : E!ValidatedHit(ev, p) = "unknown"
    BY <1>1, <1>2, <1>3, <1>5
  <1> QED BY <1>4, <1>6

\* Two calls have two numbers.
LEMMA CallNoOne ==
  ASSUME NEW ev \in Seq(Event), NEW c \in Calls(ev), NEW d \in Calls(ev), CallNo(ev, c) = CallNo(ev, d)
  PROVE  c = d
  <1>1. Calls(ev) \in SUBSET (1 .. Len(ev)) /\ Len(ev) \in Nat
    BY GuardSets
  <1>2. ASSUME NEW x \in Calls(ev), NEW y \in Calls(ev), CallNo(ev, x) = CallNo(ev, y), x < y
        PROVE  FALSE
    <2> DEFINE s == {a \in Calls(ev) : a <= y}
               t == {a \in Calls(ev) : a <= x}
    <2>1. t \in SUBSET s /\ y \in s /\ y \notin t
      BY <1>1, <1>2
    <2>2. s \in SUBSET (1 .. Len(ev))
      BY <1>1
    <2>3. Cardinality(s) = Cardinality(t)
      BY <1>2 DEF CallNo
    <2> HIDE DEF s, t
    <2>4. IsFiniteSet(s)
      BY <1>1, <2>2, PositionsFinite
    <2>5. s = t
      BY <2>1, <2>3, <2>4, FS_Subset
    <2> QED BY <2>1, <2>5
  <1>3. c \in Nat /\ d \in Nat
    BY <1>1
  <1> QED BY <1>2, <1>3

\* ToolAt of a call's number is what was called.
LEMMA ToolAtIs ==
  ASSUME events \in Seq(Event), NEW c \in Calls(events)
  PROVE  ToolAt(CallNo(events, c)) = events[c].what
  <1>1. ToolCalls = Calls(events)
    BY DEF ToolCalls, Calls, E!Where
  <1> DEFINE calls == {i \in ToolCalls : Cardinality({j \in ToolCalls : j <= i}) = CallNo(events, c)}
  <1>2. calls = {c}
    BY <1>1, CallNoOne DEF CallNo
  <1>3. (CHOOSE i \in calls : TRUE) = c
    BY <1>2
  <1>4. ToolAt(CallNo(events, c)) = events[CHOOSE i \in calls : TRUE].what
    BY DEF ToolAt
  <1> QED BY <1>3, <1>4

\* A set is no larger than one it maps into, one to one.
LEMMA CountsInject ==
  ASSUME NEW S, NEW U, IsFiniteSet(U), NEW f \in [S -> U], \A x \in S, y \in S : f[x] = f[y] => x = y
  PROVE  IsFiniteSet(S) /\ Cardinality(S) <= Cardinality(U)
  <1>1. f \in Injection(S, U)
    BY DEF Injection, IsInjective
  <1> QED BY <1>1, FS_Injection

\* As many predictions are judged as there are verdicts.
Past(ev, n) == {p \in Made(ev) : ev[p].step < n}

LEMMA JudgedCount ==
  ASSUME NEW ev \in Seq(Event), NEW n \in Nat, Judging(ev, n, n)
  PROVE  /\ IsFiniteSet(Past(ev, n)) /\ IsFiniteSet(Verdicts(ev))
         /\ Cardinality(Past(ev, n)) = Cardinality(Verdicts(ev))
         /\ Cardinality(Verdicts(ev)) = Cardinality(Hits(ev)) + Cardinality(Diverged(ev))
         /\ Cardinality(Hits(ev)) \in Nat /\ Cardinality(Diverged(ev)) \in Nat
         /\ IsFiniteSet(Preds(ev))
  <1>1. /\ Hits(ev) \in SUBSET (1 .. Len(ev)) /\ Diverged(ev) \in SUBSET (1 .. Len(ev))
        /\ Preds(ev) \in SUBSET (1 .. Len(ev)) /\ Len(ev) \in Nat /\ Hits(ev) \cap Diverged(ev) = {}
    BY GuardSets
  <1>2. IsFiniteSet(Hits(ev)) /\ IsFiniteSet(Diverged(ev)) /\ IsFiniteSet(Preds(ev))
    BY <1>1, PositionsFinite
  <1>3. /\ Cardinality(Verdicts(ev)) = Cardinality(Hits(ev)) + Cardinality(Diverged(ev))
    BY <1>1, <1>2, CountsAdd DEF Verdicts
  <1>4. IsFiniteSet(Verdicts(ev))
    BY <1>2, FS_Union DEF Verdicts
  <1>5. Cardinality(Hits(ev)) \in Nat /\ Cardinality(Diverged(ev)) \in Nat
    BY <1>2, FS_CardinalityType
  <1>6. Past(ev, n) \in SUBSET Preds(ev)
    BY DEF Past, Made
  <1>7. IsFiniteSet(Past(ev, n))
    BY <1>2, <1>6, FS_Subset
  <1>8. Cardinality(Past(ev, n)) <= Cardinality(Verdicts(ev))
    <2> DEFINE f == [p \in Past(ev, n) |-> CHOOSE v \in Verdicts(ev) : ev[v].ckpt = ev[p].step]
    <2>1. \A p \in Past(ev, n) : f[p] \in Verdicts(ev) /\ ev[f[p]].ckpt = ev[p].step
      <3> TAKE p \in Past(ev, n)
      <3>1. \E v \in Verdicts(ev) : ev[v].ckpt = ev[p].step
        BY DEF Past, Judging, JudgedBelow
      <3> QED BY <3>1
    <2>2. f \in [Past(ev, n) -> Verdicts(ev)]
      BY <2>1
    <2> HIDE DEF f
    <2>3. \A p \in Past(ev, n), q \in Past(ev, n) : f[p] = f[q] => p = q
      <3> TAKE p \in Past(ev, n), q \in Past(ev, n)
      <3> HAVE f[p] = f[q]
      <3>1. ev[p].step = ev[q].step
        BY <2>1
      <3> QED BY <3>1 DEF Past, Judging, Foretold
    <2> QED BY <1>4, <2>2, <2>3, CountsInject
  <1>9. Cardinality(Verdicts(ev)) <= Cardinality(Past(ev, n))
    <2> DEFINE f == [v \in Verdicts(ev) |-> CHOOSE p \in Past(ev, n) : ev[p].step = ev[v].ckpt]
    <2>1. \A v \in Verdicts(ev) : f[v] \in Past(ev, n) /\ ev[f[v]].step = ev[v].ckpt
      <3> TAKE v \in Verdicts(ev)
      <3>1. \E p \in Past(ev, n) : ev[p].step = ev[v].ckpt
        BY DEF Past, Judging, JudgedBelow
      <3> QED BY <3>1
    <2>2. f \in [Verdicts(ev) -> Past(ev, n)]
      BY <2>1
    <2> HIDE DEF f
    <2>3. \A v \in Verdicts(ev), w \in Verdicts(ev) : f[v] = f[w] => v = w
      <3> TAKE v \in Verdicts(ev), w \in Verdicts(ev)
      <3> HAVE f[v] = f[w]
      <3>1. ev[v].ckpt = ev[w].ckpt
        BY <2>1
      <3> QED BY <3>1 DEF Judging, JudgedBelow
    <2> QED BY <1>7, <2>2, <2>3, CountsInject
  <1>10. Cardinality(Past(ev, n)) \in Nat /\ Cardinality(Verdicts(ev)) \in Nat
    BY <1>4, <1>7, FS_CardinalityType
  <1> QED BY <1>2, <1>3, <1>4, <1>5, <1>7, <1>8, <1>9, <1>10

\* A prediction of a tool is judged by the next call, if there is one.
LEMMA VerdictIs ==
  ASSUME VerdictsInv, NEW p \in Made(events)
  PROVE  Verdict(events, p) = IF events[p].step = step THEN "unknown"
                              ELSE IF ToolAt(events[p].step + 1) = "run_ase" THEN "hit" ELSE "miss"
  <1>1. events \in Seq(Event) /\ Judging(events, step, step)
    BY DEF VerdictsInv, RunInv, Stamped, VerdictsTold
  <1>2. step \in Nat
    <2>1. MaxTools \in Nat
      BY TraceConstants
    <2> QED BY <2>1 DEF VerdictsInv, RunInv, Typed
  <1>3. Hits(events) \cap Diverged(events) = {} /\ Verdicts(events) = Hits(events) \cup Diverged(events)
    BY <1>1, GuardSets DEF Verdicts
  <1>4. events[p].step \in 1 .. step
    BY <1>1 DEF Judging, Foretold
  <1>5. \A v \in Verdicts(events) : events[v].ckpt < step
    BY <1>1 DEF Judging, JudgedBelow
  <1>6. CASE events[p].step = step
    <2>1. \A v \in Verdicts(events) : events[v].ckpt # events[p].step
      BY <1>2, <1>5, <1>6
    <2> QED BY <1>3, <1>6, <2>1 DEF Verdict
  <1>7. CASE events[p].step # step
    <2>1. events[p].step < step
      BY <1>2, <1>4, <1>7
    <2>2. PICK v \in Verdicts(events) : events[v].ckpt = events[p].step
      BY <1>1, <2>1 DEF Judging, JudgedBelow
    <2>3. PICK c \in Calls(events) :
             /\ CallNo(events, c) = events[v].ckpt + 1
             /\ v \in Hits(events) <=> events[c].what = "run_ase"
      BY <1>1 DEF Judging, JudgedBelow
    <2>4. ToolAt(events[p].step + 1) = events[c].what
      BY <1>1, <2>2, <2>3, ToolAtIs
    <2>5. \A w \in Verdicts(events) : events[w].ckpt = events[p].step => w = v
      BY <1>1, <2>2 DEF Judging, JudgedBelow
    <2> QED BY <1>3, <1>7, <2>2, <2>3, <2>4, <2>5 DEF Verdict
  <1> QED BY <1>6, <1>7

LEMMA VerdictsJoin ==
  ASSUME VerdictsInv
  PROVE  VerdictJoined
  <1>1. events \in Seq(Event) /\ Judging(events, step, step) /\ PlannedOnce(events, pc)
    BY DEF VerdictsInv, RunInv, Stamped, VerdictsTold
  <1>2. step \in Nat
    <2>1. MaxTools \in Nat
      BY TraceConstants
    <2> QED BY <2>1 DEF VerdictsInv, RunInv, Typed
  <1>3. /\ \A p \in Made(events) : E!ValidatedHit(events, p) = Verdict(events, p)
        /\ \A p \in Plain(events) : E!ValidatedHit(events, p) = "unknown"
    BY <1>1, <1>2, ValidatedHitIs
  <1>4. E!PredictionsOf(events, "mace_model") = Made(events)
    BY DEF E!PredictionsOf, Made, Preds
  <1>5. \A p \in Made(events) :
           E!ValidatedHit(events, p) =
               IF events[p].step = step THEN "unknown"
               ELSE IF ToolAt(events[p].step + 1) = "run_ase" THEN "hit" ELSE "miss"
    BY <1>3, VerdictIs
  <1> DEFINE unknown == {p \in Preds(events) : E!ValidatedHit(events, p) = "unknown"}
  <1>6. Preds(events) = unknown \cup Past(events, step) /\ unknown \cap Past(events, step) = {}
    <2>1. \A p \in Made(events) : events[p].step \in 1 .. step
      BY <1>1 DEF Judging, Foretold
    <2>2. Preds(events) = Made(events) \cup Plain(events) /\ Made(events) \cap Plain(events) = {}
      BY DEF Made, Plain
    <2>3. \A p \in Made(events) : E!ValidatedHit(events, p) = "unknown" <=> ~(events[p].step < step)
      BY <1>2, <1>5, <2>1
    <2> QED BY <1>3, <2>2, <2>3 DEF Past
  <1>7. /\ IsFiniteSet(Past(events, step))
        /\ Cardinality(Past(events, step)) = Cardinality(Hits(events)) + Cardinality(Diverged(events))
        /\ Cardinality(Hits(events)) \in Nat /\ Cardinality(Diverged(events)) \in Nat
        /\ IsFiniteSet(Preds(events))
    BY <1>1, <1>2, JudgedCount
  <1>8. T!Unvalidated(events) = Cardinality(unknown)
    <2>1. T!Where(events, "prediction_validated") = Hits(events)
          /\ T!Where(events, "divergence_detected") = Diverged(events)
          /\ T!Where(events, "prediction_result") = Preds(events)
      BY <1>1, Positions DEF Hits, Diverged, Preds
    <2>2. {i \in Hits(events) : events[i].hit} = Hits(events) /\ {i \in Hits(events) : ~events[i].hit} = {}
      BY <1>1, GuardSets
    <2>3. T!Hits(events) = Cardinality(Hits(events))
          /\ T!Misses(events) = Cardinality({}) + Cardinality(Diverged(events))
      BY <2>1, <2>2, CountsSame DEF T!Hits, T!Misses
    <2>4. Cardinality({}) = 0
      BY FS_EmptySet
    <2>5. T!Unvalidated(events) = Cardinality(Preds(events)) - T!Hits(events) - T!Misses(events)
      BY <2>1, CountsSame DEF T!Unvalidated
    <2>6. unknown \in SUBSET Preds(events)
      OBVIOUS
    <2> HIDE DEF unknown
    <2>7. IsFiniteSet(unknown)
      BY <1>7, <2>6, FS_Subset
    <2>8. Cardinality(Preds(events)) = Cardinality(unknown) + Cardinality(Past(events, step))
      BY <1>6, <1>7, <2>7, CountsAdd
    <2>9. Cardinality(unknown) \in Nat
      BY <2>7, FS_CardinalityType
    <2> QED BY <1>7, <2>3, <2>4, <2>5, <2>8, <2>9
  <1> QED BY <1>4, <1>5, <1>8 DEF VerdictJoined, Preds

\* validated_hit in the row of a prediction is what the tool after it said, and
\* trace_analyzer.py leaves as many predictions without a verdict.
THEOREM VerdictsAlwaysJoined ==
  TraceSpec => []VerdictJoined
  <1> QED BY VerdictsJoin, VerdictsInvariant, PTL

-------------------------------------------------------------------------------
(* Predictions that expired, and resources that were missed.               *)

LEMMA NotNegativeBound ==
  \A a \in Int, b \in Nat : a <= b => E!NotNegative(a) <= b
  <1> TAKE a \in Int, b \in Nat
  <1>1. E!NotNegative(a) = E!Max({a, 0})
    BY DEF E!NotNegative
  <1>2. 0 \in Int
    OBVIOUS
  <1>3. E!Max({a, 0}) = IF a >= 0 THEN a ELSE 0
    BY <1>2, MaxMinOfTwo
  <1> QED BY <1>1, <1>3

\* Of two sets together there are no more elements than of each of them.
LEMMA CountsBelow ==
  ASSUME NEW a, IsFiniteSet(a), NEW b, IsFiniteSet(b)
  PROVE  IsFiniteSet(a \cup b) /\ Cardinality(a \cup b) <= Cardinality(a) + Cardinality(b)
  <1>1. /\ IsFiniteSet(a \cup b)
        /\ Cardinality(a \cup b) = Cardinality(a) + Cardinality(b) - Cardinality(a \cap b)
    BY FS_Union
  <1>2. a \cap b \in SUBSET a
    OBVIOUS
  <1>3. IsFiniteSet(a \cap b)
    BY <1>2, FS_Subset
  <1>4. Cardinality(a) \in Nat /\ Cardinality(b) \in Nat /\ Cardinality(a \cap b) \in Nat
    BY <1>3, FS_CardinalityType
  <1> QED BY <1>1, <1>4

\* Predictions a task was admitted for
Taken == {p \in Preds(events) :
             \E k \in DOMAIN tasks : tasks[k].rid = events[p].rid /\ tasks[k].ckpt = events[p].step}

\* A task is admitted for one prediction.
LEMMA TakenCount ==
  ASSUME VerdictsInv
  PROVE  Cardinality(Taken) <= Cardinality(DOMAIN tasks)
  <1>1. /\ \A p \in Made(events), q \in Made(events) : events[p].step = events[q].step => p = q
        /\ \A p \in Plain(events), q \in Plain(events) : events[p].rid = events[q].rid => p = q
    BY DEF VerdictsInv, VerdictsTold, Judging, Foretold, PlannedOnce
  <1>2. IsFiniteSet(DOMAIN tasks)
    BY EachRecord DEF VerdictsInv
  <1> DEFINE Of(p, k) == tasks[k].rid = events[p].rid /\ tasks[k].ckpt = events[p].step
             f == [p \in Taken |-> CHOOSE k \in DOMAIN tasks : Of(p, k)]
  <1>3. \A p \in Taken : f[p] \in DOMAIN tasks /\ Of(p, f[p])
    BY DEF Taken
  <1>4. f \in [Taken -> DOMAIN tasks]
    BY <1>3
  <1> HIDE DEF f
  <1>5. \A p \in Taken, q \in Taken : f[p] = f[q] => p = q
    <2> TAKE p \in Taken, q \in Taken
    <2> HAVE f[p] = f[q]
    <2>1. events[p].rid = events[q].rid /\ events[p].step = events[q].step
      BY <1>3
    <2>2. p \in Preds(events) /\ q \in Preds(events)
      BY DEF Taken
    <2> QED BY <1>1, <2>1, <2>2 DEF Made, Plain
  <1> QED BY <1>2, <1>4, <1>5, CountsInject

LEMMA ExpiredMeets ==
  ASSUME VerdictsInv
  PROVE  ExpiredWithin
  <1>1. events \in Seq(Event) /\ Judging(events, step, step) /\ PlannedOnce(events, pc)
    BY DEF VerdictsInv, RunInv, Stamped, VerdictsTold
  <1>2. step \in Nat
    <2>1. MaxTools \in Nat
      BY TraceConstants
    <2> QED BY <2>1 DEF VerdictsInv, RunInv, Typed
  <1> DEFINE rest == {p \in Preds(events) :
                /\ \A k \in DOMAIN tasks : tasks[k].rid = events[p].rid => tasks[k].ckpt # events[p].step
                /\ \/ events[p].rid # "mace_model"
                   \/ E!ValidatedHit(events, p) = "unknown"}
  <1>3. Preds(events) \subseteq rest \cup (Taken \cup Past(events, step))
    <2> SUFFICES ASSUME NEW p \in Preds(events), p \notin Taken, p \notin rest
                 PROVE  p \in Past(events, step)
      OBVIOUS
    <2>1. p \in Made(events) /\ E!ValidatedHit(events, p) # "unknown"
      BY DEF Taken, Made
    <2>2. E!ValidatedHit(events, p) = Verdict(events, p)
      BY <1>1, <1>2, <2>1, ValidatedHitIs
    <2>3. events[p].step # step
      BY <2>1, <2>2, VerdictIs
    <2>4. events[p].step \in 1 .. step
      BY <1>1, <2>1 DEF Judging, Foretold
    <2> QED BY <1>2, <2>1, <2>3, <2>4 DEF Past
  <1>4. rest \in SUBSET Preds(events) /\ Taken \in SUBSET Preds(events)
    BY DEF Taken
  <1>5. ExpiredWithin <=> (Ended => E!Expired(events) <= Cardinality(rest))
    BY DEF ExpiredWithin, Preds
  <1> HIDE DEF rest
  <1>6. /\ IsFiniteSet(Preds(events)) /\ IsFiniteSet(Past(events, step))
        /\ Cardinality(Past(events, step)) = Cardinality(Verdicts(events))
    BY <1>1, <1>2, JudgedCount
  <1>7. IsFiniteSet(rest) /\ IsFiniteSet(Taken)
    BY <1>4, <1>6, FS_Subset
  <1> DEFINE others == Taken \cup Past(events, step)
  <1>8. IsFiniteSet(others) /\ Cardinality(others) <= Cardinality(Taken) + Cardinality(Past(events, step))
    BY <1>6, <1>7, CountsBelow
  <1>9. Preds(events) \in SUBSET (rest \cup others)
    BY <1>3
  <1> HIDE DEF others
  <1>10. /\ IsFiniteSet(rest \cup others)
         /\ Cardinality(rest \cup others) <= Cardinality(rest) + Cardinality(others)
    BY <1>7, <1>8, CountsBelow
  <1>11. Cardinality(Preds(events)) <= Cardinality(rest \cup others)
    BY <1>9, <1>10, FS_Subset
  <1>12. IsFiniteSet(DOMAIN tasks) /\ E!TasksOf(events) = DOMAIN tasks
    BY EachRecord DEF VerdictsInv
  <1>13. Cardinality(Taken) <= Cardinality(DOMAIN tasks)
    BY TakenCount
  <1>14. /\ Cardinality(Preds(events)) \in Nat /\ Cardinality(rest) \in Nat
         /\ Cardinality(Taken) \in Nat /\ Cardinality(Past(events, step)) \in Nat
         /\ Cardinality(others) \in Nat /\ Cardinality(rest \cup others) \in Nat
         /\ Cardinality(DOMAIN tasks) \in Nat
    BY <1>6, <1>7, <1>8, <1>10, <1>12, FS_CardinalityType
  <1> DEFINE left == Cardinality(Preds(events)) - Cardinality(Verdicts(events)) - Cardinality(DOMAIN tasks)
  <1>15. left <= Cardinality(rest) /\ left \in Int
    BY <1>6, <1>8, <1>10, <1>11, <1>13, <1>14
  <1>16. E!Expired(events) = E!NotNegative(left)
    <2>1. E!Where(events, "prediction_result") = Preds(events) /\ E!Verdicts(events) = Verdicts(events)
      BY DEF Preds, Verdicts, Hits, Diverged, E!Verdicts
    <2>2. E!Admitted(events) = Cardinality(DOMAIN tasks)
      BY <1>12, CountsSame DEF E!Admitted
    <2> QED BY <2>1, <2>2, CountsSame DEF E!Expired
  <1> HIDE DEF left
  <1>17. E!NotNegative(left) <= Cardinality(rest)
    BY <1>14, <1>15, NotNegativeBound
  <1> QED BY <1>5, <1>16, <1>17

\* expired_unvalidated never claims a prediction that was admitted or judged.
THEOREM ExpiredAlwaysWithin ==
  TraceSpec => []ExpiredWithin
  <1> QED BY ExpiredMeets, VerdictsInvariant, PTL

-------------------------------------------------------------------------------
(* What a step leaves of the tasks.                                        *)

\* A task keeps its resource, its checkpoint, its start and its landing.
TasksGrow ==
    /\ DOMAIN tasks \subseteq DOMAIN tasks'
    /\ \A k \in DOMAIN tasks : /\ tasks'[k].rid = tasks[k].rid /\ tasks'[k].ckpt = tasks[k].ckpt
                               /\ tasks'[k].started = tasks[k].started
                               /\ tasks'[k].lands = tasks[k].lands

LEMMA TasksGrowTool ==
  ASSUME NEW tool \in Tool, NEW predicts, NEW admitted, ToolTells(tool, predicts, admitted)
  PROVE  TasksGrow
  <1>1. SameTasks(tasks, Judge(tool).tasks)
    BY DEF ToolTells, Judged
  <1>2. /\ tasks' = Ahead(tool, predicts, admitted)[1]
        /\ DOMAIN Judge(tool).tasks \subseteq DOMAIN tasks'
        /\ \A k \in DOMAIN Judge(tool).tasks : tasks'[k] = Judge(tool).tasks[k]
    BY DEF ToolTells, AheadTells
  <1> QED BY <1>1, <1>2 DEF TasksGrow, SameTasks, SameTask

LEMMA TasksGrowNext ==
  ASSUME Typed, Stamped, Kept(events, tasks), LagsMet, [TraceNext]_vars
  PROVE  TasksGrow
  <1>1. CASE UNCHANGED vars
    BY <1>1 DEF TasksGrow, vars
  <1>2. ASSUME NEW k \in DOMAIN tasks, PollReports(k)
        PROVE  TasksGrow
    <2>1. ReportTells(k)
      BY <1>2, PollReportsTells
    <2> QED BY <2>1 DEF ReportTells, TasksGrow
  <1>3. CASE PlannerStarts \/ PlannerEnds
    <2>1. \E e, rid, load : Staged(e, rid, load)
      BY <1>3, PlannerStartsTells, PlannerEndsTells
    <2>2. \E rid, load, r : Scheduled(tasks, rid, 0, load, r) /\ tasks' = r[1]
      BY <2>1 DEF Staged
    <2> QED BY <2>2 DEF Scheduled, TasksGrow
  <1>4. CASE WorkerGate
    <2>1. SameTasks(tasks, tasks')
      BY <1>4, WorkerGateTells DEF GateTells
    <2> QED BY <2>1 DEF SameTasks, SameTask, TasksGrow
  <1>5. ASSUME NEW tool \in Tool, NEW predicts \in BOOLEAN, NEW admitted \in BOOLEAN,
               ToolStarts(tool, predicts, admitted)
        PROVE  TasksGrow
    BY <1>5, ToolStartsTells, TasksGrowTool
  <1>6. CASE Apart \/ Tick
    <2>1. tasks' = tasks
      BY <1>6, ApartTells DEF Tick
    <2> QED BY <2>1 DEF TasksGrow
  <1> QED BY <1>1, <1>2, <1>3, <1>4, <1>5, <1>6 DEF TraceNext, Workflow, Apart

\* The trace grows at its end in every step.
LEMMA EventsGrow ==
  ASSUME Typed, Stamped, Kept(events, tasks), LagsMet, [TraceNext]_vars
  PROVE  \A type : /\ E!Where(events, type) \subseteq E!Where(events', type)
                   /\ \A i \in E!Where(events, type) : events'[i] = events[i]
  <1>1. Grew(EventType)
    <2>1. CASE PlannerStarts \/ PlannerEnds
      BY <2>1, PlannerGrew, GrewAny
    <2>2. CASE WorkerGate
      BY <2>2, GateGrew, GrewAny
    <2>3. CASE \E tool \in Tool, p \in BOOLEAN, a \in BOOLEAN : ToolStarts(tool, p, a)
      BY <2>3, ToolGrew, GrewAny
    <2>4. CASE (\E k \in DOMAIN tasks : TakesCalculator(k)) \/ LoadedItself
      BY <2>4, SimpleTells, GrewAny
    <2>5. CASE Grew({"worker_swap_wait", "aggregator_swap_wait", "tool_end", "chain_start", "chain_end",
                     "prefetch_completed"})
      BY <2>5, GrewAny
    <2> QED BY <2>1, <2>2, <2>3, <2>4, <2>5, StepGrew
  <1>2. PICK new : Fresh(new, EventType) /\ events' = events \o new
    BY <1>1 DEF Grew
  <1>3. /\ DOMAIN events \subseteq DOMAIN events'
        /\ \A i \in DOMAIN events : events'[i] = events[i]
    <2>1. events \in Seq(Event)
      BY DEF Stamped
    <2> QED BY <1>2, <2>1, FreshPlace
  <1> QED BY <1>3 DEF E!Where

\* What a tool's start leaves of the calls.
LEMMA CallsOfTool ==
  ASSUME Typed, Stamped, NEW tool \in Tool, NEW predicts, NEW admitted,
         ToolTells(tool, predicts, admitted)
  PROVE  \E m \in Nat : /\ Calls(events') = Calls(events) \cup {m} /\ events'[m].what = tool
                        /\ m \notin Calls(events)
                        /\ \A c \in Calls(events) : c < m /\ c \in Nat /\ events'[c] = events[c]
  <1> DEFINE ev1 == AtCall(tool)
             ev2 == AtVerdict(tool)
             ev3 == AtPrediction(tool, predicts)
             calls == {"tool_call"}
  <1>1. PICK m \in Nat : /\ Calls(ev1) = Calls(events) \cup {m} /\ m \notin Calls(events)
                         /\ ev1[m].what = tool
                         /\ \A c \in Calls(events) : c < m /\ c \in Nat /\ ev1[c] = events[c]
    BY CalledTells DEF ToolTells
  <1>2. /\ Fresh(Judge(tool).events, VerdictTypes) /\ ev2 = ev1 \o Judge(tool).events
        /\ Fresh(MadeEvents(tool, predicts), {"prediction_result", "checkpoint_created"})
        /\ ev3 = ev2 \o MadeEvents(tool, predicts)
        /\ Fresh(Ahead(tool, predicts, admitted)[2], {"prefetch_decision", "prefetch_started"})
        /\ events' = ev3 \o Ahead(tool, predicts, admitted)[2]
        /\ ev1 \in Seq(Event) /\ ev2 \in Seq(Event) /\ ev3 \in Seq(Event)
    BY DEF ToolTells, Judged, AheadTells, AtVerdict, AtPrediction, VerdictTypes
  <1>3. /\ VerdictTypes \cap calls = {} /\ {"prediction_result", "checkpoint_created"} \cap calls = {}
        /\ {"prefetch_decision", "prefetch_started"} \cap calls = {} /\ "tool_call" \in calls
    BY DEF VerdictTypes
  <1> HIDE DEF ev1, ev2, ev3, calls
  <1>4. Same(ev1, ev2, calls)
    BY <1>2, <1>3, FreshSame
  <1>5. Same(ev2, ev3, calls)
    BY <1>2, <1>3, FreshSame
  <1>6. Same(ev3, events', calls)
    BY <1>2, <1>3, FreshSame
  <1>7. Calls(events') = Calls(ev1) /\ \A c \in Calls(ev1) : events'[c] = ev1[c]
    BY <1>3, <1>4, <1>5, <1>6 DEF Same, Calls
  <1> QED BY <1>1, <1>7

\* Whoever calls run_ase has a calculator: of a prefetch, or loaded from disk.
MaceOf(ts) == {k \in DOMAIN ts : ts[k].rid = "mace_model"}
FromDisk(ev) == \E i \in Loads(ev) : ev[i].what = "disk"

CallsPaid ==
    (\E c \in Calls(events) : events[c].what = "run_ase") =>
        pc \in {"loading", "disk"} \/ MaceOf(tasks) # {} \/ FromDisk(events)

LEMMA PaidNext ==
  ASSUME Typed, Stamped, Kept(events, tasks), LagsMet, CallsPaid, [TraceNext]_vars
  PROVE  CallsPaid'
  <1>1. MaceOf(tasks) # {} => MaceOf(tasks') # {}
    BY TasksGrowNext DEF TasksGrow, MaceOf
  <1>2. FromDisk(events) => FromDisk(events')
    BY EventsGrow DEF FromDisk, Loads
  <1>3. ASSUME Calls(events') = Calls(events), \A c \in Calls(events) : events'[c] = events[c],
               pc \in {"loading", "disk"} => \/ pc' \in {"loading", "disk"} \/ MaceOf(tasks) # {}
                                             \/ FromDisk(events')
        PROVE  CallsPaid'
    BY <1>1, <1>2, <1>3 DEF CallsPaid
  <1>4. CASE PlannerStarts \/ PlannerEnds
    <2>1. pc \notin {"loading", "disk"}
      BY <1>4, Moves
    <2>2. PICK e, rid, load : e.type \in {"chain_start", "chain_end"} /\ Staged(e, rid, load)
      BY <1>4, PlannerStartsTells, PlannerEndsTells DEF Tracked
    <2>3. Same(events, events', GuardTypes \ {"prediction_result"})
      BY <2>2, PredictionsStaged
    <2>4. "tool_call" \in GuardTypes \ {"prediction_result"}
      BY DEF GuardTypes
    <2>5. Calls(events') = Calls(events) /\ \A c \in Calls(events) : events'[c] = events[c]
      BY <2>3, <2>4 DEF Same, Calls
    <2> QED BY <1>3, <2>1, <2>5
  <1>5. ASSUME NEW tool \in Tool, NEW predicts \in BOOLEAN, NEW admitted \in BOOLEAN,
               ToolStarts(tool, predicts, admitted)
        PROVE  CallsPaid'
    <2>1. pc = "worker" /\ pc' = IF NeedsCalculator(tool) THEN "loading" ELSE "tool"
      BY <1>5 DEF ToolStarts, Leave, Enter
    <2>2. PICK m \in Nat : /\ Calls(events') = Calls(events) \cup {m} /\ events'[m].what = tool
                           /\ \A c \in Calls(events) : events'[c] = events[c]
      BY <1>5, ToolStartsTells, CallsOfTool
    <2>3. CASE NeedsCalculator(tool)
      BY <2>1, <2>3 DEF CallsPaid
    <2>4. CASE ~NeedsCalculator(tool)
      <3>1. tool # "run_ase"
        BY <2>4 DEF NeedsCalculator
      <3>2. (\E c \in Calls(events') : events'[c].what = "run_ase") =>
               \E c \in Calls(events) : events[c].what = "run_ase"
        BY <2>2, <3>1
      <3> QED BY <1>1, <1>2, <2>1, <3>2 DEF CallsPaid
    <2> QED BY <2>3, <2>4
  <1>6. CASE /\ ~PlannerStarts /\ ~PlannerEnds
             /\ ~\E tool \in Tool, p \in BOOLEAN, a \in BOOLEAN : ToolStarts(tool, p, a)
    <2>1. Same(events, events', GuardTypes) /\ "tool_call" \in GuardTypes
      BY <1>6, GuardUntouched DEF GuardTypes
    <2>2. Calls(events') = Calls(events) /\ \A c \in Calls(events) : events'[c] = events[c]
      BY <2>1 DEF Same, Calls
    <2>3. CASE \E k \in DOMAIN tasks : TakesCalculator(k)
      <3>1. MaceOf(tasks) # {}
        BY <2>3 DEF TakesCalculator, Cached, MaceOf
      <3> QED BY <1>3, <2>2, <3>1
    <2>4. CASE LoadedItself
      <3> DEFINE e == Timed("mace_load", "disk", clock - since)
      <3>1. clock \in Nat /\ events \in Seq(Event) /\ clock - since \in Int
        BY DEF Typed, Stamped
      <3>2. events' = events \o <<e>>
        BY <2>4 DEF LoadedItself, HasCalculator, Emit
      <3>3. e \in Event
        <4>1. "mace_load" \in {"mace_load", "tool_end"} /\ "disk" \in {"prefetch_cache", "disk", None}
          OBVIOUS
        <4> QED BY <3>1, <4>1, TrackedWritten
      <3>4. e.type = "mace_load" /\ e.what = "disk"
        BY DEF Timed
      <3> HIDE DEF e
      <3>5. Added(events, events', e)
        BY <3>1, <3>2, <3>3, OneAdded
      <3>6. FromDisk(events')
        BY <3>4, <3>5 DEF Added, FromDisk, Loads, EventType
      <3> QED BY <1>3, <2>2, <3>6
    <2>5. CASE ~(\E k \in DOMAIN tasks : TakesCalculator(k)) /\ ~LoadedItself
      <3>1. UNCHANGED vars => pc' = pc
        BY DEF vars
      <3>2. pc \in {"loading", "disk"} => pc' \in {"loading", "disk"}
        BY <1>6, <2>5, <3>1, Moves DEF TraceNext, Workflow
      <3> QED BY <1>3, <2>2, <3>2
    <2> QED BY <2>3, <2>4, <2>5
  <1> QED BY <1>4, <1>5, <1>6

LEMMA PaidInit ==
  ASSUME TraceInit
  PROVE  CallsPaid
  <1>1. Calls(events) = {}
    BY DEF TraceInit, Calls, E!Where
  <1> QED BY <1>1 DEF CallsPaid

PaidInv == RunInv /\ CallsPaid

\* Once a tool has called for a calculator, one was prefetched or its load is in
\* the trace or under way (_load_calc() of ensemble_tools.py).
THEOREM PaidInvariant ==
  TraceSpec => []PaidInv
  <1>1. TraceInit => PaidInv
    BY RunInvInit, PaidInit DEF PaidInv
  <1>2. PaidInv /\ [TraceNext]_vars => PaidInv'
    BY RunInvNext, PaidNext DEF PaidInv, RunInv
  <1> QED BY <1>1, <1>2, PTL DEF TraceSpec

LEMMA MissedMeets ==
  ASSUME PaidInv
  PROVE  MissedPaid
  <1> SUFFICES ASSUME Ended, "mace_model" \in E!Missed(events)
               PROVE  \E i \in E!Where(events, "mace_load") : events[i].what = "disk"
    BY DEF MissedPaid
  <1>1. ConsumerOf["mace_model"] = {"run_ase"}
    BY DEF ConsumerOf
  <1>2. \E c \in Calls(events) : events[c].what = "run_ase"
    BY <1>1 DEF E!Missed, Calls
  <1>3. \A k \in DOMAIN tasks : tasks[k].rid # "mace_model"
    <2>1. \A k \in E!TasksOf(events) : E!TaskRecord(events, k).rid # "mace_model"
      BY DEF E!Missed
    <2> QED BY <2>1, EachRecord DEF PaidInv, EvalRecord
  <1>4. pc = "ended"
    BY DEF Ended
  <1> QED BY <1>2, <1>3, <1>4 DEF PaidInv, CallsPaid, MaceOf, FromDisk, Loads

\* missed_opportunities names MACE only if the workflow paid for it with a load
\* from disk, and never in a run whose calculators were all prefetched.
THEOREM MissedAlwaysPaid ==
  TraceSpec => []MissedPaid
  <1> QED BY MissedMeets, PaidInvariant, PTL

-------------------------------------------------------------------------------
(* What the planner has prefetched, the worker's gate uses.                *)

Early == {"begin", "planner", "planned"}

\* Up to the gate each resource of the worker has one task, in progress;
\* after it no task of theirs is left that could prove wrong.
PlannedAt(activity, ts) ==
    /\ activity = "begin" => DOMAIN ts = {}
    /\ activity = "planner" => \A k \in DOMAIN ts : ts[k].rid = "model_cache"
    /\ activity \in Early => \A k \in DOMAIN ts :
          /\ ts[k].status = "in_progress" /\ ts[k].rid # "mace_model"
          /\ \A x \in DOMAIN ts : ts[x].rid = ts[k].rid => x = k
    /\ activity \notin Early => \A k \in DOMAIN ts : ts[k].rid # "mace_model" => ts[k].status = "used"

PlannedTasks == PlannedAt(pc, tasks)

LEMMA PlannedAhead ==
  ASSUME Typed, Kept(events, tasks), PlannedTasks, PlannerStarts \/ PlannerEnds
  PROVE  PlannedTasks'
  <1>1. CASE PlannerStarts
    <2>1. pc = "begin" /\ pc' = "planner" /\ DOMAIN tasks = {}
      BY <1>1, Moves DEF PlannedTasks, PlannedAt
    <2>2. PICK e, r : Scheduled(tasks, "model_cache", 0, pace.cache, r) /\ tasks' = r[1]
      BY <1>1, PlannerStartsTells DEF Staged
    <2>3. \A k \in DOMAIN tasks' : /\ tasks'[k].rid = "model_cache" /\ tasks'[k].status = "in_progress"
                                   /\ \A x \in DOMAIN tasks' : x = k
      BY <2>1, <2>2 DEF Scheduled
    <2>4. PlannedAt(pc', tasks')
      BY <2>1, <2>3 DEF PlannedAt, Early
    <2> QED BY <2>4 DEF PlannedTasks
  <1>2. CASE PlannerEnds
    <2>1. pc = "planner" /\ pc' = "planned"
      BY <1>2, Moves
    <2>2. PICK e, r : Scheduled(tasks, "vllm_model", 0, pace.worker, r) /\ tasks' = r[1]
      BY <1>2, PlannerEndsTells DEF Staged
    <2>3. \A k \in DOMAIN tasks : /\ tasks[k].rid = "model_cache" /\ tasks[k].status = "in_progress"
                                  /\ \A x \in DOMAIN tasks : x = k
      BY <2>1 DEF PlannedTasks, PlannedAt, Early
    <2>4. /\ DOMAIN tasks \subseteq DOMAIN tasks' /\ \A k \in DOMAIN tasks : tasks'[k] = tasks[k]
          /\ \A k \in DOMAIN tasks' \ DOMAIN tasks :
                /\ tasks'[k].rid = "vllm_model" /\ tasks'[k].status = "in_progress"
                /\ \A x \in DOMAIN tasks' \ DOMAIN tasks : x = k
      BY <2>2 DEF Scheduled
    <2>5. \A k \in DOMAIN tasks' :
             /\ tasks'[k].status = "in_progress" /\ tasks'[k].rid # "mace_model"
             /\ \A x \in DOMAIN tasks' : tasks'[x].rid = tasks'[k].rid => x = k
      <3> TAKE k \in DOMAIN tasks'
      <3>1. CASE k \in DOMAIN tasks
        <4>1. tasks'[k].rid = "model_cache" /\ tasks'[k].status = "in_progress"
          BY <2>3, <2>4, <3>1
        <4>2. \A x \in DOMAIN tasks' : tasks'[x].rid = "model_cache" => x = k
          BY <2>3, <2>4, <3>1
        <4> QED BY <4>1, <4>2
      <3>2. CASE k \notin DOMAIN tasks
        <4>1. tasks'[k].rid = "vllm_model" /\ tasks'[k].status = "in_progress"
          BY <2>4, <3>2
        <4>2. \A x \in DOMAIN tasks' : tasks'[x].rid = "vllm_model" => x = k
          BY <2>3, <2>4, <3>2
        <4> QED BY <4>1, <4>2
      <3> QED BY <3>1, <3>2
    <2>6. PlannedAt(pc', tasks')
      BY <2>1, <2>5 DEF PlannedAt, Early
    <2> QED BY <2>6 DEF PlannedTasks
  <1> QED BY <1>1, <1>2

LEMMA PlannedGate ==
  ASSUME Typed, Kept(events, tasks), PlannedTasks, BaselineTold, WorkerGate
  PROVE  PlannedTasks'
  <1>1. pc = "planned" /\ pc' = "worker_gate"
    BY Moves
  <1>2. GateTells
    BY WorkerGateTells
  <1>3. \A k \in DOMAIN tasks : /\ tasks[k].status = "in_progress" /\ tasks[k].rid # "mace_model"
                                /\ \A x \in DOMAIN tasks : tasks[x].rid = tasks[k].rid => x = k
    BY <1>1 DEF PlannedTasks, PlannedAt, Early
  <1>4. \A k \in DOMAIN tasks' : tasks'[k].status = "used"
    <2> TAKE k \in DOMAIN tasks'
    <2>1. k \in DOMAIN tasks
      BY <1>2 DEF GateTells, SameTasks
    <2>2. tasks[k] \in Task /\ k \in Nat \ {0}
      <3>1. tasks \in Seq(Task)
        BY DEF Kept, TasksTyped
      <3> QED BY <2>1, <3>1, ElementOfSeq, LenProperties
    <2>3. tasks[k].rid \in {"model_cache", "vllm_model"}
      BY <1>3, <2>1, <2>2 DEF Task, Resource
    <2>4. IsLatest(k, tasks, tasks[k].rid)
      BY <1>3, <2>1, <2>2 DEF IsLatest
    <2>5. mode # "baseline"
      BY <2>1 DEF BaselineTold
    <2> QED BY <1>2, <1>3, <2>1, <2>3, <2>4, <2>5 DEF GateTells
  <1>5. PlannedAt(pc', tasks')
    BY <1>1, <1>4 DEF PlannedAt, Early
  <1> QED BY <1>5 DEF PlannedTasks

\* A tool consumes and revokes calculators only.
LEMMA PlannedTool ==
  ASSUME Typed, Kept(events, tasks), PlannedTasks, NEW tool \in Tool, NEW predicts \in BOOLEAN,
         NEW admitted \in BOOLEAN, ToolStarts(tool, predicts, admitted)
  PROVE  PlannedTasks'
  <1>1. pc = "worker" /\ pc' \in {"loading", "tool"}
    BY Moves
  <1>2. ToolTells(tool, predicts, admitted)
    BY ToolStartsTells
  <1> DEFINE us == Judge(tool).tasks
  <1>3. \A k \in DOMAIN tasks : tasks[k].rid # "mace_model" => tasks[k].status = "used"
    BY <1>1 DEF PlannedTasks, PlannedAt, Early
  <1>4. /\ DOMAIN us = DOMAIN tasks
        /\ \A k \in DOMAIN us : us[k].rid # "mace_model" => us[k].status = "used"
    <2>1. SameTasks(tasks, us)
      BY <1>2 DEF ToolTells, Judged
    <2>2. \/ us = tasks
          \/ \E c : Consumed(tasks, "mace_model", <<us, c>>)
          \/ \E c : Cancelled(tasks, pending, <<us, c>>)
      BY <1>2 DEF ToolTells, Judged
    <2> HIDE DEF us
    <2>3. CASE us = tasks
      BY <1>3, <2>3
    <2>4. ASSUME NEW c, Consumed(tasks, "mace_model", <<us, c>>)
          PROVE  \A k \in DOMAIN us : us[k].rid # "mace_model" => us[k].status = "used"
      BY <1>3, <2>4 DEF Consumed, SameTask
    <2>5. ASSUME NEW c, Cancelled(tasks, pending, <<us, c>>)
          PROVE  \A k \in DOMAIN us : us[k].rid # "mace_model" => us[k].status = "used"
      BY <1>3, <2>5 DEF Cancelled, SameTask
    <2> QED BY <2>1, <2>2, <2>3, <2>4, <2>5 DEF SameTasks
  <1>5. \A k \in DOMAIN tasks' : tasks'[k].rid # "mace_model" => tasks'[k].status = "used"
    <2>1. /\ \A k \in DOMAIN us : tasks'[k] = us[k]
          /\ \A k \in DOMAIN tasks' \ DOMAIN us : tasks'[k].rid = "mace_model"
      BY <1>2 DEF ToolTells, AheadTells
    <2> HIDE DEF us
    <2> QED BY <1>4, <2>1
  <1>6. PlannedAt(pc', tasks')
    BY <1>1, <1>5 DEF PlannedAt, Early
  <1> QED BY <1>6 DEF PlannedTasks

LEMMA PlannedNext ==
  ASSUME Typed, Stamped, Kept(events, tasks), LagsMet, BaselineTold, PlannedTasks, [TraceNext]_vars
  PROVE  PlannedTasks'
  <1>1. CASE UNCHANGED vars
    <2>1. pc' = pc /\ tasks' = tasks
      BY <1>1 DEF vars
    <2> QED BY <2>1 DEF PlannedTasks
  <1>2. ASSUME NEW k \in DOMAIN tasks, PollReports(k)
        PROVE  PlannedTasks'
    <2>1. ReportTells(k) /\ pc' = pc
      BY <1>2, PollReportsTells DEF PollReports
    <2>2. PlannedAt(pc, tasks')
      BY <2>1 DEF ReportTells, PlannedTasks, PlannedAt
    <2> QED BY <2>1, <2>2 DEF PlannedTasks
  <1>3. CASE PlannerStarts \/ PlannerEnds
    BY <1>3, PlannedAhead
  <1>4. CASE WorkerGate
    BY <1>4, PlannedGate
  <1>5. ASSUME NEW tool \in Tool, NEW predicts \in BOOLEAN, NEW admitted \in BOOLEAN,
               ToolStarts(tool, predicts, admitted)
        PROVE  PlannedTasks'
    BY <1>5, PlannedTool
  <1>6. CASE Tick
    <2>1. pc' = pc /\ tasks' = tasks
      BY <1>6 DEF Tick
    <2> QED BY <2>1 DEF PlannedTasks
  <1>7. CASE Apart
    <2>1. tasks' = tasks
      BY <1>7, ApartTells
    <2>2. pc \notin Early /\ pc' \notin Early
      BY <1>7, Moves DEF Apart, Early
    <2>3. PlannedAt(pc', tasks')
      BY <2>1, <2>2 DEF PlannedTasks, PlannedAt, Early
    <2> QED BY <2>3 DEF PlannedTasks
  <1> QED BY <1>1, <1>2, <1>3, <1>4, <1>5, <1>6, <1>7 DEF TraceNext, Workflow, Apart

LEMMA PlannedInit ==
  ASSUME TraceInit
  PROVE  PlannedTasks
  BY DEF TraceInit, PlannedTasks, PlannedAt, Early

-------------------------------------------------------------------------------
(* The conservative steps after a divergence.                              *)

\* A divergence asks for its steps; what tells of it is not later than that.
Asked(ev, last) == \A d \in Diverged(ev) : ev[d].ckpt + 1 + Conservative <= last

\* A tool takes time: what an earlier one prefetched was started before.
Over(activity, ts, end, now) ==
    /\ activity = "tool" => \A k \in MaceOf(ts) : ts[k].started < end
    /\ activity = "worker" => \A k \in MaceOf(ts) : ts[k].started < now

\* What is started after a divergence is of a call beyond its steps.
StartedBeyond(ev, ts) ==
    \A d \in Diverged(ev), k \in MaceOf(ts) :
        ts[k].started >= ev[d].at => ts[k].ckpt > ev[d].ckpt + 1 + Conservative

\* No calculator is prefetched before the worker's first turn.
NoneBefore(activity, ev, ts) == activity \in BeforeGate => Diverged(ev) = {} /\ MaceOf(ts) = {}

Windowed ==
    /\ until <= step + Conservative /\ Asked(events, until) /\ Over(pc, tasks, busy, clock)
    /\ StartedBeyond(events, tasks) /\ NoneBefore(pc, events, tasks)

\* Every element of two lists in a row is one of the first or of the second.
LEMMA ElementsOf ==
  ASSUME NEW a \in Seq(Event), NEW b \in Seq(Event), NEW i \in DOMAIN (a \o b)
  PROVE  (\E j \in DOMAIN a : (a \o b)[i] = a[j]) \/ (\E j \in DOMAIN b : (a \o b)[i] = b[j])
  BY Longer

\* A call tells of a divergence from the checkpoint that is pending.
LEMMA VerdictAt ==
  ASSUME Typed, NEW tool \in Tool, Judged(tool, Judge(tool)), NEW x \in DOMAIN Judge(tool).events,
         Judge(tool).events[x].type = "divergence_detected"
  PROVE  Judge(tool).until = step + 1 + Conservative /\ Judge(tool).events[x].ckpt = pending
  <1> DEFINE j == Judge(tool)
  <1>1. step \in Nat /\ pending \in Nat /\ clock \in Nat
    <2>1. MaxTools \in Nat
      BY TraceConstants
    <2> QED BY <2>1 DEF Typed
  <1>2. CASE pending = 0
    BY <1>2 DEF Judged
  <1>3. CASE pending # 0 /\ tool = "run_ase"
    <2> DEFINE e == PredictionValidated(pending)
    <2>1. PICK c : Consumed(tasks, "mace_model", <<j.tasks, c>>) /\ j.events = <<e>> \o c
      BY <1>3 DEF Judged
    <2>2. e \in Event
      BY <1>1, GuardEventsWritten
    <2>3. e.type = "prediction_validated"
      BY DEF PredictionValidated
    <2>4. c \in Seq(Event) /\ \A y \in DOMAIN c : c[y].type # "divergence_detected"
      BY <2>1 DEF Consumed, Quiet, EventType
    <2> HIDE DEF e, j
    <2>5. <<e>> \in Seq(Event) /\ \A y \in DOMAIN <<e>> : <<e>>[y] = e
      BY <2>2
    <2>6. x \in DOMAIN (<<e>> \o c) /\ (<<e>> \o c)[x].type = "divergence_detected"
      BY <2>1 DEF j
    <2> QED BY <2>3, <2>4, <2>5, <2>6, ElementsOf
  <1>4. CASE pending # 0 /\ tool # "run_ase"
    <2> DEFINE e == DivergenceDetected(pending)
               b == <<ConservativeMode>>
    <2>1. PICK c : /\ Cancelled(tasks, pending, <<j.tasks, c>>) /\ j.events = (<<e>> \o c) \o b
      BY <1>4 DEF Judged
    <2>2. e \in Event /\ ConservativeMode \in Event
      BY <1>1, GuardEventsWritten
    <2>3. e.ckpt = pending /\ ConservativeMode.type = "conservative_mode"
      BY DEF DivergenceDetected, ConservativeMode
    <2>4. c \in Seq(Event) /\ \A y \in DOMAIN c : c[y].type # "divergence_detected"
      BY <2>1 DEF Cancelled, Quiet, EventType
    <2>5. b \in Seq(Event) /\ \A y \in DOMAIN b : b[y].type # "divergence_detected"
      BY <2>2, <2>3
    <2>6. j.until = step + 1 + Conservative
      BY <1>4 DEF Judged
    <2> HIDE DEF e, j, b
    <2>7. <<e>> \in Seq(Event) /\ \A y \in DOMAIN <<e>> : <<e>>[y] = e
      BY <2>2
    <2> DEFINE a == <<e>> \o c
    <2>8. a \in Seq(Event)
      BY <2>4, <2>7, Longer
    <2>9. \A y \in DOMAIN a : a[y].type = "divergence_detected" => a[y].ckpt = pending
      BY <2>3, <2>4, <2>7, ElementsOf
    <2> HIDE DEF a
    <2>10. x \in DOMAIN (a \o b) /\ (a \o b)[x].type = "divergence_detected" /\ j.events[x] = (a \o b)[x]
      BY <2>1 DEF j, a
    <2>11. (a \o b)[x].ckpt = pending
      BY <2>5, <2>8, <2>9, <2>10, ElementsOf
    <2> QED BY <2>6, <2>10, <2>11 DEF j
  <1> QED BY <1>2, <1>3, <1>4

\* The divergences of a trace after a tool's start.
LEMMA DivergedOfTool ==
  ASSUME Typed, Stamped, NEW tool \in Tool, NEW predicts, NEW admitted,
         ToolTells(tool, predicts, admitted), NEW d \in Diverged(events')
  PROVE  \/ d \in Diverged(events) /\ events'[d] = events[d]
         \/ /\ events'[d].ckpt = pending /\ events'[d].at = clock
            /\ Judge(tool).until = step + 1 + Conservative
  <1> DEFINE ev0 == events \o Called(tool)
             ev1 == AtCall(tool)
             ev2 == AtVerdict(tool)
             ev3 == AtPrediction(tool, predicts)
             new == Judge(tool).events
             some == {"divergence_detected"}
  <1>1. /\ Fresh(Called(tool), {"chain_end", "tool_call"}) /\ ev1 = ev0 \o BootEvents(tool)
        /\ Fresh(BootEvents(tool), {"aggregator_prefetch_start"})
        /\ Fresh(new, VerdictTypes) /\ ev2 = ev1 \o new
        /\ Fresh(MadeEvents(tool, predicts), {"prediction_result", "checkpoint_created"})
        /\ ev3 = ev2 \o MadeEvents(tool, predicts)
        /\ Fresh(Ahead(tool, predicts, admitted)[2], {"prefetch_decision", "prefetch_started"})
        /\ events' = ev3 \o Ahead(tool, predicts, admitted)[2] /\ events \in Seq(Event)
        /\ ev1 \in Seq(Event) /\ ev2 \in Seq(Event) /\ ev3 \in Seq(Event)
    BY DEF ToolTells, Judged, AheadTells, AtCall, AtVerdict, AtPrediction, VerdictTypes, Stamped
  <1>2. /\ {"chain_end", "tool_call"} \cap some = {} /\ {"aggregator_prefetch_start"} \cap some = {}
        /\ {"prediction_result", "checkpoint_created"} \cap some = {}
        /\ {"prefetch_decision", "prefetch_started"} \cap some = {} /\ "divergence_detected" \in some
    OBVIOUS
  <1>3. Judged(tool, Judge(tool))
    BY DEF ToolTells
  <1>4. \A x \in DOMAIN new : new[x].type = "divergence_detected" =>
           new[x].ckpt = pending /\ Judge(tool).until = step + 1 + Conservative
    BY <1>3, VerdictAt
  <1>5. \A x \in DOMAIN new : new[x].at = clock
    BY <1>1 DEF Fresh
  <1> HIDE DEF ev0, ev1, ev2, ev3, new, some
  <1>6. Same(events, ev0, some) /\ ev0 \in Seq(Event)
    BY <1>1, <1>2, FreshSame DEF ev0
  <1>7. Same(ev0, ev1, some)
    BY <1>1, <1>2, <1>6, FreshSame
  <1>8. Same(ev2, ev3, some)
    BY <1>1, <1>2, FreshSame
  <1>9. Same(ev3, events', some)
    BY <1>1, <1>2, FreshSame
  <1>10. d \in Diverged(ev2) /\ events'[d] = ev2[d]
    BY <1>2, <1>8, <1>9 DEF Same, Diverged
  <1>11. \/ d \in DOMAIN ev1 /\ ev2[d] = ev1[d]
         \/ \E x \in DOMAIN new : ev2[d] = new[x]
    <2>1. d \in DOMAIN (ev1 \o new)
      BY <1>1, <1>10 DEF Diverged, E!Where
    <2>2. new \in Seq(Event) /\ ev1 \in Seq(Event)
      BY <1>1 DEF Fresh
    <2>3. \/ d \in DOMAIN ev1
          \/ d - Len(ev1) \in DOMAIN new /\ (ev1 \o new)[d] = new[d - Len(ev1)]
      BY <2>1, <2>2, Longer
    <2>4. d \in DOMAIN ev1 => (ev1 \o new)[d] = ev1[d]
      BY <2>2, Longer
    <2>5. ev2 = ev1 \o new
      BY <1>1
    <2> QED BY <2>3, <2>4, <2>5
  <1>12. ev2[d].type = "divergence_detected"
    BY <1>10 DEF Diverged, E!Where
  <1>13. CASE d \in DOMAIN ev1 /\ ev2[d] = ev1[d]
    <2>1. d \in Diverged(ev1)
      BY <1>12, <1>13 DEF Diverged, E!Where
    <2>2. d \in Diverged(events) /\ ev1[d] = events[d]
      BY <1>2, <1>6, <1>7, <2>1 DEF Same, Diverged
    <2> QED BY <1>10, <1>13, <2>2
  <1>14. CASE \E x \in DOMAIN new : ev2[d] = new[x]
    BY <1>4, <1>5, <1>10, <1>12, <1>14
  <1> QED BY <1>11, <1>13, <1>14

\* The tasks of the calculators after a tool's start.
LEMMA MaceOfTool ==
  ASSUME Typed, Stamped, Kept(events, tasks), NEW tool \in Tool, NEW predicts \in BOOLEAN,
         NEW admitted \in BOOLEAN, ToolStarts(tool, predicts, admitted), NEW k \in MaceOf(tasks')
  PROVE  \/ /\ k \in MaceOf(tasks) /\ tasks'[k].started = tasks[k].started
            /\ tasks'[k].ckpt = tasks[k].ckpt
         \/ tasks'[k].started = clock /\ tasks'[k].ckpt = step + 1 /\ step + 1 > until'
  <1>1. ToolTells(tool, predicts, admitted) /\ until' = Judge(tool).until
    BY ToolStartsTells DEF ToolStarts
  <1>2. step \in Nat /\ until' \in Nat
    <2>1. MaxTools \in Nat
      BY TraceConstants
    <2> QED BY <1>1, <2>1 DEF Typed, ToolTells, Judged
  <1>3. TasksGrow
    BY <1>1, TasksGrowTool
  <1>4. CASE k \in DOMAIN tasks
    BY <1>3, <1>4 DEF TasksGrow, MaceOf
  <1>5. CASE k \notin DOMAIN tasks
    <2>1. k \in DOMAIN tasks' \ DOMAIN Judge(tool).tasks
      BY <1>1, <1>5 DEF MaceOf, ToolTells, Judged, SameTasks
    <2>2. Makes(tool, predicts) /\ tasks'[k].ckpt = step + 1 /\ tasks'[k].started = clock
      BY <1>1, <2>1 DEF ToolTells, AheadTells
    <2>3. ~(step + 1 <= until')
      BY <1>1, <2>2 DEF Makes, InConservative
    <2> QED BY <1>2, <2>2, <2>3
  <1> QED BY <1>4, <1>5

\* What is typed of divergences and calculators.
LEMMA WindowTypes ==
  ASSUME Typed, Stamped, Kept(events, tasks)
  PROVE  /\ \A d \in Diverged(events) : events[d].ckpt \in Nat /\ events[d].at \in Nat
         /\ \A k \in MaceOf(tasks) : /\ tasks[k].started \in Nat /\ tasks[k].ckpt \in Nat
                                     /\ tasks[k].started <= clock
         /\ clock \in Nat /\ step \in Nat /\ until \in Nat /\ pending \in 0 .. step /\ busy \in Nat
         /\ Conservative \in Nat
  <1>1. \A d \in Diverged(events) : events[d].ckpt \in Nat /\ events[d].at \in Nat
    <2> TAKE d \in Diverged(events)
    <2>1. events \in Seq(Event) /\ d \in DOMAIN events
      BY DEF Stamped, Diverged, E!Where
    <2>2. events[d] \in Event
      BY <2>1, ElementOfSeq, LenProperties
    <2> QED BY <2>1, <2>2, EventFields, GuardSets
  <1>2. \A k \in MaceOf(tasks) : /\ tasks[k].started \in Nat /\ tasks[k].ckpt \in Nat
                                 /\ tasks[k].started <= clock
    <2> TAKE k \in MaceOf(tasks)
    <2>1. k \in DOMAIN tasks
      BY DEF MaceOf
    <2>2. tasks[k] \in Task /\ tasks[k].started <= clock
      BY <2>1, TaskOf DEF Kept, TasksTyped, Consistent
    <2> QED BY <2>2 DEF Task
  <1>3. Conservative \in Nat /\ MaxTools \in Nat
    BY TraceConstants
  <1> QED BY <1>1, <1>2, <1>3 DEF Typed

LEMMA WindowTool ==
  ASSUME Typed, Stamped, Kept(events, tasks), Windowed, NEW tool \in Tool, NEW predicts \in BOOLEAN,
         NEW admitted \in BOOLEAN, ToolStarts(tool, predicts, admitted)
  PROVE  Windowed'
  <1>1. ToolTells(tool, predicts, admitted)
    BY ToolStartsTells
  <1>2. /\ pc = "worker" /\ pc' \in {"loading", "tool"} /\ step' = step + 1 /\ clock' = clock
        /\ until' = Judge(tool).until /\ (pc' = "tool" => busy' = clock + pace.tool)
    BY DEF ToolStarts, Leave, Enter
  <1>3. /\ \A d \in Diverged(events) : events[d].ckpt \in Nat /\ events[d].at \in Nat
        /\ \A k \in MaceOf(tasks) : /\ tasks[k].started \in Nat /\ tasks[k].ckpt \in Nat
                                    /\ tasks[k].started <= clock
        /\ clock \in Nat /\ step \in Nat /\ until \in Nat /\ pending \in 0 .. step /\ busy \in Nat
        /\ Conservative \in Nat
    BY WindowTypes
  <1>4. pace.tool \in Nat \ {0}
    BY PaceType DEF Typed
  <1>5. until' = until \/ until' = step + 1 + Conservative
    BY <1>1, <1>2 DEF ToolTells, Judged
  <1>6. until <= step + Conservative
    BY DEF Windowed
  <1>7. until' <= step' + Conservative /\ until <= until' /\ until' \in Nat
    BY <1>2, <1>3, <1>5, <1>6
  <1>8. \A d \in Diverged(events') :
           \/ d \in Diverged(events) /\ events'[d] = events[d]
           \/ events'[d].ckpt = pending /\ events'[d].at = clock /\ until' = step + 1 + Conservative
    BY <1>1, <1>2, DivergedOfTool
  <1>9. \A k \in MaceOf(tasks') :
           \/ /\ k \in MaceOf(tasks) /\ tasks'[k].started = tasks[k].started
              /\ tasks'[k].ckpt = tasks[k].ckpt
           \/ tasks'[k].started = clock /\ tasks'[k].ckpt = step + 1 /\ step + 1 > until'
    BY MaceOfTool
  <1>10. Asked(events', until')
    <2> SUFFICES ASSUME NEW d \in Diverged(events')
                 PROVE  events'[d].ckpt + 1 + Conservative <= until'
      BY DEF Asked
    <2>1. CASE d \in Diverged(events) /\ events'[d] = events[d]
      <3>1. events[d].ckpt + 1 + Conservative <= until
        BY <2>1 DEF Windowed, Asked
      <3> QED BY <1>3, <1>7, <2>1, <3>1
    <2>2. CASE events'[d].ckpt = pending /\ events'[d].at = clock /\ until' = step + 1 + Conservative
      BY <1>3, <2>2
    <2> QED BY <1>8, <2>1, <2>2
  <1>11. Over(pc', tasks', busy', clock')
    <2> SUFFICES ASSUME NEW k \in MaceOf(tasks'), pc' = "tool"
                 PROVE  tasks'[k].started < busy'
      BY <1>2 DEF Over
    <2>1. tasks'[k].started <= clock /\ tasks'[k].started \in Nat
      BY <1>3, <1>9
    <2> QED BY <1>2, <1>3, <1>4, <2>1
  <1>12. StartedBeyond(events', tasks')
    <2> SUFFICES ASSUME NEW d \in Diverged(events'), NEW k \in MaceOf(tasks'),
                        tasks'[k].started >= events'[d].at
                 PROVE  tasks'[k].ckpt > events'[d].ckpt + 1 + Conservative
      BY DEF StartedBeyond
    <2>1. CASE tasks'[k].started = clock /\ tasks'[k].ckpt = step + 1 /\ step + 1 > until'
      <3>1. events'[d].ckpt + 1 + Conservative <= until' /\ events'[d].ckpt \in Nat
        BY <1>3, <1>8, <1>10 DEF Asked
      <3> QED BY <1>3, <1>7, <2>1, <3>1
    <2>2. CASE /\ k \in MaceOf(tasks) /\ tasks'[k].started = tasks[k].started
               /\ tasks'[k].ckpt = tasks[k].ckpt
      <3>1. tasks[k].started < clock
        BY <1>2, <2>2 DEF Windowed, Over
      <3>2. d \in Diverged(events) /\ events'[d] = events[d]
        BY <1>3, <1>8, <2>2, <3>1
      <3> QED BY <2>2, <3>2 DEF Windowed, StartedBeyond
    <2> QED BY <1>9, <2>1, <2>2
  <1>13. NoneBefore(pc', events', tasks')
    BY <1>2 DEF NoneBefore, BeforeGate
  <1> QED BY <1>7, <1>10, <1>11, <1>12, <1>13 DEF Windowed

\* A step that changes neither the divergences nor the calculators' tasks.
LEMMA WindowKept ==
  ASSUME Windowed, UNCHANGED <<step, until>>,
         SameAt(events, events', Diverged(events), Diverged(events')),
         MaceOf(tasks') = MaceOf(tasks),
         \A k \in MaceOf(tasks) : tasks'[k].started = tasks[k].started /\ tasks'[k].ckpt = tasks[k].ckpt,
         Over(pc', tasks', busy', clock'), pc' \in BeforeGate => pc \in BeforeGate
  PROVE  Windowed'
  <1>1. Asked(events', until')
    BY DEF Windowed, Asked, SameAt
  <1>2. StartedBeyond(events', tasks')
    BY DEF Windowed, StartedBeyond, SameAt
  <1>3. NoneBefore(pc', events', tasks')
    BY DEF Windowed, NoneBefore, SameAt
  <1> QED BY <1>1, <1>2, <1>3 DEF Windowed

\* Where the time of the tools goes on.
LEMMA OverNext ==
  ASSUME Typed, Stamped, Kept(events, tasks), LagsMet, Windowed, [TraceNext]_vars,
         ~PlannerStarts, ~PlannerEnds,
         ~\E tool \in Tool, p \in BOOLEAN, a \in BOOLEAN : ToolStarts(tool, p, a),
         MaceOf(tasks') = MaceOf(tasks),
         \A k \in MaceOf(tasks) : tasks'[k].started = tasks[k].started
  PROVE  Over(pc', tasks', busy', clock')
  <1>1. /\ \A k \in MaceOf(tasks) : tasks[k].started \in Nat /\ tasks[k].started <= clock
        /\ clock \in Nat /\ busy \in Nat
    BY WindowTypes
  <1>2. pace.tool \in Nat \ {0}
    BY PaceType DEF Typed
  <1>3. ASSUME pc' = pc, busy' = busy, clock' \in {clock, clock + 1}
        PROVE  Over(pc', tasks', busy', clock')
    BY <1>1, <1>3 DEF Windowed, Over
  <1>4. ASSUME pc' \notin {"tool", "worker"}
        PROVE  Over(pc', tasks', busy', clock')
    BY <1>4 DEF Over
  <1>5. CASE UNCHANGED vars
    <2>1. pc' = pc /\ busy' = busy /\ clock' = clock
      BY <1>5 DEF vars
    <2> QED BY <1>3, <2>1
  <1>6. ASSUME NEW k \in DOMAIN tasks, PollReports(k)
        PROVE  Over(pc', tasks', busy', clock')
    <2>1. pc' = pc /\ busy' = busy /\ clock' = clock
      BY <1>6 DEF PollReports
    <2> QED BY <1>3, <2>1
  <1>7. CASE Tick
    <2>1. pc' = pc /\ busy' = busy /\ clock' = clock + 1
      BY <1>7 DEF Tick
    <2> QED BY <1>3, <2>1
  <1>8. CASE WorkerGate \/ LoadsItself \/ AggregatorGate \/ AggregatorReady \/ RunEnds
    <2>1. pc' \notin {"tool", "worker"}
      BY <1>8, Moves
    <2> QED BY <1>4, <2>1
  <1>9. CASE (\E k \in DOMAIN tasks : TakesCalculator(k)) \/ LoadedItself
    <2>1. pc' = "tool" /\ busy' = clock + pace.tool
      BY <1>9 DEF TakesCalculator, LoadedItself, HasCalculator, Enter
    <2> QED BY <1>1, <1>2, <2>1 DEF Over
  <1>10. CASE ToolEnds
    <2>1. pc = "tool" /\ pc' = "worker" /\ busy <= clock /\ clock' = clock
      BY <1>10 DEF ToolEnds, Leave, Enter
    <2> QED BY <1>1, <2>1 DEF Windowed, Over
  <1>11. CASE WorkerReady
    <2>1. pc = "worker_gate" /\ pc' = "worker"
      BY <1>11, Moves
    <2>2. MaceOf(tasks) = {}
      BY <2>1 DEF Windowed, NoneBefore, BeforeGate
    <2> QED BY <2>1, <2>2 DEF Over
  <1> QED BY <1>5, <1>6, <1>7, <1>8, <1>9, <1>10, <1>11 DEF TraceNext, Workflow

\* Which steps start a task.
LEMMA MaceStays ==
  ASSUME Typed, Stamped, Kept(events, tasks), LagsMet, [TraceNext]_vars,
         ~PlannerStarts, ~PlannerEnds,
         ~\E tool \in Tool, p \in BOOLEAN, a \in BOOLEAN : ToolStarts(tool, p, a)
  PROVE  /\ MaceOf(tasks') = MaceOf(tasks)
         /\ \A k \in MaceOf(tasks) : /\ tasks'[k].started = tasks[k].started
                                     /\ tasks'[k].ckpt = tasks[k].ckpt
  <1>1. TasksGrow
    BY TasksGrowNext
  <1>2. DOMAIN tasks' = DOMAIN tasks
    <2>1. CASE UNCHANGED vars \/ Tick
      BY <2>1 DEF vars, Tick
    <2>2. ASSUME NEW k \in DOMAIN tasks, PollReports(k)
          PROVE  DOMAIN tasks' = DOMAIN tasks
      BY <2>2, PollReportsTells DEF ReportTells
    <2>3. CASE WorkerGate
      BY <2>3, GateGrew
    <2>4. CASE Apart
      BY <2>4, ApartTells
    <2> QED BY <2>1, <2>2, <2>3, <2>4 DEF TraceNext, Workflow, Apart
  <1> QED BY <1>1, <1>2 DEF TasksGrow, MaceOf

LEMMA WindowPlanner ==
  ASSUME Typed, Stamped, Kept(events, tasks), Windowed, PlannerStarts \/ PlannerEnds
  PROVE  Windowed'
  <1>1. /\ pc \in BeforeGate /\ pc' \in BeforeGate /\ pc' \notin {"tool", "worker"}
    BY Moves DEF BeforeGate
  <1>2. UNCHANGED <<step, until>>
    BY DEF PlannerStarts, PlannerEnds
  <1>3. PICK e, rid, load : /\ e.type \in {"chain_start", "chain_end"} /\ rid # "mace_model"
                            /\ Staged(e, rid, load)
    BY PlannerStartsTells, PlannerEndsTells DEF Tracked
  <1>4. Same(events, events', GuardTypes \ {"prediction_result"})
    BY <1>3, PredictionsStaged
  <1>5. SameAt(events, events', Diverged(events), Diverged(events'))
    <2>1. "divergence_detected" \in GuardTypes \ {"prediction_result"}
      BY DEF GuardTypes
    <2> QED BY <1>4, <2>1, GuardSameIs
  <1>6. MaceOf(tasks) = {}
    BY <1>1 DEF Windowed, NoneBefore
  <1>7. MaceOf(tasks') = {}
    <2>1. PICK r : Scheduled(tasks, rid, 0, load, r) /\ tasks' = r[1]
      BY <1>3 DEF Staged
    <2> QED BY <1>3, <1>6, <2>1 DEF Scheduled, MaceOf
  <1>8. Over(pc', tasks', busy', clock')
    BY <1>1 DEF Over
  <1> QED BY <1>1, <1>2, <1>5, <1>6, <1>7, <1>8, WindowKept

LEMMA WindowNext ==
  ASSUME Typed, Stamped, Kept(events, tasks), LagsMet, Windowed, [TraceNext]_vars
  PROVE  Windowed'
  <1>1. CASE PlannerStarts \/ PlannerEnds
    BY <1>1, WindowPlanner
  <1>2. ASSUME NEW tool \in Tool, NEW predicts \in BOOLEAN, NEW admitted \in BOOLEAN,
               ToolStarts(tool, predicts, admitted)
        PROVE  Windowed'
    BY <1>2, WindowTool
  <1>3. CASE /\ ~PlannerStarts /\ ~PlannerEnds
             /\ ~\E tool \in Tool, p \in BOOLEAN, a \in BOOLEAN : ToolStarts(tool, p, a)
    <2>1. Same(events, events', GuardTypes) /\ UNCHANGED <<step, until>>
      BY <1>3, GuardUntouched
    <2>2. SameAt(events, events', Diverged(events), Diverged(events'))
      <3>1. "divergence_detected" \in GuardTypes
        BY DEF GuardTypes
      <3> QED BY <2>1, <3>1, GuardSameIs
    <2>3. /\ MaceOf(tasks') = MaceOf(tasks)
          /\ \A k \in MaceOf(tasks) : /\ tasks'[k].started = tasks[k].started
                                      /\ tasks'[k].ckpt = tasks[k].ckpt
      BY <1>3, MaceStays
    <2>4. Over(pc', tasks', busy', clock')
      BY <1>3, <2>3, OverNext
    <2>5. pc' \in BeforeGate => pc \in BeforeGate
      <3>1. UNCHANGED vars => pc' = pc
        BY DEF vars
      <3> QED BY <1>3, <3>1, Moves DEF TraceNext, Workflow, BeforeGate
    <2> QED BY <2>1, <2>2, <2>3, <2>4, <2>5, WindowKept
  <1> QED BY <1>1, <1>2, <1>3

LEMMA WindowInit ==
  ASSUME TraceInit
  PROVE  Windowed
  <1>1. Diverged(events) = {} /\ MaceOf(tasks) = {}
    BY DEF TraceInit, Diverged, MaceOf, E!Where
  <1>2. Conservative \in Nat
    BY TraceConstants
  <1>3. pc = "begin" /\ until = 0 /\ step = 0
    BY DEF TraceInit
  <1> QED BY <1>1, <1>2, <1>3 DEF Windowed, Asked, Over, StartedBeyond, NoneBefore

WindowInv == LoadsInv /\ PlannedTasks /\ Windowed

\* After a divergence no calculator is prefetched for the steps it asked for, in
\* every state of a run (on_tool_start() of chemgraph.py).
THEOREM WindowInvariant ==
  TraceSpec => []WindowInv
  <1>1. TraceInit => PlannedTasks /\ Windowed
    BY PlannedInit, WindowInit
  <1>2. LoadsInv /\ PlannedTasks /\ Windowed /\ [TraceNext]_vars => (PlannedTasks /\ Windowed)'
    BY PlannedNext, WindowNext DEF LoadsInv, RunInv
  <1> QED BY <1>1, <1>2, LoadsInvariant, PTL DEF TraceSpec, WindowInv

LEMMA WrongMeets ==
  ASSUME WindowInv
  PROVE  WrongAfterWindow
  <1> DEFINE D == E!Where(events, "divergence_detected")
             first == {i \in D : \A j \in D : i <= j}
             late == {k \in DOMAIN tasks : \E i \in first : tasks[k].ckpt > events[i].ckpt + 1 + Conservative}
             wrong == {k \in E!TasksOf(events) :
                          /\ E!Classify(events, k) \in {"wasted", "cancelled"} /\ D # {}
                          /\ E!TaskRecord(events, k).started >= events[E!Min(D)].at}
  <1> SUFFICES ASSUME Ended
               PROVE  E!WrongAfterDivergence(events) <= Cardinality(late)
    BY DEF WrongAfterWindow
  <1>1. E!WrongAfterDivergence(events) = Cardinality(wrong)
    BY CountsSame DEF E!WrongAfterDivergence
  <1>2. RunInv /\ PlannedTasks /\ Windowed /\ events \in Seq(Event)
    BY DEF WindowInv, LoadsInv, RunInv, Stamped
  <1>3. /\ E!TasksOf(events) = DOMAIN tasks /\ IsFiniteSet(DOMAIN tasks)
        /\ \A k \in DOMAIN tasks : E!TaskRecord(events, k) = EvalRecord(tasks[k])
    BY <1>2, EachRecord
  <1>4. D # {} => E!Min(D) \in first
    <2>1. D \in SUBSET E!Where(events, "divergence_detected")
      OBVIOUS
    <2> HIDE DEF D
    <2>2. D # {} => IsFirst(E!Min(D), D)
      BY <1>2, <2>1, LastIn
    <2> QED BY <2>2 DEF IsFirst
  <1>5. \A k \in wrong : k \in late
    <2> TAKE k \in wrong
    <2>1. /\ k \in DOMAIN tasks /\ E!Classify(events, k) \in {"wasted", "cancelled"} /\ D # {}
          /\ tasks[k].started >= events[E!Min(D)].at
      BY <1>3 DEF EvalRecord
    <2>2. tasks[k].status # "used"
      BY <1>2, <2>1, EachClass
    <2>3. tasks[k].rid = "mace_model"
      BY <1>2, <2>1, <2>2 DEF PlannedTasks, PlannedAt, Early, Ended
    <2>4. k \in MaceOf(tasks) /\ E!Min(D) \in Diverged(events)
      BY <1>4, <2>1, <2>3 DEF MaceOf, Diverged
    <2>5. tasks[k].ckpt > events[E!Min(D)].ckpt + 1 + Conservative
      BY <1>2, <2>1, <2>4 DEF Windowed, StartedBeyond
    <2> QED BY <1>4, <2>1, <2>5
  <1>6. wrong \in SUBSET late /\ late \in SUBSET DOMAIN tasks
    BY <1>5
  <1> HIDE DEF wrong, late, first, D
  <1>7. IsFiniteSet(late)
    BY <1>3, <1>6, FS_Subset
  <1>8. Cardinality(wrong) <= Cardinality(late)
    BY <1>6, <1>7, FS_Subset
  <1> QED BY <1>1, <1>8

\* n_wrong_after_divergence: speculation that proves wrong after a divergence was
\* started after the conservative steps the divergence asked for.
THEOREM WrongAlwaysAfterWindow ==
  TraceSpec => []WrongAfterWindow
  <1> QED BY WrongMeets, WindowInvariant, PTL

\* What is said of a prediction or a task is what became of it: its class, its
\* verdict, whether it expired, was missed, or was started after a divergence
\* (parse_eval_traces.py, trace_analyzer.py).
THEOREM OutcomesAlwaysTrue ==
  TraceSpec => []OutcomesTrue
  <1>1. ClassesTrue /\ VerdictJoined /\ ExpiredWithin /\ MissedPaid /\ WrongAfterWindow => OutcomesTrue
    BY DEF OutcomesTrue
  <1> QED BY <1>1, ClassesAlwaysTrue, VerdictsAlwaysJoined, ExpiredAlwaysWithin, MissedAlwaysPaid,
             WrongAlwaysAfterWindow, PTL
===============================================================================
