--------------------------- MODULE EvaluationProofs ---------------------------
(***************************************************************************)
(* Theorems about the evaluation.  First EvalDriver, for every set of      *)
(* command lines, every length of the jobs and every number of trials,     *)
(* failures and jobs; then MeasurementSuite, for every set of engines and  *)
(* models, every size and number of shards, every pace of the sampling     *)
(* thread and every length of a profile, a load and a trial.  The two      *)
(* share no state.                                                         *)
(***************************************************************************)
EXTENDS EvalDriver, MeasurementSuite, SequenceTheorems, FiniteSetTheorems,
        WellFoundedInduction, TLAPS

-------------------------------------------------------------------------------
(* The inductive invariant.                                                *)

Arms == DOMAIN Workloads[workload].arms

Standing == {"running", "completed", "failed", "timeout"}

Trial == [config : Arms, index : Nat \ {0}, status : Standing, trace : BOOLEAN, oracle : Nat,
          did : {"nothing", "something", "all"}, told : BOOLEAN]

\* A trial is in hand; it has its directory.
InHand == pc \in {"prepare", "skip", "clear", "trial", "collect", "ok", "fail"}
HasDirectory == pc \in {"clear", "trial", "collect"}

Typed ==
    /\ [workload |-> workload, configs |-> names, trials |-> goal, order |-> order] \in Commands
    /\ disk \in Seq(Trial) /\ \A t \in DOMAIN disk : disk[t].oracle < t
    /\ pc \in {"off", "pick", "prepare", "skip", "clear", "trial", "collect", "ok", "fail", "done"}
    /\ todo \in [Arms -> Seq(Nat \ {0})]
    /\ failures \in [Arms -> 0..MaxFailures] /\ turns \in [Arms -> Nat]
    /\ at \in 1..(Len(names) + 1) /\ idx \in Nat
    /\ daemon \in BOOLEAN /\ timedOut \in BOOLEAN
    /\ left \in 0..JobLength /\ took \in 0..(Timeout + 1) /\ jobs \in 0..MaxJobs
    /\ \A e \in engines \cup boots \cup ending : e \in (1..Turn) \X Role
    /\ undrained \in BOOLEAN

\* The trial in hand belongs to an arm that has not failed too often, its
\* directory says that it runs, and it was begun in time.
HandKept ==
    /\ InHand => at \in 1..Len(names) /\ idx # 0 /\ failures[Cur] < MaxFailures
    /\ HasDirectory => Turn # 0 /\ disk[Turn].status = "running" /\ disk[Turn].config = Cur
    /\ pc \in {"prepare", "clear", "trial"} => left + took >= Est + Margin
    /\ pc = "done" => OutOfTime \/ \A c \in Here : ~Eligible(c)
    /\ pc = "off" => \A c \in Arms : todo[c] = <<>>

DaemonKept == daemon = (pc \in {"clear", "trial"} /\ "hermes" \in Needs(Cur))

\* What is left of earlier trials was told to end, and is only met by a trial
\* whose drain was given up.
EnginesKept ==
    /\ pc = "clear" => engines \cup boots \subseteq ending
    /\ pc = "trial" =>
        me = Turn /\ \A e \in engines \cup boots : e[1] = me \/ (undrained /\ e \in ending)

Counted(c) == IF pc \in {"prepare", "skip", "clear", "trial", "collect", "fail"} /\ c = Cur THEN 1 ELSE 0

LedgerKept(c) ==
    /\ Completed(c) <= goal
    /\ pc # "off" => Completed(c) + Len(todo[c]) + Counted(c) = goal

\* What the summary of a process says of its workflow.
RunnerKept ==
    /\ progress \in 0..3 /\ (returned => progress = 3)
    /\ summary # "none" => stage \in {"leaving", "left", "gone"}
    /\ summary \in {"none", "done", "not_done", "unsaid"}
    /\ Runner = "chemgraph" => summary # "unsaid"
    /\ Runner = "chemgraph" /\ summary = "done" => returned
    /\ summary = "done" => progress >= 2

\* What is on disk of a trial.
EvidenceKept(t) ==
    /\ disk[t].status = "completed" =>
        /\ Runner = "chemgraph" => disk[t].did = "all"
        /\ disk[t].told => disk[t].did # "nothing"
    /\ "oracle_trace" \in Needs(disk[t].config) =>
        /\ disk[t].oracle # 0 /\ disk[disk[t].oracle].status = "completed"
        /\ \A u \in (disk[t].oracle + 1)..(t - 1) : u \notin References

DInv ==
    /\ Typed /\ HandKept /\ DaemonKept /\ EnginesKept /\ RunnerKept
    /\ \A c \in Here : LedgerKept(c)
    /\ \A t \in DOMAIN disk : EvidenceKept(t)

-------------------------------------------------------------------------------
(* Lemmas about the operators of the model.                                *)

LEMMA LeastElement ==
  ASSUME NEW S \in SUBSET Nat, S # {}
  PROVE  \E k \in S : \A j \in S : k <= j
  <1> DEFINE R == OpToRel(<, Nat)
  <1>1. PICK k \in S : \A j \in S : <<j, k>> \notin R
    BY NatLessThanWellFounded, WFMin
  <1>2. \A j \in S : ~(j < k)
    BY <1>1 DEF OpToRel
  <1> QED BY <1>2

LEMMA MinIsLeast ==
  ASSUME NEW S \in SUBSET Nat, S # {}
  PROVE  Min(S) \in S /\ \A j \in S : Min(S) <= j
  <1>1. PICK k \in S : \A j \in S : k <= j
    BY LeastElement
  <1> QED BY <1>1 DEF Min

\* The newest reference is defined as soon as there is one.
LEMMA MaxIsGreatest ==
  ASSUME NEW n \in Nat, NEW S \in SUBSET (1..n), S # {}
  PROVE  Max(S) \in S /\ \A j \in S : j <= Max(S)
  <1> DEFINE T == {n - x : x \in S}
  <1>1. T \in SUBSET Nat /\ T # {}
    <2>1. \A x \in S : n - x \in Nat
      OBVIOUS
    <2> QED BY <2>1
  <1>2. PICK m \in T : \A j \in T : m <= j
    BY <1>1, LeastElement
  <1>3. PICK k \in S : m = n - k
    BY <1>2
  <1>4. \A j \in S : n - k <= n - j
    BY <1>2, <1>3
  <1>5. \A j \in S : k >= j /\ j <= k
    BY <1>4
  <1>6. \A j \in S : \A y \in S : (\A z \in S : j >= z) => y <= j
    OBVIOUS
  <1>7. Max(S) \in S /\ \A j \in S : Max(S) >= j
    BY <1>5 DEF Max
  <1> QED BY <1>7

\* The command line names arms of the workload.
LEMMA CommandType ==
  ASSUME Typed
  PROVE  /\ names \in Seq(Arms) /\ goal \in Nat \ {0} /\ Len(names) \in Nat
         /\ Here \subseteq Arms /\ Here = {names[i] : i \in 1..Len(names)}
         /\ workload \in DOMAIN Workloads /\ Here \subseteq DOMAIN Workloads[workload].arms
         /\ Est \in Nat /\ Margin \in Nat /\ Timeout \in Nat /\ JobLength \in Nat
         /\ MaxFailures \in Nat \ {0} /\ MaxJobs \in Nat
  <1> DEFINE cmd == [workload |-> workload, configs |-> names, trials |-> goal, order |-> order]
  <1>1. cmd \in Commands /\ cmd.workload = workload /\ cmd.configs = names /\ cmd.trials = goal
    BY DEF Typed
  <1> HIDE DEF cmd
  <1>2. /\ workload \in DOMAIN Workloads /\ names \in Seq(DOMAIN Workloads[workload].arms)
        /\ goal \in Nat \ {0}
    BY <1>1, DriverConstants
  <1>3. names \in Seq(Arms)
    BY <1>2 DEF Arms
  <1>4. Here = {names[i] : i \in 1..Len(names)}
    BY <1>3 DEF Here, Range
  <1>5. Here \subseteq Arms
    BY <1>3, <1>4
  <1>6. EstRun[workload] \in Nat
    BY <1>2, DriverConstants
  <1>7. Here \subseteq DOMAIN Workloads[workload].arms
    BY <1>2, <1>4
  <1> QED BY <1>2, <1>3, <1>4, <1>5, <1>6, <1>7, DriverConstants DEF Est

\* The turn goes to the next arm that can still be run, or a round begins anew.
LEMMA NextTurnIs ==
  ASSUME Typed, \E c \in Here : Eligible(c)
  PROVE  /\ NextTurn \in 1..Len(names) /\ Eligible(names[NextTurn])
         /\ \/ /\ NextTurn >= at
               /\ \A i \in 1..Len(names) : Eligible(names[i]) /\ i >= at => NextTurn <= i
            \/ \A i \in 1..Len(names) : Eligible(names[i]) => i < at /\ NextTurn <= i
  <1> DEFINE can == {i \in DOMAIN names : Eligible(names[i])}
             on == {i \in can : i >= at}
  <1>1. names \in Seq(Arms) /\ Here = {names[i] : i \in 1..Len(names)} /\ DOMAIN names = 1..Len(names)
    BY CommandType
  <1>2. at \in Nat
    BY DEF Typed
  <1>3. can \in SUBSET Nat /\ on \in SUBSET Nat /\ can # {}
    BY <1>1
  <1>4. NextTurn = Min(IF on # {} THEN on ELSE can)
    BY DEF NextTurn
  <1>5. CASE on # {}
    <2>1. NextTurn \in on /\ \A j \in on : NextTurn <= j
      <3> HIDE DEF on
      <3> QED BY <1>3, <1>4, <1>5, MinIsLeast
    <2> QED BY <1>1, <2>1
  <1>6. CASE on = {}
    <2>1. NextTurn \in can /\ \A j \in can : NextTurn <= j
      <3> HIDE DEF on, can
      <3> QED BY <1>3, <1>4, <1>6, MinIsLeast
    <2>2. \A i \in can : i < at
      BY <1>1, <1>2, <1>6
    <2> QED BY <1>1, <2>1, <2>2
  <1> QED BY <1>5, <1>6

\* What an arm has completed is a number.
DoneBy(c) == {t \in DOMAIN disk : disk[t].config = c /\ disk[t].status = "completed"}

LEMMA CompletedType ==
  ASSUME disk \in Seq(Trial), NEW c
  PROVE  /\ IsFiniteSet(DoneBy(c)) /\ Completed(c) = Cardinality(DoneBy(c)) /\ Completed(c) \in Nat
  <1>1. DOMAIN disk = 1..Len(disk) /\ Len(disk) \in Nat
    OBVIOUS
  <1>2. IsFiniteSet(1..Len(disk))
    BY <1>1, FS_Interval
  <1>3. IsFiniteSet(DoneBy(c))
    BY <1>1, <1>2, FS_Subset DEF DoneBy
  <1> QED BY <1>3, FS_CardinalityType DEF Completed, DoneBy

-------------------------------------------------------------------------------
(* What the steps do to the state.                                         *)

\* The command line of a campaign is given once.
LEMMA CommandStays ==
  ASSUME Next \/ UNCHANGED vars
  PROVE  /\ UNCHANGED <<workload, names, goal, order>>
         /\ Arms' = Arms /\ Est' = Est /\ Here' = Here /\ Runner' = Runner
         /\ \A c : Needs(c)' = Needs(c)
  <1>1. UNCHANGED command
    BY DEF Next, Work, StartDriver, Pick, Finish, Skip, Prepare, Clear, GiveUpDrain,
       LaunchTrial, Run, Boot, Exit, TimesOut,
       ProcessEnds, Collect, Book, TimePasses, JobEnds, JobStarts, vars, driver, command
  <1>2. UNCHANGED <<workload, names, goal, order>>
    BY <1>1 DEF command
  <1> QED BY <1>2 DEF Arms, Est, Here, Needs, Runner

\* A process works under its own name: engines it adds bear it.
LEMMA RunnerIs ==
  ASSUME RunnerStep
  PROVE  /\ me' = me
         /\ \A e \in engines' \cup boots' : e \in engines \cup boots \/ e \in {me} \X Role
  <1>1. CASE \/ Dies \/ Checks \/ OrchestrateFails \/ AssembleChemGraph \/ AssembleExp2
             \/ AssembleExp3 \/ Progresses \/ WorkflowEnds \/ AnalysisChemGraph
             \/ AnalysisExp2 \/ AnalysisExp3 \/ AnalysisFails \/ Leave
    <2>1. UNCHANGED <<me, engines, boots>>
      BY <1>1 DEF Dies, Checks, OrchestrateFails, Assembled, AssembleChemGraph, AssembleExp2,
         AssembleExp3, Progresses, WorkflowEnds, Summarised, AnalysisChemGraph, AnalysisExp2,
         AnalysisExp3, AnalysisFails, Leave
    <2> QED BY <2>1
  <1>2. CASE OrchestrateChemGraph \/ OrchestrateExp2 \/ OrchestrateExp3
    <2>1. PICK roles \in SUBSET Role : Orchestrated(roles)
      BY <1>2 DEF OrchestrateChemGraph, OrchestrateExp2, OrchestrateExp3, Role
    <2>2. me' = me /\ boots' = boots /\ engines' = engines \cup {<<me, r>> : r \in roles}
      BY <2>1 DEF Orchestrated
    <2> QED BY <2>2
  <1>3. CASE BootOnDemand \/ BootAhead
    <2>1. /\ me' = me /\ engines' \subseteq engines \cup {<<me, "other">>}
          /\ boots' \subseteq boots \cup {<<me, "other">>}
      BY <1>3 DEF BootOnDemand, BootAhead, process
    <2> QED BY <2>1 DEF Role
  <1>4. CASE FinallyChemGraph \/ FinallyAtomAgents
    <2>1. PICK these : Stopped(these)
      BY <1>4 DEF FinallyChemGraph, FinallyAtomAgents
    <2> QED BY <2>1 DEF Stopped
  <1> QED BY <1>1, <1>2, <1>3, <1>4 DEF RunnerStep

\* An engine that has booted serves or is gone.
LEMMA BootIs ==
  ASSUME NEW e \in boots, BootEnds(e)
  PROVE  /\ UNCHANGED process
         /\ engines' \cup boots' \subseteq engines \cup boots
  BY DEF BootEnds

\* Every engine, and every boot that could become one, is told to end.
LEMMA KilledIs ==
  ASSUME KillServers
  PROVE  ending' = engines \cup boots
  BY DEF KillServers, Told

\* What goes was told to end; nothing else changes on the GPUs.
LEMMA ExitIs ==
  ASSUME Exit
  PROVE  /\ engines' \subseteq engines /\ boots' \subseteq boots /\ ending' \subseteq ending
         /\ \A e \in engines' \cup boots' : e \in ending => e \in ending'
         /\ UNCHANGED <<undrained, workload, me, stage, progress, returned, summary, disk, pc, names,
                        todo, failures, at, idx, daemon, timedOut, left, took, jobs, turns>>
  <1>1. PICK e \in ending : engines' = engines \ {e} /\ boots' = boots \ {e} /\ ending' = ending \ {e}
    BY DEF Exit
  <1>2. UNCHANGED <<undrained, process, disk, driver, left, took, jobs, turns>>
    BY DEF Exit
  <1> QED BY <1>1, <1>2 DEF process, driver, command

\* The oracle replays the newest trace that counts.
LEMMA OracleTraceIs ==
  ASSUME Typed
  PROVE  /\ OracleTrace \in 0..Len(disk)
         /\ OracleTrace # 0 => /\ OracleTrace \in References
                               /\ \A u \in DOMAIN disk : u > OracleTrace => u \notin References
  <1>1. DOMAIN disk = 1..Len(disk) /\ Len(disk) \in Nat
    BY DEF Typed
  <1>2. References \in SUBSET (1..Len(disk))
    BY <1>1 DEF References
  <1>3. CASE References = {}
    BY <1>1, <1>3 DEF OracleTrace
  <1>4. CASE References # {}
    <2>1. Max(References) \in References /\ \A j \in References : j <= Max(References)
      BY <1>1, <1>2, <1>4, MaxIsGreatest
    <2>2. OracleTrace = Max(References)
      BY <1>4 DEF OracleTrace
    <2>3. OracleTrace \in References /\ \A j \in References : j <= OracleTrace
      BY <2>1, <2>2
    <2> HIDE DEF References
    <2>4. ASSUME NEW u \in DOMAIN disk, u > OracleTrace, u \in References
          PROVE  FALSE
      <3>1. u <= OracleTrace /\ u \in Nat /\ OracleTrace \in Nat
        BY <1>1, <1>2, <2>3, <2>4
      <3> QED BY <2>4, <3>1
    <2> QED BY <1>1, <1>2, <2>3, <2>4
  <1> QED BY <1>3, <1>4

\* A trial that is begun adds its directory, marked as running.
LEMMA BegunIs ==
  ASSUME Typed, HandKept, Prepare
  PROVE  /\ disk' \in Seq(Trial) /\ Len(disk') = Len(disk) + 1
         /\ \A t \in DOMAIN disk : disk'[t] = disk[t]
         /\ disk'[Turn'].status = "running" /\ disk'[Turn'].config = Cur
         /\ disk'[Turn'].oracle < Turn'
         /\ disk'[Turn'].oracle = IF "oracle_trace" \in Needs(Cur) THEN OracleTrace ELSE 0
         /\ Turn' = Len(disk) + 1 /\ ~disk'[Turn'].trace
  <1> DEFINE N == [config |-> Cur, index |-> idx, status |-> "running", trace |-> FALSE,
                   oracle |-> IF "oracle_trace" \in Needs(Cur) THEN OracleTrace ELSE 0,
                   did |-> "nothing", told |-> FALSE]
  <1>1. disk \in Seq(Trial) /\ Len(disk) \in Nat /\ DOMAIN disk = 1..Len(disk)
    BY DEF Typed
  <1>2. Cur \in Arms /\ idx \in Nat \ {0}
    <2>1. at \in 1..Len(names) /\ idx # 0 /\ idx \in Nat
      BY DEF HandKept, InHand, Prepare, Typed
    <2> QED BY <2>1, CommandType DEF Cur
  <1>3. OracleTrace \in 0..Len(disk)
    BY OracleTraceIs
  <1>4. N \in Trial
    BY <1>1, <1>2, <1>3 DEF Trial, Standing
  <1>5. /\ N.status = "running" /\ N.config = Cur /\ ~N.trace /\ N.oracle \in 0..Len(disk)
        /\ N.oracle = IF "oracle_trace" \in Needs(Cur) THEN OracleTrace ELSE 0
    BY <1>1, <1>3
  <1>6. disk' = Append(disk, N)
    BY DEF Prepare
  <1> HIDE DEF N
  <1>7. /\ disk' \in Seq(Trial) /\ Len(disk') = Len(disk) + 1
        /\ \A t \in 1..Len(disk) : disk'[t] = disk[t]
        /\ disk'[Len(disk) + 1] = N
    BY <1>1, <1>4, <1>6
  <1>8. Turn' = Len(disk) + 1
    BY <1>7 DEF Turn
  <1> QED BY <1>1, <1>5, <1>7, <1>8

\* The verdict of a trial, in its own directory.
Ruled(r, v, trace, did, told) ==
    [r EXCEPT !.status = v, !.trace = trace, !.did = did, !.told = told]

LEMMA JudgedIs ==
  ASSUME Typed, HandKept, Collect
  PROVE  /\ disk' \in Seq(Trial) /\ Len(disk') = Len(disk) /\ Turn' = Turn
         /\ Turn \in DOMAIN disk /\ disk[Turn].status = "running" /\ disk[Turn].config = Cur
         /\ \A t \in DOMAIN disk : t # Turn => disk'[t] = disk[t]
         /\ disk'[Turn].config = Cur /\ disk'[Turn].oracle = disk[Turn].oracle
         /\ pc' \in {"ok", "fail"}
         /\ \E long \in BOOLEAN :
                /\ disk'[Turn].status = Verdict(long) /\ disk'[Turn].did = Done(long)
                /\ disk'[Turn].told = (summary \in {"done", "not_done"})
                /\ pc' = "ok" <=> Verdict(long) = "completed"
  <1>1. disk \in Seq(Trial) /\ Len(disk) \in Nat /\ DOMAIN disk = 1..Len(disk)
    BY DEF Typed
  <1>2. Turn # 0 /\ disk[Turn].status = "running" /\ disk[Turn].config = Cur
    BY DEF HandKept, HasDirectory, Collect
  <1>3. Turn \in DOMAIN disk /\ Turn = Len(disk)
    BY <1>1, <1>2 DEF Turn
  <1>4. PICK long \in BOOLEAN, trace \in BOOLEAN :
          /\ disk' = [disk EXCEPT ![Turn].status = Verdict(long),
                                  ![Turn].trace = trace /\ Cur \in Reference,
                                  ![Turn].did = Done(long),
                                  ![Turn].told = summary \in {"done", "not_done"}]
          /\ pc' = IF Verdict(long) = "completed" THEN "ok" ELSE "fail"
    BY Zenon DEF Collect
  <1> DEFINE N == Ruled(disk[Turn], Verdict(long), trace /\ Cur \in Reference, Done(long),
                        summary \in {"done", "not_done"})
  <1>5. /\ disk[Turn] \in Trial /\ Verdict(long) \in Standing
        /\ (trace /\ Cur \in Reference) \in BOOLEAN
        /\ Done(long) \in {"nothing", "something", "all"}
    BY <1>1, <1>3 DEF Verdict, Standing, Done
  <1>6. /\ N \in Trial /\ N.config = disk[Turn].config /\ N.oracle = disk[Turn].oracle
        /\ N.status = Verdict(long) /\ N.did = Done(long)
        /\ N.told = (summary \in {"done", "not_done"})
    <2> DEFINE r == disk[Turn]
               v == Verdict(long)
               tr == trace /\ Cur \in Reference
               d == Done(long)
               told == summary \in {"done", "not_done"}
    <2> HIDE DEF r, v, tr, d
    <2>1. r \in Trial /\ v \in Standing /\ tr \in BOOLEAN /\ d \in {"nothing", "something", "all"}
      BY <1>5 DEF r, v, tr, d
    <2>2. told \in BOOLEAN
      OBVIOUS
    <2> HIDE DEF told
    <2>3. /\ Ruled(r, v, tr, d, told) \in Trial
          /\ Ruled(r, v, tr, d, told).config = r.config
          /\ Ruled(r, v, tr, d, told).oracle = r.oracle
          /\ Ruled(r, v, tr, d, told).status = v /\ Ruled(r, v, tr, d, told).did = d
          /\ Ruled(r, v, tr, d, told).told = told
      BY <2>1, <2>2 DEF Ruled, Trial
    <2> QED BY <2>3 DEF r, v, tr, d, told
  <1>7. disk' = [disk EXCEPT ![Turn] = N]
    <2> DEFINE v == Verdict(long)
               tr == trace /\ Cur \in Reference
               d == Done(long)
               told == summary \in {"done", "not_done"}
    <2>1. /\ disk' = [disk EXCEPT ![Turn].status = v, ![Turn].trace = tr, ![Turn].did = d, ![Turn].told = told]
          /\ N = Ruled(disk[Turn], v, tr, d, told)
      BY <1>4
    <2> HIDE DEF v, tr, d, told, N
    <2> QED BY <1>1, <1>3, <2>1 DEF Ruled
  <1> HIDE DEF N
  <1>8. /\ disk' \in Seq(Trial) /\ Len(disk') = Len(disk)
        /\ \A t \in DOMAIN disk : t # Turn => disk'[t] = disk[t]
        /\ disk'[Turn] = N
    BY <1>1, <1>3, <1>6, <1>7
  <1>9. Turn' = Turn
    BY <1>8 DEF Turn
  <1> QED BY <1>2, <1>3, <1>4, <1>6, <1>8, <1>9

-------------------------------------------------------------------------------
(* The invariant holds at first.                                           *)

LEMMA InitD ==
  ASSUME Init
  PROVE  DInv
  <1>1. PICK cmd \in Commands : workload = cmd.workload /\ names = cmd.configs /\ goal = cmd.trials /\ order = cmd.order
    BY DEF Init
  <1>2. cmd \in [workload : DOMAIN Workloads,
                 configs : Seq(DOMAIN Workloads[cmd.workload].arms), trials : Nat \ {0},
                 order : {"roundrobin", "sequential"}]
    BY DriverConstants
  <1>3. cmd = [workload |-> workload, configs |-> names, trials |-> goal, order |-> order]
    BY <1>1, <1>2
  <1>4. names \in Seq(Arms) /\ goal \in Nat
    BY <1>1, <1>2 DEF Arms
  <1>5. disk = <<>> /\ DOMAIN disk = {} /\ disk \in Seq(Trial)
    BY DEF Init
  <1>6. /\ todo \in [Arms -> Seq(Nat \ {0})] /\ failures \in [Arms -> 0..MaxFailures]
        /\ turns \in [Arms -> Nat] /\ \A c \in Arms : todo[c] = <<>>
    BY DriverConstants DEF Init, Arms
  <1>7. Typed
    <2>1. 0 \in 0..JobLength /\ 0 \in 0..(Timeout + 1) /\ 0 \in 0..MaxJobs /\ 1 \in 1..(Len(names) + 1)
      BY <1>4, DriverConstants
    <2> QED BY <1>1, <1>3, <1>5, <1>6, <2>1 DEF Typed, Init
  <1>8. HandKept /\ DaemonKept /\ EnginesKept /\ RunnerKept
    <2>1. /\ pc = "off" /\ daemon = FALSE /\ progress = 0 /\ returned = FALSE /\ summary = "none"
      BY DEF Init, NoProcess
    <2>2. HandKept
      BY <1>6, <2>1 DEF HandKept, InHand, HasDirectory
    <2>3. DaemonKept
      BY <2>1 DEF DaemonKept
    <2>4. EnginesKept
      BY <2>1 DEF EnginesKept
    <2>5. RunnerKept
      BY <2>1 DEF RunnerKept
    <2> QED BY <2>2, <2>3, <2>4, <2>5
  <1>9. ASSUME NEW c \in Here
        PROVE  LedgerKept(c)
    <2>1. Completed(c) = Cardinality(DoneBy(c)) /\ DoneBy(c) = {}
      BY <1>5, CompletedType DEF DoneBy
    <2> QED BY <1>4, <2>1, FS_EmptySet DEF LedgerKept, Init
  <1> QED BY <1>5, <1>7, <1>8, <1>9 DEF DInv

-------------------------------------------------------------------------------
(* Every step keeps the types.                                             *)

LEMMA TypedStep ==
  ASSUME Typed, HandKept, EnginesKept, \A c \in Here : LedgerKept(c), Next
  PROVE  Typed'
  <1> USE DEF Typed
  <1>1. /\ [workload |-> workload, configs |-> names, trials |-> goal, order |-> order]' \in Commands
        /\ Arms' = Arms /\ names' = names
    BY CommandStays
  <1>2. /\ names \in Seq(Arms) /\ goal \in Nat \ {0} /\ Len(names) \in Nat /\ Here \subseteq Arms
        /\ Timeout \in Nat /\ JobLength \in Nat /\ MaxFailures \in Nat \ {0} /\ MaxJobs \in Nat
        /\ Here = {names[i] : i \in 1..Len(names)}
    BY CommandType
  <1>3. disk \in Seq(Trial) /\ Len(disk) \in Nat /\ DOMAIN disk = 1..Len(disk)
    OBVIOUS
  <1>4. InHand => at \in 1..Len(names) /\ idx \in Nat \ {0} /\ Cur \in Arms /\ failures[Cur] < MaxFailures
    BY <1>2 DEF HandKept, Cur
  <1>5. CASE StartDriver
    <2>1. \A c \in Arms : Completed(c) \in Nat
      BY CompletedType
    <2>2. todo' \in [Arms -> Seq(Nat \ {0})]
      <3>1. \A c \in Arms : todo'[c] \in Seq(Nat \ {0})
        <4> TAKE c \in Arms
        <4>1. CASE c \notin Here
          BY <1>5, <4>1 DEF StartDriver
        <4>2. CASE c \in Here
          <5>1. todo'[c] = [i \in 1..(goal - Completed(c)) |-> Completed(c) + i]
            BY <1>5, <4>2 DEF StartDriver
          <5> DEFINE k == Completed(c)
          <5> DEFINE g == goal - k
          <5>2. k \in Nat /\ g \in Nat
            <6>1. k \in Nat
              BY <2>1
            <6>2. k <= goal
              BY <4>2 DEF LedgerKept
            <6> HIDE DEF k, Typed
            <6> QED BY <1>2, <6>1, <6>2
          <5>3. todo'[c] = [i \in 1..(goal - k) |-> k + i]
            BY <5>1
          <5> HIDE DEF k, g, Typed
          <5>4. todo'[c] = [i \in 1..g |-> k + i]
            BY <5>3 DEF g
          <5>5. \A i \in 1..g : k + i \in Nat \ {0}
            BY <5>2
          <5> QED BY <5>2, <5>4, <5>5
        <4> QED BY <4>1, <4>2
      <3> QED BY <1>5, <3>1 DEF StartDriver
    <2>3. failures' \in [Arms -> 0..MaxFailures] /\ turns' \in [Arms -> Nat]
      BY <1>2, <1>5 DEF StartDriver
    <2>4. /\ UNCHANGED <<engines, boots, ending, undrained, disk, idx, daemon, timedOut, left, took, jobs>>
          /\ at' = 1 /\ pc' = "pick"
      BY <1>5 DEF StartDriver, runnerVars, drain
    <2> QED BY <1>1, <1>2, <2>2, <2>3, <2>4 DEF Turn, Trial
  <1>6. CASE Pick
    <2>1. /\ NextTurn \in 1..Len(names) /\ names[NextTurn] \in Arms
          /\ todo[names[NextTurn]] # <<>>
      BY <1>2, <1>6, NextTurnIs DEF Pick, Eligible
    <2> DEFINE c == names[NextTurn]
    <2>2. idx' = Head(todo[c]) /\ todo' = [todo EXCEPT ![c] = Tail(@)] /\ turns' = [turns EXCEPT ![c] = @ + 1]
      BY <1>6 DEF Pick
    <2>3. c \in Arms /\ todo[c] \in Seq(Nat \ {0}) /\ todo[c] # <<>>
      BY <2>1
    <2> HIDE DEF c
    <2>4. Head(todo[c]) \in Nat \ {0} /\ Tail(todo[c]) \in Seq(Nat \ {0})
      BY <2>3
    <2>5. idx' \in Nat /\ todo' \in [Arms -> Seq(Nat \ {0})] /\ turns' \in [Arms -> Nat]
      BY <2>2, <2>3, <2>4
    <2>6. UNCHANGED <<engines, boots, ending, undrained, disk, failures, daemon, left, jobs>>
      BY <1>6 DEF Pick, runnerVars, drain
    <2>7. at' \in 1..(Len(names) + 1) /\ took' = 0 /\ timedOut' = FALSE /\ pc' = "prepare"
      BY <1>2, <1>6, <2>1 DEF Pick
    <2>8. took' \in 0..(Timeout + 1)
      BY <1>2, <2>7
    <2> QED BY <1>1, <2>5, <2>6, <2>7, <2>8 DEF Turn, Trial
  <1>7. CASE Finish
    BY <1>1, <1>7, KilledIs DEF Finish, runnerVars, command, Turn, Trial
  <1>8. CASE Skip
    BY <1>1, <1>8 DEF Skip, DaemonStarts, runnerVars, drain, command, Turn, Trial
  <1>9. CASE Prepare
    <2>1. /\ disk' \in Seq(Trial) /\ Len(disk') = Len(disk) + 1
          /\ \A t \in DOMAIN disk : disk'[t] = disk[t]
          /\ disk'[Turn'].oracle < Turn' /\ Turn' = Len(disk) + 1
      BY <1>9, BegunIs
    <2>2. \A t \in DOMAIN disk' : disk'[t].oracle < t
      <3> TAKE t \in DOMAIN disk'
      <3>1. t \in DOMAIN disk \/ t = Turn'
        <4>1. DOMAIN disk' = 1..(Len(disk) + 1) /\ DOMAIN disk = 1..Len(disk) /\ Len(disk) \in Nat
          BY <1>3, <2>1
        <4> QED BY <2>1, <4>1
      <3>2. CASE t \in DOMAIN disk
        BY <1>3, <2>1, <3>2
      <3>3. CASE t = Turn'
        BY <2>1, <3>3
      <3> QED BY <3>1, <3>2, <3>3
    <2>3. disk' \in Seq(Trial') /\ Turn' >= Turn
      BY <1>1, <1>3, <2>1 DEF Trial, Turn
    <2>4. \A e \in engines \cup boots : e \in (1..Turn') \X Role
      BY <1>3, <2>1 DEF Turn
    <2>5. UNCHANGED <<engines, boots, undrained>> /\ ending' = engines \cup boots
      BY <1>9, KilledIs DEF Prepare, runnerVars
    <2> QED BY <1>1, <1>9, <2>2, <2>3, <2>4, <2>5 DEF Prepare, DaemonStarts, command
  <1>10. CASE Clear \/ GiveUpDrain
    <2>1. PICK busy \in BOOLEAN : LaunchTrial(busy)
      BY <1>10 DEF Clear, GiveUpDrain
    <2> QED BY <1>1, <2>1 DEF LaunchTrial, command, Turn, Trial
  <1>11. CASE Run
    <2>1. \A e \in engines' \cup boots' : e \in engines \cup boots \/ e \in {me} \X Role
      BY <1>11, RunnerIs DEF Run
    <2>2. me \in 1..Turn
      <3>1. me = Turn /\ Turn # 0
        BY <1>11 DEF Run, EnginesKept, HandKept, HasDirectory
      <3> QED BY <1>3, <3>1 DEF Turn
    <2>3. \A e \in engines' \cup boots' : e \in (1..Turn) \X Role
      BY <2>1, <2>2
    <2>4. UNCHANGED <<ending, undrained, disk, pc, todo, failures, at, idx, daemon, timedOut, left, took,
                      jobs, turns>>
      BY <1>11 DEF Run, driver, drain
    <2> QED BY <1>1, <2>3, <2>4 DEF Turn, Trial
  <1>12. CASE Boot
    <2>1. engines' \cup boots' \subseteq engines \cup boots
      BY <1>12, BootIs DEF Boot
    <2>2. UNCHANGED <<ending, undrained, disk, pc, todo, failures, at, idx, daemon, timedOut, left, took,
                      jobs, turns>>
      BY <1>12 DEF Boot, driver, drain
    <2> QED BY <1>1, <2>1, <2>2 DEF Turn, Trial
  <1>20. CASE Exit
    BY <1>1, <1>20, ExitIs DEF Turn, Trial
  <1>13. CASE TimesOut
    BY <1>1, <1>13, KilledIs DEF TimesOut, DaemonAfter, command, Turn, Trial
  <1>14. CASE ProcessEnds
    BY <1>1, <1>14 DEF ProcessEnds, DaemonAfter, runnerVars, drain, command, Turn, Trial
  <1>15. CASE Collect
    <2>1. /\ disk' \in Seq(Trial) /\ Len(disk') = Len(disk) /\ Turn' = Turn /\ Turn \in DOMAIN disk
          /\ \A t \in DOMAIN disk : t # Turn => disk'[t] = disk[t]
          /\ disk'[Turn].oracle = disk[Turn].oracle /\ pc' \in {"ok", "fail"}
      BY <1>15, JudgedIs
    <2>2. \A t \in DOMAIN disk' : disk'[t].oracle < t
      <3>1. \A t \in DOMAIN disk : disk[t].oracle < t
        OBVIOUS
      <3>2. DOMAIN disk' = DOMAIN disk
        BY <1>3, <2>1
      <3> HIDE DEF Typed
      <3> QED BY <2>1, <3>1, <3>2
    <2>3. disk' \in Seq(Trial')
      BY <1>1, <2>1 DEF Trial
    <2> QED BY <1>1, <1>15, <2>1, <2>2, <2>3 DEF Collect, command
  <1>16. CASE Book
    <2>1. /\ failures' = [failures EXCEPT ![Cur] = Failures(Cur, pc = "ok")]
          /\ todo' = IF pc = "ok" THEN todo ELSE [todo EXCEPT ![Cur] = Replaced(@, idx)]
          /\ at' = After(pc = "ok")
      BY <1>16 DEF Book
    <2>2. InHand
      BY <1>16 DEF Book, InHand
    <2>3. Failures(Cur, pc = "ok") \in 0..MaxFailures
      <3>1. failures[Cur] \in 0..MaxFailures /\ failures[Cur] < MaxFailures
        BY <1>4, <2>2
      <3> HIDE DEF Typed
      <3> QED BY <1>2, <3>1 DEF Failures
    <2>4. ASSUME NEW queue \in Seq(Nat \ {0})
          PROVE  Replaced(queue, idx) \in Seq(Nat \ {0})
      <3>1. idx \in Nat \ {0}
        BY <1>4, <2>2
      <3>2. queue # <<>> => Last(queue) \in Nat \ {0}
        BY <2>4 DEF Last
      <3> QED BY <3>1, <3>2 DEF Replaced
    <2>5. todo' \in [Arms -> Seq(Nat \ {0})]
      BY <1>4, <2>1, <2>2, <2>4
    <2>6. at' \in 1..(Len(names) + 1)
      <3>1. at \in 1..Len(names) /\ (at' = at + 1 \/ at' = at)
        BY <1>4, <2>1, <2>2 DEF After
      <3> HIDE DEF Typed
      <3> QED BY <1>2, <3>1
    <2>7. failures' \in [Arms -> 0..MaxFailures]
      BY <1>4, <2>1, <2>2, <2>3
    <2> QED BY <1>1, <1>2, <1>16, <2>5, <2>6, <2>7 DEF Book, runnerVars, drain, command, Turn, Trial
  <1>17. CASE TimePasses
    <2>1. left' \in 0..JobLength /\ took' \in 0..(Timeout + 1)
      BY <1>2, <1>17 DEF TimePasses
    <2>2. UNCHANGED <<engines, boots, ending, undrained, disk, pc, todo, failures, at, idx, daemon,
                      timedOut, jobs, turns>>
      BY <1>17 DEF TimePasses, driver, drain, runnerVars
    <2> QED BY <1>1, <2>1, <2>2 DEF Turn, Trial
  <1>18. CASE JobEnds
    <2>1. /\ todo' \in [Arms -> Seq(Nat \ {0})] /\ failures' \in [Arms -> 0..MaxFailures]
          /\ turns' \in [Arms -> Nat]
      BY <1>2, <1>18 DEF JobEnds, AllGone
    <2>2. /\ UNCHANGED <<disk, jobs>> /\ engines' = {} /\ boots' = {}
          /\ ending' = {} /\ undrained' = FALSE
          /\ pc' = "off" /\ at' = 1 /\ idx' = 0 /\ daemon' = FALSE /\ timedOut' = FALSE
          /\ left' = 0 /\ took' = 0
      BY <1>18 DEF JobEnds, AllGone
    <2>3. left' \in 0..JobLength /\ took' \in 0..(Timeout + 1) /\ at' \in 1..(Len(names) + 1)
      BY <1>2, <2>2
    <2> QED BY <1>1, <2>1, <2>2, <2>3 DEF Turn, Trial
  <1>19. CASE JobStarts
    <2>1. left' \in 0..JobLength /\ jobs' \in 0..MaxJobs
      BY <1>2, <1>19 DEF JobStarts
    <2>2. UNCHANGED <<engines, boots, ending, undrained, disk, pc, todo, failures, at, idx, daemon,
                      timedOut, took, turns>>
      BY <1>19 DEF JobStarts, driver, drain, runnerVars
    <2> QED BY <1>1, <2>1, <2>2 DEF Turn, Trial
  <1> QED BY <1>5, <1>6, <1>7, <1>8, <1>9, <1>10, <1>11, <1>12, <1>13, <1>14, <1>15, <1>16,
             <1>17, <1>18, <1>19, <1>20 DEF Next, Work

\* Every step keeps what is known of the trial in hand.
LEMMA HandStep ==
  ASSUME Typed, HandKept, Next
  PROVE  HandKept'
  <1> USE DEF HandKept, InHand, HasDirectory, Cur, Turn
  <1>1. /\ UNCHANGED <<workload, names, goal, order>> /\ Arms' = Arms /\ Est' = Est /\ Here' = Here
    BY CommandStays
  <1>2. /\ names \in Seq(Arms) /\ Len(names) \in Nat /\ Here = {names[i] : i \in 1..Len(names)}
        /\ Est \in Nat /\ Margin \in Nat /\ MaxFailures \in Nat \ {0}
    BY CommandType
  <1>3. /\ left \in Nat /\ took \in Nat /\ at \in Nat /\ failures \in [Arms -> 0..MaxFailures]
        /\ todo \in [Arms -> Seq(Nat \ {0})]
    BY CommandType DEF Typed
  <1>4. CASE StartDriver
    BY <1>4 DEF StartDriver
  <1>5. CASE Pick
    <2> DEFINE n == NextTurn
               c == names[NextTurn]
    <2>1. n \in 1..Len(names) /\ Eligible(c)
      BY <1>2, <1>5, NextTurnIs DEF Pick
    <2>2. /\ at' = n /\ idx' = Head(todo[c]) /\ pc' = "prepare" /\ took' = 0
          /\ UNCHANGED <<left, failures>> /\ ~OutOfTime
      BY <1>5 DEF Pick
    <2>3. c \in Arms /\ todo[c] # <<>> /\ failures[c] < MaxFailures
      BY <1>2, <2>1 DEF Eligible
    <2>4. idx' \in Nat \ {0}
      BY <1>3, <2>2, <2>3
    <2>5. left' + took' >= Est + Margin
      BY <1>2, <1>3, <2>2 DEF OutOfTime
    <2> QED BY <1>1, <2>1, <2>2, <2>3, <2>4, <2>5
  <1>6. CASE Finish
    <2>1. /\ pc' = "done" /\ UNCHANGED <<todo, failures, left>>
          /\ OutOfTime \/ \A c \in Here : ~Eligible(c)
      BY <1>6 DEF Finish
    <2>2. OutOfTime' = OutOfTime /\ \A c : Eligible(c)' = Eligible(c)
      BY <1>1, <2>1 DEF OutOfTime, Eligible
    <2> QED BY <1>1, <2>1, <2>2
  <1>7. CASE Skip
    BY <1>1, <1>7 DEF Skip
  <1>8. CASE Prepare
    <2>1. /\ disk'[Turn'].status = "running" /\ disk'[Turn'].config = Cur /\ Turn' # 0
      BY <1>8, BegunIs DEF Typed
    <2>2. /\ pc = "prepare" /\ pc' = "clear" /\ UNCHANGED <<at, idx, failures, left, took, todo>>
      BY <1>8 DEF Prepare
    <2> QED BY <1>1, <2>1, <2>2
  <1>9. CASE Clear \/ GiveUpDrain
    <2>1. /\ pc = "clear" /\ pc' = "trial"
          /\ UNCHANGED <<disk, todo, failures, at, idx, left, took>>
      BY <1>9 DEF Clear, GiveUpDrain, LaunchTrial
    <2> QED BY <1>1, <2>1
  <1>10. CASE Run
    <2>1. UNCHANGED <<disk, pc, todo, failures, at, idx, left, took>>
      BY <1>10 DEF Run, driver
    <2> QED BY <1>1, <1>10, <2>1 DEF Run
  <1>11. CASE Boot \/ Exit
    <2>1. UNCHANGED <<disk, pc, todo, failures, at, idx, left, took>>
      BY <1>11, ExitIs DEF Boot, driver
    <2>2. OutOfTime' = OutOfTime /\ \A c : Eligible(c)' = Eligible(c)
      BY <1>1, <2>1 DEF OutOfTime, Eligible
    <2> QED BY <1>1, <2>1, <2>2
  <1>12. CASE TimesOut
    BY <1>1, <1>12 DEF TimesOut
  <1>13. CASE ProcessEnds
    BY <1>1, <1>13 DEF ProcessEnds
  <1>14. CASE Collect
    <2>1. pc' \in {"ok", "fail"}
      BY <1>14 DEF Collect
    <2>2. pc = "collect" /\ UNCHANGED <<at, idx, failures>>
      BY <1>14 DEF Collect
    <2> QED BY <1>1, <2>1, <2>2
  <1>15. CASE Book
    BY <1>1, <1>15 DEF Book
  <1>16. CASE TimePasses
    <2>1. /\ UNCHANGED <<disk, pc, todo, failures, at, idx>> /\ left' + took' = left + took
          /\ pc \in {"clear", "trial"}
      BY <1>3, <1>16 DEF TimePasses, driver
    <2> QED BY <1>1, <2>1
  <1>17. CASE JobEnds
    <2>1. pc' = "off" /\ \A c \in DOMAIN todo : todo'[c] = <<>>
      BY <1>17 DEF JobEnds, AllGone
    <2> QED BY <1>1, <1>3, <2>1
  <1>18. CASE JobStarts
    <2>1. UNCHANGED <<pc, todo>> /\ pc = "off"
      BY <1>18 DEF JobStarts, driver
    <2> QED BY <1>1, <2>1
  <1> QED BY <1>4, <1>5, <1>6, <1>7, <1>8, <1>9, <1>10, <1>11, <1>12, <1>13, <1>14, <1>15,
             <1>16, <1>17, <1>18 DEF Next, Work

\* The daemon runs while a trial that needs it is cleared for or runs.
LEMMA DaemonStep ==
  ASSUME Typed, DaemonKept, Next
  PROVE  DaemonKept'
  <1> USE DEF DaemonKept, Cur
  <1>1. UNCHANGED names /\ \A c : Needs(c)' = Needs(c)
    BY CommandStays
  <1>2. CASE StartDriver
    BY <1>2 DEF StartDriver
  <1>3. CASE Pick
    BY <1>3 DEF Pick
  <1>4. CASE Finish
    BY <1>4 DEF Finish
  <1>5. CASE Skip
    BY <1>5 DEF Skip, DaemonStarts
  <1>6. CASE Prepare
    <2>1. pc' = "clear" /\ at' = at /\ daemon' = ("hermes" \in Needs(Cur) /\ TRUE)
      BY <1>6 DEF Prepare, DaemonStarts
    <2> QED BY <1>1, <2>1
  <1>7. CASE Clear \/ GiveUpDrain
    <2>1. pc = "clear" /\ pc' = "trial" /\ UNCHANGED <<at, daemon>>
      BY <1>7 DEF Clear, GiveUpDrain, LaunchTrial
    <2> QED BY <1>1, <2>1
  <1>8. CASE Run
    <2>1. UNCHANGED <<pc, at, daemon>>
      BY <1>8 DEF Run, driver
    <2> QED BY <1>1, <2>1
  <1>9. CASE Boot \/ Exit
    <2>1. UNCHANGED <<pc, at, daemon>>
      BY <1>9, ExitIs DEF Boot, driver
    <2> QED BY <1>1, <2>1
  <1>10. CASE TimesOut
    BY <1>10 DEF TimesOut, DaemonAfter
  <1>11. CASE ProcessEnds
    BY <1>11 DEF ProcessEnds, DaemonAfter
  <1>12. CASE Collect
    <2>1. pc = "collect" /\ pc' \in {"ok", "fail"} /\ daemon' = daemon
      BY <1>12 DEF Collect
    <2> QED BY <2>1
  <1>13. CASE Book
    BY <1>13 DEF Book
  <1>14. CASE TimePasses
    <2>1. UNCHANGED <<pc, at, daemon>>
      BY <1>14 DEF TimePasses, driver
    <2> QED BY <1>1, <2>1
  <1>15. CASE JobEnds
    BY <1>15 DEF JobEnds, AllGone
  <1>16. CASE JobStarts
    <2>1. UNCHANGED <<pc, at, daemon>>
      BY <1>16 DEF JobStarts, driver
    <2> QED BY <1>1, <2>1
  <1> QED BY <1>2, <1>3, <1>4, <1>5, <1>6, <1>7, <1>8, <1>9, <1>10, <1>11, <1>12, <1>13, <1>14,
             <1>15, <1>16 DEF Next, Work

\* The engines about while a trial runs are its own, or outlast the drain.
LEMMA EnginesStep ==
  ASSUME Typed, EnginesKept, Next
  PROVE  EnginesKept'
  <1> USE DEF EnginesKept
  <1>1. CASE Clear
    <2>1. /\ engines' = {} /\ boots' = {} /\ me' = Turn /\ disk' = disk /\ pc' = "trial"
      BY <1>1 DEF Clear, LaunchTrial, Drained, Launch, Becomes
    <2> QED BY <2>1 DEF Turn
  <1>2. CASE GiveUpDrain
    <2>1. /\ UNCHANGED <<engines, boots, ending>> /\ me' = Turn /\ disk' = disk /\ undrained'
          /\ pc = "clear" /\ pc' = "trial"
      BY <1>2 DEF GiveUpDrain, LaunchTrial, Launch, Becomes
    <2> QED BY <2>1 DEF Turn
  <1>3. CASE Run
    <2>1. /\ me' = me /\ pc = "trial" /\ UNCHANGED <<disk, ending, undrained, pc>>
          /\ \A e \in engines' \cup boots' : e \in engines \cup boots \/ e \in {me} \X Role
      BY <1>3, RunnerIs DEF Run, drain, driver
    <2> QED BY <2>1 DEF Turn
  <1>4. CASE Boot
    <2>1. /\ me' = me /\ UNCHANGED <<disk, pc, ending, undrained>>
          /\ engines' \cup boots' \subseteq engines \cup boots
      BY <1>4, BootIs DEF Boot, process, drain, driver
    <2> QED BY <2>1 DEF Turn
  <1>5. CASE Exit
    <2>1. /\ UNCHANGED <<me, disk, pc, undrained>>
          /\ engines' \cup boots' \subseteq engines \cup boots
          /\ \A e \in engines' \cup boots' : e \in ending => e \in ending'
      BY <1>5, ExitIs
    <2> QED BY <2>1 DEF Turn
  <1>6. CASE TimePasses \/ JobStarts
    <2>1. UNCHANGED <<me, engines, boots, ending, undrained, disk, pc>>
      BY <1>6 DEF TimePasses, JobStarts, runnerVars, process, drain, driver
    <2> QED BY <2>1 DEF Turn
  <1>7. CASE Prepare
    <2>1. pc' = "clear" /\ UNCHANGED <<engines, boots>> /\ ending' = engines \cup boots
      BY <1>7, KilledIs DEF Prepare, runnerVars
    <2> QED BY <2>1
  <1>8. CASE StartDriver \/ Pick \/ Finish \/ Skip \/ TimesOut \/ ProcessEnds \/ Collect
             \/ Book \/ JobEnds
    <2>1. pc' \notin {"clear", "trial"}
      BY <1>8 DEF StartDriver, Pick, Finish, Skip, TimesOut, ProcessEnds, Collect, Book, JobEnds
    <2> QED BY <2>1
  <1> QED BY <1>1, <1>2, <1>3, <1>4, <1>5, <1>6, <1>7, <1>8 DEF Next, Work

\* A summary is true to the workflow it is about.
LEMMA RunnerStays ==
  ASSUME RunnerKept, RunnerStep, workload' = workload
  PROVE  RunnerKept'
  <1> USE DEF RunnerKept
  <1>1. Runner' = Runner
    BY DEF Runner
  <1>2. CASE \/ Dies \/ Checks \/ OrchestrateChemGraph \/ OrchestrateExp2 \/ OrchestrateExp3
             \/ OrchestrateFails \/ AssembleChemGraph \/ AssembleExp2 \/ AssembleExp3
             \/ BootOnDemand \/ BootAhead \/ FinallyChemGraph \/ FinallyAtomAgents \/ Leave
    <2>1. /\ UNCHANGED <<progress, returned, summary>>
          /\ stage' = stage \/ stage \notin {"leaving", "left", "gone"} \/ (stage = "leaving" /\ stage' = "left")
      BY <1>2 DEF Dies, Checks, Orchestrated, OrchestrateChemGraph, OrchestrateExp2,
         OrchestrateExp3, OrchestrateFails, Assembled, AssembleChemGraph, AssembleExp2, AssembleExp3,
         BootOnDemand, BootAhead, Stopped, FinallyChemGraph, FinallyAtomAgents, Leave, process
    <2> QED BY <1>1, <2>1
  <1>3. CASE Progresses
    <2>1. /\ stage = "workflow" /\ progress < 3 /\ progress' = progress + 1
          /\ UNCHANGED <<stage, returned, summary>>
      BY <1>3 DEF Progresses
    <2>2. summary = "none" /\ ~returned
      BY <2>1
    <2> QED BY <1>1, <2>1, <2>2
  <1>4. CASE WorkflowEnds
    <2>1. /\ stage = "workflow" /\ UNCHANGED <<progress, summary>>
          /\ returned' => progress = 3
      BY <1>4 DEF WorkflowEnds
    <2> QED BY <1>1, <2>1
  <1>5. CASE AnalysisFails
    <2>1. UNCHANGED <<progress, returned>> /\ summary' = "none"
      BY <1>5 DEF AnalysisFails, Summarised
    <2> QED BY <1>1, <2>1
  <1>6. CASE AnalysisChemGraph \/ AnalysisExp2 \/ AnalysisExp3
    <2>1. /\ UNCHANGED <<progress, returned>> /\ stage' = "leaving" /\ summary' \in Says
          /\ Runner \in {"chemgraph", "exp2", "exp3"}
      BY <1>6 DEF AnalysisChemGraph, AnalysisExp2, AnalysisExp3, Summarised
    <2>2. CASE Runner = "chemgraph"
      BY <1>1, <2>1, <2>2 DEF Says, Said
    <2>3. CASE Runner = "exp2"
      BY <1>1, <2>1, <2>3 DEF Says, Said
    <2>4. CASE Runner = "exp3"
      BY <1>1, <2>1, <2>4 DEF Says
    <2> QED BY <2>1, <2>2, <2>3, <2>4
  <1> QED BY <1>2, <1>3, <1>4, <1>5, <1>6 DEF RunnerStep

LEMMA RunnerKeptStep ==
  ASSUME RunnerKept, Next
  PROVE  RunnerKept'
  <1>1. workload' = workload /\ Runner' = Runner
    BY CommandStays
  <1>2. CASE Run
    BY <1>1, <1>2, RunnerStays DEF Run
  <1>3. CASE Clear \/ GiveUpDrain \/ Collect \/ JobEnds
    <2>1. progress' = 0 /\ returned' = FALSE /\ summary' = "none"
      BY <1>3 DEF Clear, GiveUpDrain, LaunchTrial, Collect, JobEnds, AllGone, Launch, Gone, Becomes
    <2> QED BY <2>1 DEF RunnerKept
  <1>4. CASE TimesOut
    <2>1. UNCHANGED <<progress, returned, summary>> /\ stage' = "gone"
      BY <1>4 DEF TimesOut
    <2> QED BY <1>1, <2>1 DEF RunnerKept
  <1>5. CASE \/ StartDriver \/ Pick \/ Finish \/ Skip \/ Prepare \/ Boot \/ Exit \/ ProcessEnds
             \/ Book \/ TimePasses \/ JobStarts
    <2>1. UNCHANGED <<progress, returned, summary, stage>>
      BY <1>5, BootIs, ExitIs DEF StartDriver, Pick, Finish, Skip, Prepare, Boot, ProcessEnds, Book,
         TimePasses, JobStarts, runnerVars, process
    <2> QED BY <1>1, <2>1 DEF RunnerKept
  <1> QED BY <1>2, <1>3, <1>4, <1>5 DEF Next, Work

-------------------------------------------------------------------------------
(* The ledger.                                                             *)

\* Only a verdict changes what an arm has completed.
LEMMA CompletedStays ==
  ASSUME Typed, HandKept, Next, ~Collect
  PROVE  \A c : Completed(c)' = Completed(c)
  <1>1. CASE Prepare
    <2>1. /\ disk' \in Seq(Trial) /\ Len(disk') = Len(disk) + 1 /\ Turn' = Len(disk) + 1
          /\ \A t \in DOMAIN disk : disk'[t] = disk[t]
          /\ disk'[Turn'].status = "running"
      BY <1>1, BegunIs
    <2>2. DOMAIN disk = 1..Len(disk) /\ Len(disk) \in Nat
      BY DEF Typed
    <2>3. DOMAIN disk' = DOMAIN disk \cup {Turn'}
      BY <2>1, <2>2
    <2>4. \A c : DoneBy(c)' = DoneBy(c)
      BY <2>1, <2>2, <2>3 DEF DoneBy
    <2> QED BY <2>4 DEF Completed, DoneBy
  <1>2. CASE ~Prepare
    <2>1. disk' = disk
      BY <1>2 DEF Next, Work, StartDriver, Pick, Finish, Skip, Clear, GiveUpDrain, LaunchTrial, Run, Boot,
         Exit, TimesOut, ProcessEnds, Book, TimePasses, JobEnds, JobStarts
    <2> QED BY <2>1 DEF Completed
  <1> QED BY <1>1, <1>2

\* A verdict completes at most the trial in hand.
LEMMA CompletedGrows ==
  ASSUME Typed, HandKept, Collect, NEW c
  PROVE  /\ Completed(c) \in Nat
         /\ Completed(c)' = IF c = Cur /\ pc' = "ok" THEN Completed(c) + 1 ELSE Completed(c)
  <1>1. /\ disk' \in Seq(Trial) /\ Len(disk') = Len(disk)
        /\ Turn \in DOMAIN disk /\ disk[Turn].status = "running"
        /\ \A t \in DOMAIN disk : t # Turn => disk'[t] = disk[t]
        /\ disk'[Turn].config = Cur
        /\ pc' = "ok" <=> disk'[Turn].status = "completed"
    BY JudgedIs
  <1>2. DOMAIN disk = 1..Len(disk) /\ DOMAIN disk' = DOMAIN disk /\ disk \in Seq(Trial)
    BY <1>1 DEF Typed
  <1>3. /\ IsFiniteSet(DoneBy(c)) /\ Completed(c) = Cardinality(DoneBy(c)) /\ Completed(c) \in Nat
    BY <1>2, CompletedType
  <1>4. Completed(c)' = Cardinality(DoneBy(c)')
    BY DEF Completed, DoneBy
  <1>5. Turn \notin DoneBy(c)
    BY <1>1 DEF DoneBy
  <1>6. DoneBy(c)' = IF c = Cur /\ pc' = "ok" THEN DoneBy(c) \cup {Turn} ELSE DoneBy(c)
    BY <1>1, <1>2 DEF DoneBy
  <1>7. Cardinality(DoneBy(c) \cup {Turn}) = Cardinality(DoneBy(c)) + 1
    BY <1>3, <1>5, FS_AddElement
  <1> QED BY <1>3, <1>4, <1>6, <1>7

LEMMA LedgerStep ==
  ASSUME Typed, HandKept, Next, NEW c \in Here, LedgerKept(c)
  PROVE  LedgerKept(c)'
  <1> USE DEF LedgerKept, Counted, Cur
  <1>1. UNCHANGED <<names, goal>>
    BY CommandStays
  <1>2. /\ goal \in Nat /\ c \in Arms /\ names \in Seq(Arms) /\ Len(names) \in Nat
    BY CommandType
  <1>3. Completed(c) \in Nat /\ Completed(c) <= goal
    BY CompletedType DEF Typed
  <1>4. todo \in [Arms -> Seq(Nat \ {0})] /\ todo[c] \in Seq(Nat \ {0}) /\ Len(todo[c]) \in Nat
    BY <1>2 DEF Typed
  <1>5. Completed(c)' = Completed(c) \/ Collect
    BY CompletedStays
  <1>6. CASE StartDriver
    <2> DEFINE k == Completed(c)
               g == goal - k
    <2>1. todo'[c] = [i \in 1..g |-> k + i] /\ pc' = "pick"
      BY <1>2, <1>4, <1>6 DEF StartDriver
    <2>2. Completed(c)' = k
      BY <1>5, <1>6 DEF StartDriver, Collect
    <2>3. g \in Nat /\ k \in Nat /\ g + k = goal /\ k <= goal
      BY <1>2, <1>3
    <2> HIDE DEF k, g
    <2>4. Len(todo'[c]) = g
      BY <2>1, <2>3
    <2> QED BY <1>1, <1>2, <2>1, <2>2, <2>3, <2>4
  <1>7. CASE Pick
    <2> DEFINE d == names[NextTurn]
    <2>1. d \in Arms /\ todo[d] # <<>> /\ todo[d] \in Seq(Nat \ {0})
      BY <1>2, <1>4, <1>7, NextTurnIs DEF Pick, Eligible
    <2>2. /\ todo' = [todo EXCEPT ![d] = Tail(@)] /\ names'[at'] = d
          /\ pc = "pick" /\ pc' = "prepare"
      BY <1>1, <1>7 DEF Pick
    <2>3. Completed(c)' = Completed(c)
      BY <1>5, <1>7 DEF Pick, Collect
    <2> HIDE DEF d
    <2>4. Len(Tail(todo[d])) = Len(todo[d]) - 1
      BY <2>1
    <2> QED BY <1>1, <1>2, <1>3, <1>4, <2>1, <2>2, <2>3, <2>4
  <1>8. CASE Collect
    <2>1. Completed(c)' = IF c = Cur /\ pc' = "ok" THEN Completed(c) + 1 ELSE Completed(c)
      BY <1>8, CompletedGrows
    <2>2. pc = "collect" /\ pc' \in {"ok", "fail"} /\ UNCHANGED <<todo, at>>
      BY <1>8 DEF Collect
    <2> QED BY <1>1, <1>2, <1>3, <1>4, <2>1, <2>2
  <1>9. CASE Book
    <2>1. Completed(c)' = Completed(c)
      BY <1>5, <1>9 DEF Book, Collect
    <2>2. /\ pc \in {"ok", "fail", "skip"} /\ pc' = "pick"
          /\ todo' = IF pc = "ok" THEN todo ELSE [todo EXCEPT ![Cur] = Replaced(@, idx)]
      BY <1>9 DEF Book
    <2>3. Len(Replaced(todo[c], idx)) = Len(todo[c]) + 1
      <3> DEFINE x == (IF todo[c] = <<>> THEN idx ELSE Last(todo[c])) + 1
      <3>1. Replaced(todo[c], idx) = Append(todo[c], x)
        BY DEF Replaced
      <3> HIDE DEF x
      <3> QED BY <1>4, <3>1
    <2>4. CASE c = Cur /\ pc # "ok"
      <3>1. todo'[c] = Replaced(todo[c], idx)
        BY <1>2, <1>4, <2>2, <2>4
      <3>2. Counted(c) = 1 /\ Counted(c)' = 0 /\ pc # "off"
        BY <2>2, <2>4
      <3>3. Len(todo'[c]) = Len(todo[c]) + 1
        BY <2>3, <3>1
      <3> HIDE DEF Counted
      <3> QED BY <1>1, <1>2, <1>3, <1>4, <2>1, <3>2, <3>3
    <2>5. CASE ~(c = Cur /\ pc # "ok")
      <3>1. todo'[c] = todo[c]
        BY <1>2, <1>4, <2>2, <2>5
      <3> QED BY <1>1, <1>2, <1>3, <1>4, <2>1, <2>2, <2>5, <3>1
    <2> QED BY <2>4, <2>5
  <1>10. CASE JobEnds
    <2>1. pc' = "off"
      BY <1>10 DEF JobEnds
    <2>2. Completed(c)' = Completed(c)
      BY <1>5, <1>10 DEF JobEnds, Completed
    <2> QED BY <1>1, <2>1, <2>2
  <1>11. CASE JobStarts
    <2>1. pc' = "off"
      BY <1>11 DEF JobStarts, driver
    <2>2. Completed(c)' = Completed(c)
      BY <1>11 DEF JobStarts, Completed
    <2> QED BY <1>1, <2>1, <2>2
  <1>12. CASE Finish \/ Skip \/ Prepare \/ Clear \/ GiveUpDrain \/ Run \/ Boot \/ Exit
              \/ TimesOut \/ ProcessEnds \/ TimePasses
    <2>1. UNCHANGED <<todo, at>>
      BY <1>12 DEF Finish, Skip, Prepare, Clear, GiveUpDrain, LaunchTrial, Run, Boot, Exit,
         TimesOut, ProcessEnds, TimePasses, driver
    <2>2. \/ pc' = pc \/ (pc = "pick" /\ pc' = "done")
          \/ {pc, pc'} \subseteq {"prepare", "skip", "clear", "trial", "collect"}
      BY <1>12 DEF Finish, Skip, Prepare, Clear, GiveUpDrain, LaunchTrial, Run, Boot, Exit,
         TimesOut, ProcessEnds, TimePasses, driver
    <2>3. Completed(c)' = Completed(c)
      <3>1. CASE ~Collect
        BY <1>5, <3>1
      <3>2. CASE Collect
        BY <1>12, <3>2 DEF Collect, Finish, Skip, Prepare, Clear, GiveUpDrain, LaunchTrial, Run,
           Boot, Exit, TimesOut, ProcessEnds, TimePasses, driver, Completed
      <3> QED BY <3>1, <3>2
    <2>4. Counted(c)' = Counted(c) /\ (pc' = "off" <=> pc = "off")
      BY <1>1, <2>1, <2>2
    <2> HIDE DEF Counted
    <2> QED BY <1>1, <2>1, <2>3, <2>4
  <1> QED BY <1>6, <1>7, <1>8, <1>9, <1>10, <1>11, <1>12 DEF Next, Work

-------------------------------------------------------------------------------
(* The evidence.                                                           *)

\* A completed trial has a summary that says so, and a process that ended.
LEMMA VerdictIsTrue ==
  ASSUME RunnerKept, NEW long \in BOOLEAN, Verdict(long) = "completed"
  PROVE  /\ Runner = "chemgraph" => Done(long) = "all"
         /\ summary \in {"done", "not_done"} => Done(long) # "nothing"
  <1>1. stage = "left" /\ summary \notin {"none", "not_done"}
    BY DEF Verdict
  <1>2. progress \in 0..3
    BY DEF RunnerKept
  <1>3. ASSUME Runner = "chemgraph"
        PROVE  Done(long) = "all"
    <2>1. returned /\ progress = 3
      BY <1>1, <1>3 DEF RunnerKept
    <2> QED BY <2>1 DEF Done
  <1>4. ASSUME summary \in {"done", "not_done"}
        PROVE  Done(long) # "nothing"
    <2>1. progress >= 2
      BY <1>1, <1>4 DEF RunnerKept
    <2> QED BY <1>2, <2>1 DEF Done
  <1> QED BY <1>3, <1>4

LEMMA EvidenceStep ==
  ASSUME Typed, HandKept, RunnerKept, Next, \A t \in DOMAIN disk : EvidenceKept(t),
         NEW t \in DOMAIN disk'
  PROVE  EvidenceKept(t)'
  <1>1. Runner' = Runner /\ \A c : Needs(c)' = Needs(c)
    BY CommandStays
  <1>2. /\ disk \in Seq(Trial) /\ Len(disk) \in Nat /\ DOMAIN disk = 1..Len(disk)
        /\ \A u \in DOMAIN disk : disk[u].oracle < u /\ disk[u].oracle \in Nat
    <2>1. disk \in Seq(Trial) /\ \A u \in DOMAIN disk : disk[u].oracle < u
      BY DEF Typed
    <2>2. Len(disk) \in Nat /\ DOMAIN disk = 1..Len(disk) /\ \A u \in DOMAIN disk : disk[u] \in Trial
      BY <2>1
    <2> QED BY <2>1, <2>2 DEF Trial
  \* An earlier trial keeps its evidence when what is on disk of the trials up
  \* to it stays as it is.
  <1>3. ASSUME t \in DOMAIN disk, EvidenceKept(t),
               disk'[t].config = disk[t].config, disk'[t].oracle = disk[t].oracle,
               disk'[t].status = "completed" =>
                  /\ Runner = "chemgraph" => disk'[t].did = "all"
                  /\ disk'[t].told => disk'[t].did # "nothing",
               \A u \in DOMAIN disk : u < t => u \in DOMAIN disk' /\ disk'[u] = disk[u]
        PROVE  EvidenceKept(t)'
    <2>1. CASE "oracle_trace" \in Needs(disk[t].config)
      <3> DEFINE o == disk[t].oracle
      <3>1. o \in Nat /\ o < t /\ o # 0 /\ disk[o].status = "completed"
        BY <1>2, <1>3, <2>1 DEF EvidenceKept
      <3>2. \A u \in (o + 1)..(t - 1) : u \notin References
        BY <1>3, <2>1 DEF EvidenceKept
      <3> HIDE DEF o
      <3>3. o \in DOMAIN disk /\ disk'[o].status = "completed"
        BY <1>2, <1>3, <3>1
      <3>4. \A u \in (o + 1)..(t - 1) : u \notin References'
        <4> TAKE u \in (o + 1)..(t - 1)
        <4>1. u \in DOMAIN disk /\ u < t
          BY <1>2, <1>3, <3>1
        <4>2. disk'[u] = disk[u] /\ u \notin References
          BY <1>3, <3>2, <4>1
        <4> QED BY <4>1, <4>2 DEF References
      <3>5. disk'[t].oracle = o
        BY <1>3 DEF o
      <3> QED BY <1>1, <1>3, <3>1, <3>3, <3>4, <3>5 DEF EvidenceKept
    <2>2. CASE "oracle_trace" \notin Needs(disk[t].config)
      BY <1>1, <1>3, <2>2 DEF EvidenceKept
    <2> QED BY <2>1, <2>2
  <1>4. CASE Prepare
    <2>1. /\ disk' \in Seq(Trial) /\ Len(disk') = Len(disk) + 1 /\ Turn' = Len(disk) + 1
          /\ \A u \in DOMAIN disk : disk'[u] = disk[u]
          /\ disk'[Turn'].status = "running" /\ disk'[Turn'].config = Cur
          /\ disk'[Turn'].oracle = IF "oracle_trace" \in Needs(Cur) THEN OracleTrace ELSE 0
      BY <1>4, BegunIs
    <2>2. DOMAIN disk' = 1..(Len(disk) + 1)
      BY <2>1
    <2>3. CASE t \in DOMAIN disk
      <3>1. \A u \in DOMAIN disk : u \in DOMAIN disk'
        BY <1>2, <2>2
      <3>2. EvidenceKept(t) /\ disk'[t] = disk[t]
        BY <2>1, <2>3
      <3> QED BY <1>3, <2>1, <2>3, <3>1, <3>2 DEF EvidenceKept
    <2>4. CASE t = Len(disk) + 1
      <3>1. /\ disk'[t].status = "running" /\ disk'[t].config = Cur
            /\ disk'[t].oracle = IF "oracle_trace" \in Needs(Cur) THEN OracleTrace ELSE 0
        BY <2>1, <2>4
      <3>2. CASE "oracle_trace" \in Needs(Cur)
        <4> DEFINE o == OracleTrace
        <4>1. /\ o # 0 /\ o \in 0..Len(disk) /\ o \in References
              /\ \A u \in DOMAIN disk : u > o => u \notin References
          BY <1>4, <3>2, OracleTraceIs DEF Prepare
        <4>2. disk'[t].oracle = o
          BY <3>1, <3>2
        <4> HIDE DEF o
        <4>3. o \in DOMAIN disk /\ disk'[o].status = "completed"
          BY <1>2, <2>1, <4>1 DEF References
        <4>4. \A u \in (o + 1)..(t - 1) : u \notin References'
          <5> TAKE u \in (o + 1)..(t - 1)
          <5>1. u \in DOMAIN disk /\ u > o
            BY <1>2, <2>4, <4>1
          <5>2. disk'[u] = disk[u] /\ u \notin References
            BY <2>1, <4>1, <5>1
          <5> QED BY <5>1, <5>2 DEF References
        <4> QED BY <1>1, <3>1, <4>1, <4>2, <4>3, <4>4 DEF EvidenceKept
      <3>3. CASE "oracle_trace" \notin Needs(Cur)
        BY <1>1, <3>1, <3>3 DEF EvidenceKept
      <3> QED BY <3>2, <3>3
    <2> QED BY <1>2, <2>2, <2>3, <2>4
  <1>5. CASE Collect
    <2>1. /\ disk' \in Seq(Trial) /\ Len(disk') = Len(disk) /\ Turn' = Turn
          /\ Turn \in DOMAIN disk /\ disk[Turn].config = Cur
          /\ \A u \in DOMAIN disk : u # Turn => disk'[u] = disk[u]
          /\ disk'[Turn].config = Cur /\ disk'[Turn].oracle = disk[Turn].oracle
      BY <1>5, JudgedIs
    <2>2. PICK long \in BOOLEAN :
            /\ disk'[Turn].status = Verdict(long) /\ disk'[Turn].did = Done(long)
            /\ disk'[Turn].told = (summary \in {"done", "not_done"})
      BY <1>5, JudgedIs
    <2>3. DOMAIN disk' = DOMAIN disk /\ Turn = Len(disk)
      BY <1>2, <2>1 DEF Turn
    <2>4. \A u \in DOMAIN disk : u < t => u # Turn
      BY <1>2, <2>3
    <2>5. \A u \in DOMAIN disk : u < t => u \in DOMAIN disk' /\ disk'[u] = disk[u]
      BY <2>1, <2>3, <2>4
    <2>6. t \in DOMAIN disk /\ EvidenceKept(t)
      BY <2>3
    <2>7. CASE t = Turn
      <3>1. disk'[t].status = "completed" =>
                  /\ Runner = "chemgraph" => disk'[t].did = "all"
                  /\ disk'[t].told => disk'[t].did # "nothing"
        BY <2>2, <2>7, VerdictIsTrue
      <3> QED BY <1>3, <2>1, <2>5, <2>6, <2>7, <3>1
    <2>8. CASE t # Turn
      BY <1>3, <2>1, <2>5, <2>6, <2>8 DEF EvidenceKept
    <2> QED BY <2>7, <2>8
  <1>6. CASE ~Prepare /\ ~Collect
    <2>1. disk' = disk
      BY <1>6 DEF Next, Work, StartDriver, Pick, Finish, Skip, Clear, GiveUpDrain, LaunchTrial, Run, Boot,
         Exit, TimesOut, ProcessEnds, Book, TimePasses, JobEnds, JobStarts
    <2>2. t \in DOMAIN disk /\ EvidenceKept(t)
      BY <2>1
    <2> QED BY <1>3, <2>1, <2>2 DEF EvidenceKept
  <1> QED BY <1>4, <1>5, <1>6

-------------------------------------------------------------------------------
(* The theorems.                                                           *)

LEMMA StillD ==
  ASSUME DInv, UNCHANGED vars
  PROVE  DInv'
  <1>1. /\ UNCHANGED <<workload, me, stage, progress, returned, summary, engines, boots>>
        /\ UNCHANGED <<disk, names, goal, order, pc, todo, failures, at, idx, daemon, timedOut>>
        /\ UNCHANGED <<left, took, jobs, turns, ending, undrained>>
    BY DEF vars, runnerVars, process, drain, driver, command
  <1>2. /\ Typed' = Typed /\ HandKept' = HandKept /\ DaemonKept' = DaemonKept
        /\ EnginesKept' = EnginesKept /\ RunnerKept' = RunnerKept
    BY <1>1 DEF Typed, Arms, Trial, Turn, HandKept, InHand, HasDirectory, Cur, OutOfTime, Est, Here, Eligible,
       DaemonKept, Needs, EnginesKept, RunnerKept, Runner
  <1>3. Here' = Here /\ \A c : LedgerKept(c)' = LedgerKept(c)
    BY <1>1 DEF Here, LedgerKept, Completed, Counted, Cur
  <1>4. \A t : EvidenceKept(t)' = EvidenceKept(t)
    BY <1>1 DEF EvidenceKept, Runner, Needs, References
  <1> QED BY <1>1, <1>2, <1>3, <1>4 DEF DInv

\* Every step of the driver, of a process and of a job keeps the invariant.
LEMMA StepD ==
  ASSUME DInv, [Next]_vars
  PROVE  DInv'
  <1>1. CASE Next
    <2>1. Typed' /\ HandKept' /\ DaemonKept' /\ EnginesKept' /\ RunnerKept'
      BY <1>1, TypedStep, HandStep, DaemonStep, EnginesStep, RunnerKeptStep DEF DInv
    <2>2. \A c \in Here' : LedgerKept(c)'
      <3>1. Here' = Here
        BY <1>1, CommandStays
      <3>2. \A c \in Here : LedgerKept(c)'
        BY <1>1, LedgerStep DEF DInv
      <3> QED BY <3>1, <3>2
    <2>3. \A t \in DOMAIN disk' : EvidenceKept(t)'
      BY <1>1, EvidenceStep DEF DInv
    <2> QED BY <2>1, <2>2, <2>3 DEF DInv
  <1>2. CASE UNCHANGED vars
    BY <1>2, StillD
  <1> QED BY <1>1, <1>2

\* The invariant holds in every state of a campaign, over any number of jobs
\* that are cut short and resumed.
THEOREM CampaignInductive == Spec => []DInv
  <1>1. Init => DInv
    BY InitD
  <1>2. DInv /\ [Next]_vars => DInv'
    BY StepD
  <1> QED BY <1>1, <1>2, PTL DEF Spec

\* run_eval_q1_q4.py:493-573: no trial meets an engine that an earlier one left
\* behind or is booting, but for one that was told to end and outlasted a drain
\* the driver gave up, and the daemon runs for the trials that need it.
THEOREM TrialsAreIsolated == Spec => []TrialsIsolated
  <1>1. ASSUME DInv
        PROVE  TrialsIsolated
    <2>1. DaemonKept /\ EnginesKept /\ daemon \in BOOLEAN
      BY <1>1 DEF DInv, Typed
    <2>2. FreshEngines
      BY <2>1 DEF EnginesKept, FreshEngines
    <2>3. pc = "trial" => daemon = ("hermes" \in Needs(Cur))
      BY <2>1 DEF DaemonKept
    <2>4. daemon => pc \in {"clear", "trial"}
      BY <2>1 DEF DaemonKept
    <2> QED BY <2>2, <2>3, <2>4 DEF TrialsIsolated, DaemonPerTrial
  <1> QED BY <1>1, CampaignInductive, PTL

\* What is written of a trial stays written, and the end of a job cuts only
\* trials that took longer than the driver had left room for.
THEOREM RecordsStay == Spec => DiskIsRecord
  <1>1. ASSUME DInv, [Next]_vars
        PROVE  [VerdictsStayStep /\ CutWhenLateStep]_vars
    <2>1. Typed /\ HandKept
      BY <1>1 DEF DInv
    <2>2. VerdictsStayStep \/ UNCHANGED vars
      <3>1. DOMAIN disk = 1..Len(disk) /\ Len(disk) \in Nat
        BY <2>1 DEF Typed
      <3>2. CASE Prepare
        <4>1. disk' \in Seq(Trial) /\ Len(disk') = Len(disk) + 1 /\ \A t \in DOMAIN disk : disk'[t] = disk[t]
          BY <2>1, <3>2, BegunIs
        <4>2. \A t \in DOMAIN disk : t \in DOMAIN disk'
          BY <3>1, <4>1
        <4> QED BY <4>1, <4>2 DEF VerdictsStayStep
      <3>3. CASE Collect
        <4>1. /\ disk' \in Seq(Trial) /\ Len(disk') = Len(disk)
              /\ disk[Turn].status = "running"
              /\ \A t \in DOMAIN disk : t # Turn => disk'[t] = disk[t]
          BY <2>1, <3>3, JudgedIs
        <4>2. DOMAIN disk' = DOMAIN disk
          BY <3>1, <4>1
        <4> QED BY <4>1, <4>2 DEF VerdictsStayStep
      <3>4. CASE Next /\ ~Prepare /\ ~Collect
        <4>1. disk' = disk
          BY <3>4 DEF Next, Work, StartDriver, Pick, Finish, Skip, Clear, GiveUpDrain, LaunchTrial, Run, Boot,
             Exit, TimesOut, ProcessEnds, Book, TimePasses, JobEnds, JobStarts
        <4> QED BY <4>1 DEF VerdictsStayStep
      <3> QED BY <1>1, <3>2, <3>3, <3>4
    <2>3. CutWhenLateStep
      <3>1. took \in Nat /\ Est \in Nat /\ Margin \in Nat
        BY <2>1, CommandType DEF Typed
      <3>2. left = 0 /\ pc \in {"clear", "trial"} => left + took >= Est + Margin
        BY <2>1 DEF HandKept
      <3> QED BY <3>1, <3>2 DEF CutWhenLateStep
    <2> QED BY <2>2, <2>3
  <1> QED BY <1>1, CampaignInductive, PTL DEF Spec, DiskIsRecord

-------------------------------------------------------------------------------
(* The arms of a workload are different runs.                              *)

LEMMA ArmIs ==
  \A m, p, f, n : Arm(m, p, f, n).mode = m /\ Arm(m, p, f, n).predictor = p /\ Arm(m, p, f, n).flags = f
  BY DEF Arm

\* Two arms differ in their mode, their predictor or a switch that is told apart.
Alike(arms, c, d, told) ==
    /\ arms[c].mode = arms[d].mode /\ arms[c].predictor = arms[d].predictor
    /\ \A f \in told : f \in arms[c].flags <=> f \in arms[d].flags

LEMMA SwapArmsDiffer ==
  ASSUME NEW c \in DOMAIN SwapArms, NEW d \in DOMAIN SwapArms,
         Alike(SwapArms, c, d, {"no_plan_extraction", "no_divergence_guard", "naive_prefetch", "sleep_wake",
                                "no_cache_stage"}),
         "no_cache_stage" \notin SwapArms[c].flags =>
             Alike(SwapArms, c, d, {"megammap_stage"}),
         "no_cache_stage" \notin SwapArms[c].flags /\ "megammap_stage" \in SwapArms[c].flags =>
             Alike(SwapArms, c, d, {"megammap_rand"})
  PROVE  c = d
  <1>1. DOMAIN SwapArms = {"baseline", "observe_only", "simulated", "full_system", "sleep_wake", "no_cache_stage",
            "naive_prefetch", "no_divergence_guard", "no_plan", "plan_only", "transition_only", "oracle",
            "megammap_stage", "megammap_stage_rand"}
    BY DEF SwapArms
  <1>2. /\ SwapArms["baseline"] = Arm("baseline", "mock", {}, {})
        /\ SwapArms["observe_only"] = Arm("observe_only", "learned", {}, {})
        /\ SwapArms["simulated"] = Arm("simulated", "learned", {}, {})
        /\ SwapArms["full_system"] = Arm("real", "learned", {}, {})
        /\ SwapArms["sleep_wake"] = Arm("real", "learned", {"sleep_wake"}, {"opt_in"})
        /\ SwapArms["no_cache_stage"] = Arm("real", "learned", {"no_cache_stage"}, {})
        /\ SwapArms["naive_prefetch"] = Arm("real", "learned", {"naive_prefetch"}, {})
        /\ SwapArms["no_divergence_guard"] = Arm("real", "learned", {"no_divergence_guard"}, {})
        /\ SwapArms["no_plan"] = Arm("real", "learned", {"no_plan_extraction"}, {})
        /\ SwapArms["plan_only"] = Arm("real", "plan_only", {}, {})
        /\ SwapArms["transition_only"] = Arm("real", "transition_only", {}, {})
        /\ SwapArms["oracle"] = Arm("real", "oracle", {}, {"oracle_trace"})
        /\ SwapArms["megammap_stage"] = Arm("real", "learned", {"megammap_stage"}, {"hermes"})
        /\ SwapArms["megammap_stage_rand"] =
               Arm("real", "learned", {"megammap_stage", "megammap_rand"}, {"hermes"})
    BY DEF SwapArms, Learned
  <1> QED BY <1>1, <1>2, ArmIs DEF Alike

\* The arms of the two screens differ in the trigger of blind_stage only.
LEMMA ScreenArmsDiffer ==
  ASSUME NEW arms \in {ScreenArms, PoolArms}, NEW c \in DOMAIN arms, NEW d \in DOMAIN arms,
         Alike(arms, c, d, {"no_plan_extraction", "no_divergence_guard", "naive_prefetch", "no_cache_stage",
                            "unpinned"}),
         "no_plan_extraction" \notin arms[c].flags => Alike(arms, c, d, {Early})
  PROVE  c = d
  <1>1. DOMAIN arms = {"baseline", "full_system", "blind_stage", "no_cache_stage", "naive_prefetch",
            "no_divergence_guard", "no_plan", "plan_only", "transition_only", "unpinned", "oracle"}
    BY DEF ScreenArms, PoolArms
  <1>2. /\ arms["baseline"] = Arm("baseline", "mock", {}, {})
        /\ arms["full_system"] = Arm("real", "learned", {Early}, {})
        /\ arms["no_cache_stage"] = Arm("real", "learned", {Early, "no_cache_stage"}, {})
        /\ arms["naive_prefetch"] = Arm("real", "learned", {"naive_prefetch"}, {})
        /\ arms["no_divergence_guard"] = Arm("real", "learned", {Early, "no_divergence_guard"}, {})
        /\ arms["no_plan"] = Arm("real", "learned", {"no_plan_extraction"}, {})
        /\ arms["plan_only"] = Arm("real", "plan_only", {Early}, {})
        /\ arms["transition_only"] = Arm("real", "transition_only", {Early}, {})
        /\ arms["unpinned"] = Arm("real", "learned", {Early, "unpinned"}, {})
        /\ arms["oracle"] = Arm("real", "oracle", {Early}, {"oracle_trace"})
    BY DEF ScreenArms, PoolArms, Learned
  <1>3. \/ arms["blind_stage"] = Arm("real", "learned", {}, {})
        \/ arms["blind_stage"] = Arm("real", "learned", {"blind_preboot"}, {})
    BY DEF ScreenArms, PoolArms, Learned
  <1> QED BY <1>1, <1>2, <1>3, ArmIs DEF Alike, Early

LEMMA AtomArmsDiffer ==
  ASSUME NEW c \in DOMAIN AtomArms, NEW d \in DOMAIN AtomArms,
         Alike(AtomArms, c, d, {"no_plan_extraction", "no_divergence_guard", "naive_prefetch",
                                "skip_vllm_model", "skip_data_file"})
  PROVE  c = d
  <1>1. DOMAIN AtomArms = {"baseline", "observe_only", "full_system", "no_plan", "no_divergence_guard",
            "naive_prefetch", "no_model_prefetch", "no_data_prefetch"}
    BY DEF AtomArms
  <1>2. /\ AtomArms["baseline"] = Arm("baseline", "mock", {}, {})
        /\ AtomArms["observe_only"] = Arm("observe_only", "learned", {}, {})
        /\ AtomArms["full_system"] = Arm("real", "learned", {}, {})
        /\ AtomArms["no_plan"] = Arm("real", "learned", {"no_plan_extraction"}, {})
        /\ AtomArms["no_divergence_guard"] = Arm("real", "learned", {"no_divergence_guard"}, {})
        /\ AtomArms["naive_prefetch"] = Arm("real", "learned", {"naive_prefetch"}, {})
        /\ AtomArms["no_model_prefetch"] = Arm("real", "learned", {"skip_vllm_model"}, {})
        /\ AtomArms["no_data_prefetch"] = Arm("real", "learned", {"skip_data_file"}, {})
    BY DEF AtomArms, Learned
  <1> QED BY <1>1, <1>2, ArmIs DEF Alike

\* Every switch but the pinned calculator is set by the workload or the arm.
LEMMA SwitchesAre ==
  ASSUME NEW w, NEW c
  PROVE  /\ \A f : f \notin {"unpinned", "pin_calculator"} =>
                (f \in Switches(w, c) <=> f \in Workloads[w].base \cup Workloads[w].arms[c].flags)
         /\ "pin_calculator" \in Workloads[w].base /\ "unpinned" \notin Workloads[w].base =>
                ("pin_calculator" \in Switches(w, c) <=> "unpinned" \notin Workloads[w].arms[c].flags)
  BY DEF Switches

LEMMA WorkloadIs ==
  /\ DOMAIN Workloads = {"chemgraph_swap", "chemgraph_ensemble", "chemgraph_screen", "chemgraph_screen_pool",
                         "atomagents_exp2", "atomagents_exp3"}
  /\ \A w \in {"chemgraph_swap", "chemgraph_ensemble"} :
        Workloads[w].runner = "chemgraph" /\ Workloads[w].arms = SwapArms
  /\ \A w \in {"chemgraph_screen", "chemgraph_screen_pool"} :
        /\ Workloads[w].runner = "chemgraph" /\ Workloads[w].arms \in {ScreenArms, PoolArms}
        /\ "pin_calculator" \in Workloads[w].base /\ "unpinned" \notin Workloads[w].base
  /\ \A w \in {"atomagents_exp2", "atomagents_exp3"} :
        Workloads[w].runner # "chemgraph" /\ Workloads[w].arms = AtomArms
  /\ \A w \in DOMAIN Workloads :
        /\ "swap_models" \in Workloads[w].base
        /\ {"no_plan_extraction", "no_divergence_guard", "naive_prefetch", "sleep_wake", "no_cache_stage",
            "megammap_stage", "megammap_rand", "blind_preboot", Early, "skip_vllm_model", "skip_data_file"}
             \cap Workloads[w].base = {}
  BY DEF Workloads, Swap, Early

\* chemgraph_exp.py and the AtomAgents runners assemble no two arms of a
\* workload into the same run.
LEMMA ArmsDiffer ==
  ASSUME NEW w \in DOMAIN Workloads, NEW c \in DOMAIN Workloads[w].arms, NEW d \in DOMAIN Workloads[w].arms,
         Settings(w, c) = Settings(w, d)
  PROVE  c = d
  <1> DEFINE told == {"no_plan_extraction", "no_divergence_guard", "naive_prefetch", "sleep_wake",
                      "no_cache_stage", "megammap_stage", "megammap_rand", "blind_preboot", Early,
                      "skip_vllm_model", "skip_data_file"}
             arms == Workloads[w].arms
  <1>1. \A f \in told, a \in {c, d} : f \in Switches(w, a) <=> f \in arms[a].flags
    BY SwitchesAre, WorkloadIs DEF Early
  <1>2. \A a \in {c, d} : "swap_models" \in Switches(w, a)
    BY SwitchesAre, WorkloadIs
  <1> HIDE DEF arms
  <1>3. CASE Workloads[w].runner = "chemgraph"
    <2> DEFINE s == ChemGraphSettings(w, c)
               t == ChemGraphSettings(w, d)
    <2>1. s = t
      BY <1>3 DEF Settings
    <2>2. \A a \in {c, d} :
            LET r == ChemGraphSettings(w, a)
            IN  /\ r.mode = arms[a].mode /\ r.predictor = arms[a].predictor
                /\ r.plan = ("no_plan_extraction" \notin Switches(w, a))
                /\ r.cancels = ("no_divergence_guard" \notin Switches(w, a))
                /\ r.naive = ("naive_prefetch" \in Switches(w, a))
                /\ r.staging = Staging(Switches(w, a))
                /\ r.early = (Early \in Switches(w, a) /\ "no_plan_extraction" \notin Switches(w, a))
                /\ r.sleepWake = ("sleep_wake" \in Switches(w, a))
                /\ r.pinned = ("pin_calculator" \in Switches(w, a))
      BY DEF ChemGraphSettings, arms
    <2> HIDE DEF s, t
    <2>3. Alike(arms, c, d, {"no_plan_extraction", "no_divergence_guard", "naive_prefetch", "sleep_wake"})
      BY <1>1, <2>1, <2>2 DEF Alike, s, t
    <2>4. "no_plan_extraction" \notin arms[c].flags => Alike(arms, c, d, {Early})
      BY <1>1, <2>1, <2>2, <2>3 DEF Alike, s, t
    <2>5. Staging(Switches(w, c)) = Staging(Switches(w, d))
      BY <2>1, <2>2 DEF s, t
    <2>6. /\ Alike(arms, c, d, {"no_cache_stage"})
          /\ "no_cache_stage" \notin arms[c].flags => Alike(arms, c, d, {"megammap_stage"})
          /\ "no_cache_stage" \notin arms[c].flags /\ "megammap_stage" \in arms[c].flags =>
                 Alike(arms, c, d, {"megammap_rand"})
      BY <1>1, <1>2, <2>3, <2>5 DEF Alike, Staging
    <2>7. CASE w \in {"chemgraph_swap", "chemgraph_ensemble"}
      <3>1. arms = SwapArms
        BY <2>7, WorkloadIs DEF arms
      <3>2. Alike(arms, c, d, {"no_plan_extraction", "no_divergence_guard", "naive_prefetch", "sleep_wake",
                               "no_cache_stage"})
        BY <2>3, <2>6 DEF Alike
      <3> QED BY <2>6, <3>1, <3>2, SwapArmsDiffer DEF arms
    <2>8. CASE w \in {"chemgraph_screen", "chemgraph_screen_pool"}
      <3>1. arms \in {ScreenArms, PoolArms}
        BY <2>8, WorkloadIs DEF arms
      <3>2. Alike(arms, c, d, {"unpinned"})
        BY <2>1, <2>2, <2>3, <2>8, SwitchesAre, WorkloadIs DEF Alike, arms, s, t
      <3>3. Alike(arms, c, d, {"no_plan_extraction", "no_divergence_guard", "naive_prefetch", "no_cache_stage",
                               "unpinned"})
        BY <2>3, <2>6, <3>2 DEF Alike
      <3> QED BY <2>4, <3>1, <3>3, ScreenArmsDiffer DEF arms
    <2> QED BY <1>3, <2>7, <2>8, WorkloadIs
  <1>4. CASE Workloads[w].runner # "chemgraph"
    <2>1. AtomSettings(w, c) = AtomSettings(w, d)
      BY <1>4 DEF Settings
    <2>2. \A a \in {c, d} :
            LET r == AtomSettings(w, a)
            IN  /\ r.mode = arms[a].mode /\ r.predictor = arms[a].predictor
                /\ r.plan = ("no_plan_extraction" \notin Switches(w, a))
                /\ r.cancels = ("no_divergence_guard" \notin Switches(w, a))
                /\ r.naive = ("naive_prefetch" \in Switches(w, a))
                /\ r.skip = {x \in {"skip_vllm_model", "skip_data_file"} : x \in Switches(w, a)}
      BY DEF AtomSettings, arms
    <2>3. Alike(arms, c, d, {"no_plan_extraction", "no_divergence_guard", "naive_prefetch",
                             "skip_vllm_model", "skip_data_file"})
      BY <1>1, <2>1, <2>2 DEF Alike
    <2>4. arms = AtomArms
      BY <1>4, WorkloadIs DEF arms
    <2> QED BY <2>3, <2>4, AtomArmsDiffer DEF arms
  <1> QED BY <1>3, <1>4
-------------------------------------------------------------------------------
(* What the results say.                                                   *)

\* What counts toward N has worked (run_eval_q1_q4.py:15-16) unless its summary
\* does not tell, an oracle
\* replays the newest reference there was when it was begun, and the settings
\* of a trial are those of no other arm.
THEOREM EvidenceIsGood == Spec => []TrialsAreEvidence
  <1>1. ASSUME DInv
        PROVE  CompletedWorked /\ OracleFromCompleted
    <2>1. \A t \in DOMAIN disk : EvidenceKept(t)
      BY <1>1 DEF DInv
    <2> QED BY <2>1 DEF EvidenceKept, CompletedWorked, OracleFromCompleted
  <1>2. ASSUME DInv
        PROVE  ArmsApart
    <2>1. workload \in DOMAIN Workloads /\ Here \subseteq DOMAIN Workloads[workload].arms
      BY <1>2, CommandType DEF DInv
    <2> QED BY <2>1, ArmsDiffer DEF ArmsApart, Doubles
  <1> QED BY <1>1, <1>2, CampaignInductive, PTL DEF TrialsAreEvidence

\* The books are right and an arm is short of its target only for its
\* failures, also where an arm is named twice on the command line.
LEMMA BooksAreRight ==
  ASSUME DInv
  PROVE  TypeOK /\ Ledger /\ ShortForAReason
  <1>1. Typed /\ HandKept
    BY DEF DInv
  <1>2. TypeOK
    <2>1. DOMAIN disk = 1..Len(disk) /\ \A t \in DOMAIN disk : disk[t] \in Trial
      BY <1>1 DEF Typed
    <2>2. \A t \in DOMAIN disk :
            /\ disk[t].config \in DOMAIN Workloads[workload].arms
            /\ disk[t].status \in {"running", "completed", "failed", "timeout"}
            /\ disk[t].index \in Nat \ {0} /\ disk[t].oracle < t
      BY <1>1, <2>1 DEF Typed, Trial, Arms, Standing
    <2> QED BY <1>1, <2>2 DEF TypeOK, Typed, Arms
  <1>3. Ledger
    BY DEF DInv, LedgerKept, Counted, Ledger
  <1>4. ShortForAReason
    <2>1. ASSUME NEW c \in Here, pc = "done", ~OutOfTime, Completed(c) < goal
          PROVE  failures[c] = MaxFailures
      <3>1. ~Eligible(c)
        BY <1>1, <2>1 DEF HandKept
      <3>2. Completed(c) + Len(todo[c]) = goal
        <4>1. LedgerKept(c) /\ Counted(c) = 0
          BY <2>1 DEF DInv, Counted
        <4>2. Completed(c) \in Nat /\ c \in Arms /\ todo[c] \in Seq(Nat \ {0})
          BY <1>1, CompletedType, CommandType DEF Typed
        <4> QED BY <2>1, <4>1, <4>2 DEF LedgerKept
      <3>3. Completed(c) \in Nat /\ goal \in Nat /\ failures[c] \in 0..MaxFailures /\ MaxFailures \in Nat
        BY <1>1, CompletedType, CommandType DEF Typed
      <3>4. todo[c] # <<>>
        <4>1. CASE todo[c] = <<>>
          <5>1. Len(todo[c]) = 0
            BY <4>1
          <5> QED BY <2>1, <3>2, <3>3, <5>1
        <4> QED BY <4>1
      <3>5. failures[c] >= MaxFailures
        BY <3>1, <3>3, <3>4 DEF Eligible
      <3> QED BY <3>3, <3>5
    <2> QED BY <2>1 DEF ShortForAReason
  <1> QED BY <1>2, <1>3, <1>4

\* The turns of a round: position p is where the round goes on.
Round == IF InHand THEN at + 1 ELSE at
Live(c) == Eligible(c) \/ (InHand /\ c = Cur)
LiveAt == {i \in DOMAIN names : Live(names[i])}

\* Arms still in the campaign had one turn more before that place than after it.
RoundKept ==
    order = "roundrobin" /\ pc # "off" =>
        \A i, j \in LiveAt :
            /\ (i < Round <=> j < Round) => turns[names[i]] = turns[names[j]]
            /\ i < Round /\ Round <= j => turns[names[i]] = turns[names[j]] + 1

LEMMA NamesDiffer ==
  ASSUME Typed, DistinctArms
  PROVE  \A i, j \in DOMAIN names : names[i] = names[j] => i = j
  <1> DEFINE cmd == [workload |-> workload, configs |-> names, trials |-> goal, order |-> order]
  <1>1. cmd \in Commands
    BY DEF Typed
  <1>2. cmd.configs = names
    OBVIOUS
  <1> HIDE DEF cmd
  <1> QED BY <1>1, <1>2 DEF DistinctArms

LEMMA RoundStep ==
  ASSUME DInv, DInv', DistinctArms, RoundKept, [Next]_vars
  PROVE  RoundKept'
  <1>1. /\ Typed /\ HandKept /\ UNCHANGED <<names, order>>
    BY CommandStays DEF DInv, Typed, HandKept
  <1>2. /\ names \in Seq(Arms) /\ Len(names) \in Nat /\ DOMAIN names = 1..Len(names) /\ at \in Nat
        /\ Here = {names[i] : i \in 1..Len(names)} /\ turns \in [Arms -> Nat]
    <2>1. /\ names \in Seq(Arms) /\ Len(names) \in Nat /\ Here = {names[i] : i \in 1..Len(names)}
      BY <1>1, CommandType
    <2>2. at \in 1..(Len(names) + 1) /\ turns \in [Arms -> Nat]
      BY <1>1 DEF Typed
    <2> QED BY <2>1, <2>2
  \* Nothing changes for those who remain as long as the round stands still.
  <1>3. ASSUME pc # "off", Round' = Round, turns' = turns, LiveAt' \subseteq LiveAt
        PROVE  RoundKept'
    BY <1>1, <1>3 DEF RoundKept
  <1>4. CASE StartDriver
    <2>1. /\ at' = 1 /\ pc' = "pick" /\ \A c \in DOMAIN turns : turns'[c] = 0
      BY <1>4 DEF StartDriver
    <2>2. Round' = 1
      BY <2>1 DEF Round, InHand
    <2>3. \A i \in LiveAt' : i \in 1..Len(names) /\ turns'[names'[i]] = 0
      BY <1>1, <1>2, <2>1 DEF LiveAt
    <2> QED BY <1>1, <1>2, <2>2, <2>3 DEF RoundKept
  <1>5. CASE Pick
    <2> DEFINE k == NextTurn
    <2>1. /\ k \in 1..Len(names) /\ Eligible(names[k])
          /\ \/ k >= at /\ \A i \in 1..Len(names) : Eligible(names[i]) /\ i >= at => k <= i
             \/ \A i \in 1..Len(names) : Eligible(names[i]) => i < at /\ k <= i
      BY <1>1, <1>5, NextTurnIs, <1>2 DEF Pick
    <2>2. /\ at' = k /\ turns' = [turns EXCEPT ![names[k]] = @ + 1]
          /\ todo' = [todo EXCEPT ![names[k]] = Tail(@)]
          /\ pc = "pick" /\ pc' = "prepare" /\ failures' = failures
      BY <1>5 DEF Pick
    <2> HIDE DEF k
    <2>3. Round = at /\ Round' = k + 1
      BY <2>2 DEF Round, InHand
    <2>4. \A i \in 1..Len(names) : i \in LiveAt <=> Eligible(names[i])
      BY <1>2, <2>2 DEF LiveAt, Live, InHand
    <2>5. \A i \in LiveAt' : i \in 1..Len(names) /\ i \in LiveAt
      <3>1. \A i \in 1..Len(names) : i # k /\ Eligible(names[i])' => Eligible(names[i])
        <4> TAKE i \in 1..Len(names)
        <4>1. i # k => names[i] # names[k]
          BY <1>1, <1>2, <2>1, NamesDiffer
        <4>2. i # k => todo'[names[i]] = todo[names[i]]
          BY <1>1, <1>2, <2>2, <4>1 DEF Typed
        <4> QED BY <1>1, <2>2, <4>2 DEF Eligible
      <3>2. \A i \in LiveAt' : i \in 1..Len(names) /\ (Eligible(names[i])' \/ names[i] = names[k])
        BY <1>1, <1>2, <2>2 DEF LiveAt, Live, Cur
      <3>3. \A i \in 1..Len(names) : names[i] = names[k] => i = k
        BY <1>1, <1>2, <2>1, NamesDiffer
      <3> QED BY <2>1, <2>4, <3>1, <3>2, <3>3
    <2>6. \A i \in 1..Len(names) :
            /\ turns[names[i]] \in Nat
            /\ turns'[names[i]] = IF i = k THEN turns[names[i]] + 1 ELSE turns[names[i]]
      <3> TAKE i \in 1..Len(names)
      <3>1. names[i] \in Arms /\ names[k] \in Arms /\ (names[i] = names[k] => i = k)
        BY <1>1, <1>2, <2>1, NamesDiffer
      <3> QED BY <1>2, <2>2, <3>1
    <2>7. ASSUME order = "roundrobin", NEW i \in LiveAt, NEW j \in LiveAt,
                 i \in 1..Len(names), j \in 1..Len(names)
          PROVE  /\ (i < k + 1 <=> j < k + 1) => turns'[names[i]] = turns'[names[j]]
                 /\ i < k + 1 /\ k + 1 <= j => turns'[names[i]] = turns'[names[j]] + 1
      <3> DEFINE T(x) == turns[names[x]]
      <3>1. k \in LiveAt /\ k \in 1..Len(names)
        BY <2>1, <2>4
      <3>2. \A x, y \in LiveAt : /\ (x < at <=> y < at) => T(x) = T(y)
                                 /\ x < at /\ at <= y => T(x) = T(y) + 1
        BY <2>2, <2>3, <2>7 DEF RoundKept
      <3>3. /\ (i < at <=> j < at) => T(i) = T(j)
            /\ (i < at <=> k < at) => T(i) = T(k)
            /\ (j < at <=> k < at) => T(j) = T(k)
            /\ i < at /\ at <= j => T(i) = T(j) + 1
            /\ i < at /\ at <= k => T(i) = T(k) + 1
            /\ j < at /\ at <= i => T(j) = T(i) + 1
            /\ j < at /\ at <= k => T(j) = T(k) + 1
        BY <2>7, <3>1, <3>2
      <3>4. \/ k >= at /\ (i >= at => k <= i) /\ (j >= at => k <= j)
            \/ k < at /\ i < at /\ j < at /\ k <= i /\ k <= j
        BY <2>1, <2>4, <2>7, <3>1
      <3>5. /\ T(i) \in Nat /\ T(j) \in Nat /\ T(k) \in Nat
            /\ turns'[names[i]] = IF i = k THEN T(i) + 1 ELSE T(i)
            /\ turns'[names[j]] = IF j = k THEN T(j) + 1 ELSE T(j)
        BY <2>6, <2>7, <3>1
      <3> DEFINE a == T(i)
                 b == T(j)
                 d == T(k)
                 a1 == turns'[names[i]]
                 b1 == turns'[names[j]]
      <3>6. /\ i \in Nat /\ j \in Nat /\ k \in Nat /\ at \in Nat /\ a \in Nat /\ b \in Nat /\ d \in Nat
            /\ i = k => a = d
            /\ j = k => b = d
        BY <1>2, <2>7, <3>1, <3>5
      <3>7. /\ (i < at <=> j < at) => a = b
            /\ (i < at <=> k < at) => a = d
            /\ (j < at <=> k < at) => b = d
            /\ i < at /\ at <= j => a = b + 1
            /\ i < at /\ at <= k => a = d + 1
            /\ j < at /\ at <= i => b = a + 1
            /\ j < at /\ at <= k => b = d + 1
            /\ a1 = IF i = k THEN a + 1 ELSE a
            /\ b1 = IF j = k THEN b + 1 ELSE b
        BY <3>3, <3>5
      <3> HIDE DEF a, b, d, a1, b1, T
      <3>8. /\ (i < k + 1 <=> j < k + 1) => a1 = b1
            /\ i < k + 1 /\ k + 1 <= j => a1 = b1 + 1
        BY <3>4, <3>6, <3>7
      <3> QED BY <3>8 DEF a1, b1
    <2> QED BY <1>1, <2>3, <2>5, <2>7 DEF RoundKept
  <1>6. CASE Book
    <2>1. /\ pc \in {"ok", "fail", "skip"} /\ pc' = "pick" /\ at' = After(pc = "ok") /\ turns' = turns
          /\ failures' = [failures EXCEPT ![Cur] = Failures(Cur, pc = "ok")]
          /\ todo' = IF pc = "ok" THEN todo ELSE [todo EXCEPT ![Cur] = Replaced(@, idx)]
      BY <1>6 DEF Book
    <2>2. InHand /\ ~InHand'
      BY <2>1 DEF InHand
    <2>3. \A c \in Arms : c # Cur => Eligible(c)' = Eligible(c)
      BY <1>1, <2>1 DEF Eligible, Typed
    <2>4. LiveAt' \subseteq LiveAt
      BY <1>1, <1>2, <2>2, <2>3 DEF LiveAt, Live
    <2>5. order = "roundrobin" => Round' = Round
      BY <2>1, <2>2 DEF Round, After
    <2> QED BY <1>1, <1>3, <2>1, <2>4, <2>5 DEF RoundKept
  <1>7. CASE JobEnds
    BY <1>7 DEF JobEnds, RoundKept
  <1>8. CASE JobStarts
    BY <1>8 DEF JobStarts, RoundKept, driver
  <1>9. CASE \/ Finish \/ Skip \/ Prepare \/ Clear \/ GiveUpDrain \/ Run \/ Boot \/ Exit
             \/ TimesOut \/ ProcessEnds \/ Collect \/ TimePasses \/ UNCHANGED vars
    <2>1. UNCHANGED <<at, turns, todo, failures>>
      BY <1>9 DEF Finish, Skip, Prepare, Clear, GiveUpDrain, LaunchTrial, Run, Boot, Exit,
         TimesOut, ProcessEnds, Collect, TimePasses,
         vars, driver
    <2>2. InHand' = InHand /\ (pc' = "off" <=> pc = "off")
      <3>1. CASE Finish \/ Skip \/ Prepare \/ Clear \/ GiveUpDrain \/ TimesOut \/ ProcessEnds
        <4>1. \/ pc = "pick" /\ pc' = "done"
              \/ {pc, pc'} \subseteq {"prepare", "skip", "clear", "trial", "collect"}
          BY <3>1 DEF Finish, Skip, Prepare, Clear, GiveUpDrain, LaunchTrial, TimesOut, ProcessEnds
        <4> QED BY <4>1 DEF InHand
      <3>2. CASE Run \/ Boot \/ Exit \/ TimePasses \/ UNCHANGED vars
        BY <3>2 DEF Run, Boot, Exit, TimePasses, vars, driver, InHand
      <3>3. CASE Collect
        <4>1. pc = "collect" /\ pc' \in {"ok", "fail"}
          BY <3>3 DEF Collect
        <4> QED BY <4>1 DEF InHand
      <3> QED BY <1>9, <3>1, <3>2, <3>3
    <2>3. Round' = Round /\ LiveAt' = LiveAt
      BY <1>1, <2>1, <2>2 DEF Round, LiveAt, Live, Eligible, Cur
    <2> QED BY <1>3, <2>1, <2>2, <2>3 DEF RoundKept
  <1> QED BY <1>4, <1>5, <1>6, <1>7, <1>8, <1>9 DEF Next, Work

LEMMA TurnsAreFair ==
  ASSUME DInv, RoundKept
  PROVE  Balanced
  <1> SUFFICES ASSUME NEW c \in Here, NEW d \in Here, order = "roundrobin", Eligible(c), Eligible(d)
               PROVE  turns[c] <= turns[d] + 1
    BY DEF Balanced
  <1>1. Typed /\ HandKept
    BY DEF DInv
  <1>2. /\ Here = {names[i] : i \in 1..Len(names)} /\ DOMAIN names = 1..Len(names) /\ Len(names) \in Nat
        /\ turns[c] \in Nat /\ turns[d] \in Nat /\ at \in Nat /\ c \in Arms
    <2>1. /\ names \in Seq(Arms) /\ Len(names) \in Nat /\ Here = {names[i] : i \in 1..Len(names)}
          /\ Here \subseteq Arms
      BY <1>1, CommandType
    <2>2. at \in 1..(Len(names) + 1) /\ turns \in [Arms -> Nat]
      BY <1>1 DEF Typed
    <2> QED BY <2>1, <2>2
  <1>3. PICK i \in 1..Len(names), j \in 1..Len(names) : c = names[i] /\ d = names[j]
    BY <1>2
  <1>4. i \in LiveAt /\ j \in LiveAt
    BY <1>2, <1>3 DEF LiveAt, Live
  <1>5. pc # "off"
    BY <1>1, <1>2 DEF HandKept, Eligible
  <1>6. /\ (i < Round <=> j < Round) => turns[c] = turns[d]
        /\ i < Round /\ Round <= j => turns[c] = turns[d] + 1
        /\ j < Round /\ Round <= i => turns[d] = turns[c] + 1
    BY <1>3, <1>4, <1>5 DEF RoundKept
  <1>7. Round \in Nat /\ i \in Nat /\ j \in Nat
    BY <1>2 DEF Round
  <1> QED BY <1>2, <1>6, <1>7

\* run_eval_q1_q4.py:14-16, 881-935: over interruptions and resumes the targets
\* are met exactly, the arms have their turns in rounds, and an arm is given up
\* only for its failures.
THEOREM LedgerIsKept == DistinctArms => (Spec => []CampaignLedger)
  <1> SUFFICES ASSUME DistinctArms PROVE Spec => []CampaignLedger
    OBVIOUS
  <1>1. Init => RoundKept
    BY DEF Init, RoundKept
  <1>2. DInv /\ DInv' /\ RoundKept /\ [Next]_vars => RoundKept'
    BY RoundStep
  <1>3. DInv /\ RoundKept => CampaignLedger
    BY BooksAreRight, TurnsAreFair DEF CampaignLedger
  <1> QED BY <1>1, <1>2, <1>3, CampaignInductive, PTL DEF Spec

-------------------------------------------------------------------------------
(* Sums over finite sets.  Induction is by a least counterexample.         *)

\* The first of some numbers.
LEMMA LeastIndex ==
  ASSUME NEW S \in SUBSET Nat, S # {}
  PROVE  \E k \in S : \A j \in S : k <= j
  <1> DEFINE R == OpToRel(<, Nat)
  <1>1. PICK k \in S : \A j \in S : <<j, k>> \notin R
    BY NatLessThanWellFounded, WFMin
  <1>2. \A j \in S : ~(j < k)
    BY <1>1 DEF OpToRel
  <1> QED BY <1>2

\* f adds up g over the subsets of S, an element after the other.
Some(s) == CHOOSE x \in s : TRUE
Sums(f, g, S) == f = [s \in SUBSET S |-> IF s = {} THEN 0 ELSE g[Some(s)] + f[s \ {Some(s)}]]

\* There is such a function, since a subset is larger than what is left of it.
LEMMA SumsExist ==
  ASSUME NEW S, IsFiniteSet(S), NEW g \in [S -> Int]
  PROVE  \E f : Sums(f, g, S)
  <1> DEFINE Small(n) == {s \in SUBSET S : Cardinality(s) <= n}
             Part(f, n) == f = [s \in Small(n) |-> IF s = {} THEN 0 ELSE g[Some(s)] + f[s \ {Some(s)}]]
             bad == {n \in Nat : ~\E f : Part(f, n)}
  <1>1. \A s \in SUBSET S : /\ Cardinality(s) \in Nat /\ (Cardinality(s) = 0 <=> s = {})
                            /\ s # {} => Some(s) \in s /\ Cardinality(s \ {Some(s)}) = Cardinality(s) - 1
    <2> TAKE s \in SUBSET S
    <2>1. IsFiniteSet(s)
      BY FS_Subset
    <2>2. s # {} => Some(s) \in s
      BY DEF Some
    <2> QED BY <2>1, <2>2, FS_CardinalityType, FS_EmptySet, FS_RemoveElement
  <1>2. \E f : Part(f, 0)
    <2> DEFINE f == [s \in Small(0) |-> 0]
    <2>1. \A s \in Small(0) : s = {}
      <3> TAKE s \in Small(0)
      <3>1. s \in SUBSET S /\ Cardinality(s) <= 0
        OBVIOUS
      <3> HIDE DEF Small
      <3>4. Cardinality(s) \in Nat
        BY <1>1, <3>1
      <3>2. Cardinality(s) = 0
        BY <3>1, <3>4
      <3>3. Cardinality(s) = 0 <=> s = {}
        BY <1>1, <3>1
      <3> QED BY <3>2, <3>3
    <2>2. Part(f, 0)
      BY <2>1
    <2> QED BY <2>2
  <1>3. ASSUME NEW n \in Nat, NEW f, Part(f, n)
        PROVE  \E h : Part(h, n + 1)
    <2> DEFINE h == [s \in Small(n + 1) |-> IF s \in Small(n) THEN f[s] ELSE g[Some(s)] + f[s \ {Some(s)}]]
    <2>1. \A s \in Small(n + 1) : s # {} => s \ {Some(s)} \in Small(n) /\ h[s \ {Some(s)}] = f[s \ {Some(s)}]
      <3> TAKE s \in Small(n + 1)
      <3> HAVE s # {}
      <3> DEFINE r == s \ {Some(s)}
      <3>1. r \in SUBSET S /\ Cardinality(r) <= n
        BY <1>1
      <3>2. r \in Small(n) /\ r \in Small(n + 1)
        BY <1>1, <3>1
      <3> HIDE DEF r
      <3> QED BY <3>2 DEF r
    <2>2. \A s \in Small(n + 1) : s \notin Small(n) => s # {}
      BY <1>1
    <2>3. \A s \in Small(n) : f[s] = IF s = {} THEN 0 ELSE g[Some(s)] + f[s \ {Some(s)}]
      BY <1>3
    <2>4. \A s \in Small(n + 1) : h[s] = IF s = {} THEN 0 ELSE g[Some(s)] + h[s \ {Some(s)}]
      <3> TAKE s \in Small(n + 1)
      <3>1. h[s] = IF s \in Small(n) THEN f[s] ELSE g[Some(s)] + f[s \ {Some(s)}]
        OBVIOUS
      <3> HIDE DEF Small, h
      <3>2. CASE s \in Small(n) /\ s # {}
        <4>1. f[s] = g[Some(s)] + f[s \ {Some(s)}]
          BY <2>3, <3>2
        <4> QED BY <2>1, <3>1, <3>2, <4>1
      <3>3. CASE s \notin Small(n)
        BY <2>1, <2>2, <3>1, <3>3
      <3>4. CASE s = {} /\ s \in Small(n)
        BY <2>3, <3>1, <3>4
      <3> QED BY <3>2, <3>3, <3>4
    <2>5. Part(h, n + 1)
      <3> DEFINE k == [s \in Small(n + 1) |-> IF s = {} THEN 0 ELSE g[Some(s)] + h[s \ {Some(s)}]]
      <3>1. DOMAIN h = Small(n + 1) /\ DOMAIN k = Small(n + 1) /\ h = [s \in DOMAIN h |-> h[s]]
        OBVIOUS
      <3>2. \A s \in Small(n + 1) : h[s] = k[s]
        BY <2>4
      <3> HIDE DEF h, Small
      <3> QED BY <2>4, <3>1
    <2> QED BY <2>5
  <1>4. bad = {}
    <2> SUFFICES ASSUME bad # {} PROVE FALSE
      OBVIOUS
    <2> HIDE DEF Part
    <2>1. PICK n \in bad : \A j \in bad : n <= j
      BY LeastIndex
    <2>2. n # 0
      BY <1>2
    <2>3. n - 1 \in Nat /\ n - 1 \notin bad
      BY <2>1, <2>2
    <2>4. \E f : Part(f, n - 1)
      BY <2>3
    <2>5. \E f : Part(f, (n - 1) + 1)
      BY <1>3, <2>3, <2>4
    <2>6. (n - 1) + 1 = n
      BY <2>1
    <2> QED BY <2>1, <2>5, <2>6
  <1>5. \E f : Part(f, Cardinality(S))
    BY <1>1, <1>4
  <1>6. Small(Cardinality(S)) = SUBSET S
    <2>1. \A s \in SUBSET S : Cardinality(s) <= Cardinality(S)
      BY FS_Subset
    <2> QED BY <2>1
  <1> HIDE DEF Small
  <1> QED BY <1>5, <1>6 DEF Sums

\* The sum over s by that over s without one element.
SumAt(f, g, s) == IF s = {} THEN 0 ELSE g[Some(s)] + f[s \ {Some(s)}]

\* What it gives a set, by what it gives a smaller one.
LEMMA SumsNext ==
  ASSUME NEW S, NEW g, NEW f, Sums(f, g, S)
  PROVE  \A s \in SUBSET S : f[s] = SumAt(f, g, s)
  <1>1. f = [s \in SUBSET S |-> SumAt(f, g, s)]
    BY DEF Sums, SumAt
  <1> QED BY <1>1

\* What holds of every set whose proper subsets it holds of, holds of every
\* finite set: here bad is the collection of those it does not hold of.
LEMMA SmallestSubset ==
  ASSUME NEW S, IsFiniteSet(S), NEW bad \in SUBSET SUBSET S, bad # {}
  PROVE  \E s \in bad : \A r \in SUBSET s : r # s => r \notin bad
  <1> DEFINE N == {Cardinality(s) : s \in bad}
  <1>1. \A s \in SUBSET S : IsFiniteSet(s) /\ Cardinality(s) \in Nat
    BY FS_Subset, FS_CardinalityType
  <1>2. N \in SUBSET Nat /\ N # {}
    BY <1>1
  <1>3. PICK n \in N : \A j \in N : n <= j
    BY <1>2, LeastIndex
  <1>4. PICK s \in bad : Cardinality(s) = n
    BY <1>3
  <1>5. ASSUME NEW r \in SUBSET s, r # s, r \in bad
        PROVE  FALSE
    <2>1. Cardinality(r) < Cardinality(s)
      BY <1>1, <1>5, FS_Subset
    <2>2. n <= Cardinality(r)
      BY <1>3, <1>5
    <2> QED BY <1>1, <1>4, <1>5, <2>1, <2>2
  <1> QED BY <1>4, <1>5

\* Sums of integers are integers.
LEMMA SumsType ==
  ASSUME NEW S, IsFiniteSet(S), NEW g \in [S -> Int], NEW f, Sums(f, g, S)
  PROVE  \A s \in SUBSET S : f[s] \in Int
  <1> DEFINE bad == {s \in SUBSET S : f[s] \notin Int}
  <1>1. SUFFICES ASSUME bad # {} PROVE FALSE
    OBVIOUS
  <1>0. \A r \in SUBSET S : f[r] = SumAt(f, g, r)
    BY SumsNext
  <1>2. PICK s \in bad : \A r \in SUBSET s : r # s => r \notin bad
    <2>1. bad \in SUBSET SUBSET S
      OBVIOUS
    <2> HIDE DEF bad
    <2> QED BY <1>1, <2>1, SmallestSubset
  <1>3. f[s] = IF s = {} THEN 0 ELSE g[Some(s)] + f[s \ {Some(s)}]
    BY <1>0, <1>2 DEF SumAt
  <1>4. s # {} => Some(s) \in s /\ s \ {Some(s)} # s
    BY DEF Some
  <1>5. s # {} => f[s \ {Some(s)}] \in Int
    BY <1>2, <1>4
  <1> QED BY <1>2, <1>3, <1>4, <1>5

\* The order of the elements does not matter.
Joins(f, g, s, y) == f[s \cup {y}] = g[y] + f[s]

LEMMA SumsInsert ==
  ASSUME NEW S, IsFiniteSet(S), NEW g \in [S -> Int], NEW f, Sums(f, g, S)
  PROVE  \A s \in SUBSET S : \A y \in S \ s : Joins(f, g, s, y)
  <1> USE DEF Joins
  <1> DEFINE bad == {s \in SUBSET S : \E y \in S \ s : f[s \cup {y}] # g[y] + f[s]}
  <1>1. SUFFICES ASSUME bad # {} PROVE FALSE
    OBVIOUS
  <1>0. \A r \in SUBSET S : f[r] = SumAt(f, g, r)
    BY SumsNext
  <1>2. PICK s \in bad : \A r \in SUBSET s : r # s => r \notin bad
    <2>1. bad \in SUBSET SUBSET S
      OBVIOUS
    <2> HIDE DEF bad
    <2> QED BY <1>1, <2>1, SmallestSubset
  <1>3. PICK y \in S \ s : f[s \cup {y}] # g[y] + f[s]
    BY <1>2
  <1> DEFINE x == Some(s \cup {y})
  <1>4. x \in s \cup {y} /\ s \cup {y} \in SUBSET S
    BY <1>2 DEF Some
  <1>5. f[s \cup {y}] = g[x] + f[(s \cup {y}) \ {x}]
    BY <1>0, <1>4 DEF SumAt
  <1> HIDE DEF x
  <1>6. x # y
    <2>1. x = y => (s \cup {y}) \ {x} = s
      BY <1>3
    <2> QED BY <1>3, <1>5, <2>1
  <1> DEFINE r == s \ {x}
  <1>7. /\ x \in s /\ r \in SUBSET s /\ r # s /\ r \in SUBSET S
        /\ (s \cup {y}) \ {x} = r \cup {y} /\ r \cup {x} = s /\ y \in S \ r /\ x \in S \ r
    BY <1>2, <1>3, <1>4, <1>6
  <1> HIDE DEF r
  <1>8. r \notin bad
    BY <1>2, <1>7
  <1>9. f[r \cup {y}] = g[y] + f[r] /\ f[r \cup {x}] = g[x] + f[r]
    BY <1>7, <1>8
  <1>10. g[x] \in Int /\ g[y] \in Int /\ f[r] \in Int
    BY <1>7, SumsType
  <1>11. f[s \cup {y}] = g[x] + (g[y] + f[r]) /\ f[s] = g[x] + f[r]
    BY <1>5, <1>7, <1>9
  <1> QED BY <1>3, <1>10, <1>11

\* The sum over a set is the same within a larger one.
LEMMA SumsAgree ==
  ASSUME NEW S, IsFiniteSet(S), NEW g, NEW f, Sums(f, g, S),
         NEW T, NEW k, NEW h, Sums(h, k, T),
         S \subseteq T, \A x \in S : g[x] = k[x]
  PROVE  f[S] = h[S]
  <1> DEFINE bad == {s \in SUBSET S : f[s] # h[s]}
  <1>1. SUFFICES ASSUME bad # {} PROVE FALSE
    OBVIOUS
  <1>0. \A r \in SUBSET S : f[r] = SumAt(f, g, r)
    BY SumsNext
  <1>9. \A r \in SUBSET T : h[r] = SumAt(h, k, r)
    BY SumsNext
  <1>2. PICK s \in bad : \A r \in SUBSET s : r # s => r \notin bad
    <2>1. bad \in SUBSET SUBSET S
      OBVIOUS
    <2> HIDE DEF bad
    <2> QED BY <1>1, <2>1, SmallestSubset
  <1>3. /\ f[s] = IF s = {} THEN 0 ELSE g[Some(s)] + f[s \ {Some(s)}]
        /\ h[s] = IF s = {} THEN 0 ELSE k[Some(s)] + h[s \ {Some(s)}]
    BY <1>0, <1>2, <1>9 DEF SumAt
  <1>4. s # {} => Some(s) \in s /\ s \ {Some(s)} # s
    BY DEF Some
  <1>5. s # {} => f[s \ {Some(s)}] = h[s \ {Some(s)}]
    BY <1>2, <1>4
  <1> QED BY <1>2, <1>3, <1>4, <1>5

-------------------------------------------------------------------------------
(* The probes around a load.                                               *)

Counter == Nat \cup {Probes!Unavailable}
SnapshotRecord == [rchar : Counter, storage : Counter, net : Counter, taken : BOOLEAN]
ByOrigin == [Probes!Source -> 0 .. Shards]
VerdictRecord == [said : {"none", "page_cache", "nfs", "mixed", "unknown"}, from : ByOrigin,
                  by : {"self", "engine"}, io : BOOLEAN]

Read(f) == f["cache"] + f["nfs"] + f["lustre"]
FromStorage(f) == f["nfs"] + f["lustre"]

ProbesTyped ==
    /\ rchar \in Nat /\ storage \in Nat /\ net \in Nat /\ elapsed \in Nat
    /\ before \in SnapshotRecord /\ from \in ByOrigin /\ by \in {"self", "engine"}
    /\ other \in 0 .. MaxTraffic /\ loads \in 0 .. MaxLoads /\ verdict \in VerdictRecord

\* Since the snapshot the counters of the process have seen the shards it read,
\* and nothing of what an engine read.
CountersKept ==
    before.taken /\ before.rchar # Probes!Unavailable =>
        /\ rchar = before.rchar + ShardSize * (IF by = "self" THEN Read(from) ELSE 0)
        /\ before.storage \in Nat
        /\ storage = before.storage + ShardSize * (IF by = "self" THEN FromStorage(from) ELSE 0)

ProbesInv == ProbesTyped /\ CountersKept /\ Probes!SourceRight /\ Probes!NoCacheUnseen

LEMMA SuiteTypes ==
  /\ Shards \in Nat \ {0} /\ ShardSize \in Nat \ {0} /\ MaxLoads \in Nat /\ MaxTraffic \in Nat
  /\ \A n \in Traffic : n \in Nat
  BY SuiteConstants

LEMMA InitProbes == Probes!ProbesInit => ProbesInv
  BY SuiteTypes
     DEF Probes!ProbesInit, ProbesInv, ProbesTyped, CountersKept, SnapshotRecord, Counter, ByOrigin,
         VerdictRecord, Probes!NoSnapshot, Probes!Nothing, Probes!NoVerdict, Probes!Source,
         Probes!Unavailable, Probes!SourceRight, Probes!NoCacheUnseen, Probes!ReadHere

\* A ratio of nothing read from storage is 100 %, of everything 0 %.
LEMMA RatioAtTheEnds ==
  ASSUME NEW n \in Nat \ {0}
  PROVE  Probes!HitRatio(n, 0) = 100 /\ Probes!HitRatio(n, n) = 0
  <1>1. (100 * 0) \div n = 0
    OBVIOUS
  <1>2. (100 * n) \div n = 100
    OBVIOUS
  <1> QED BY <1>1, <1>2 DEF Probes!HitRatio

LEMMA ProductPositive ==
  ASSUME NEW a \in Nat \ {0}, NEW b \in Nat \ {0}
  PROVE  a * b \in Nat \ {0}
  OBVIOUS

\* What delta() says of a load by this process with readable counters: all from
\* the cache, or nothing from it.
LEMMA SourceTold ==
  ASSUME NEW b \in SnapshotRecord, NEW a \in SnapshotRecord, NEW n \in Nat \ {0}, NEW k \in Nat,
         NEW seconds \in Nat, b.rchar \in Nat, b.storage \in Nat,
         a.rchar = b.rchar + n, a.storage = b.storage + k
  PROVE  /\ k = 0 => Probes!Infer(b, a, seconds) = "page_cache"
         /\ k = n => Probes!Infer(b, a, seconds) = "nfs"
  <1>1. /\ Probes!Known(b.rchar, a.rchar)
        /\ a.rchar - b.rchar = n /\ a.storage - b.storage = k
    BY DEF Probes!Known, Probes!Unavailable
  <1> DEFINE nic == Probes!NetVotes(Probes!Known(b.net, a.net), a.net - b.net, seconds)
             hit == Probes!HitRatio(n, k)
             proc == Probes!ProcVotes(TRUE, hit)
  <1>2. nic.cache \in 0..1 /\ nic.nfs \in 0..2
    BY DEF Probes!NetVotes
  <1>3. Probes!Infer(b, a, seconds) =
            Probes!Verdict(proc.cache + nic.cache, proc.nfs + nic.nfs, proc.unknown)
    BY <1>1 DEF Probes!Infer
  <1> HIDE DEF nic
  <1>4. ASSUME k = 0
        PROVE  Probes!Infer(b, a, seconds) = "page_cache"
    <2>1. hit = 100
      BY <1>4, RatioAtTheEnds
    <2>2. proc = [cache |-> 3, nfs |-> 0, unknown |-> 0]
      BY <2>1 DEF Probes!ProcVotes
    <2> HIDE DEF proc
    <2> QED BY <1>2, <1>3, <2>2 DEF Probes!Verdict
  <1>5. ASSUME k = n
        PROVE  Probes!Infer(b, a, seconds) = "nfs"
    <2>1. hit = 0
      BY <1>5, RatioAtTheEnds
    <2>2. proc = [cache |-> 0, nfs |-> 3, unknown |-> 0]
      BY <2>1 DEF Probes!ProcVotes
    <2> HIDE DEF proc
    <2> QED BY <1>2, <1>3, <2>2 DEF Probes!Verdict
  <1> QED BY <1>4, <1>5

\* What delta() says without a ratio: the vote for "unknown" outweighs a quiet
\* network, not a busy one.
LEMMA UnseenTold ==
  ASSUME NEW b \in SnapshotRecord, NEW a \in SnapshotRecord, NEW seconds \in Nat,
         ~Probes!Known(b.rchar, a.rchar)
  PROVE  Probes!Infer(b, a, seconds) \in {"nfs", "unknown"}
  <1> DEFINE nic == Probes!NetVotes(Probes!Known(b.net, a.net), a.net - b.net, seconds)
             proc == Probes!ProcVotes(FALSE, 0)
  <1>1. /\ nic.cache \in 0..1 /\ nic.nfs \in {0, 2}
        /\ nic.nfs = 0 \/ nic.cache = 0
    <2>1. CASE Probes!Known(b.net, a.net)
      <3>1. a.net - b.net \in Int
        BY <2>1 DEF Probes!Known, Probes!Unavailable, SnapshotRecord, Counter
      <3> QED BY <2>1, <3>1 DEF Probes!NetVotes
    <2>2. CASE ~Probes!Known(b.net, a.net)
      BY <2>2 DEF Probes!NetVotes
    <2> QED BY <2>1, <2>2
  <1>2. Probes!Infer(b, a, seconds) =
            Probes!Verdict(proc.cache + nic.cache, proc.nfs + nic.nfs, proc.unknown)
    <2>1. Probes!Known(b.rchar, a.rchar) = FALSE
      BY DEF Probes!Known
    <2> QED BY <2>1 DEF Probes!Infer
  <1>3. proc = [cache |-> 0, nfs |-> 0, unknown |-> 1]
    BY DEF Probes!ProcVotes
  <1> HIDE DEF nic, proc
  <1> QED BY <1>1, <1>2, <1>3 DEF Probes!Verdict

\* A snapshot has both counters of the process or neither.
LEMMA SnapshotTaken ==
  ASSUME ProbesTyped, NEW io \in BOOLEAN, NEW nic \in BOOLEAN,
         NEW s, s = Probes!Snapshot(io, nic)
  PROVE  /\ s \in SnapshotRecord /\ s.taken
         /\ io => s.rchar = rchar /\ s.storage = storage
         /\ ~io => s.rchar = Probes!Unavailable
  BY DEF ProbesTyped, SnapshotRecord, Counter, Probes!Snapshot, Probes!ReadProcIo, Probes!ReadNetIo,
         Probes!Unavailable

LEMMA ProbesEnter ==
  ASSUME ProbesInv, NEW who \in {"self", "engine"}, NEW io \in BOOLEAN, NEW nic \in BOOLEAN,
         Probes!Enter(who, io, nic)
  PROVE  ProbesInv'
  <1> DEFINE s == Probes!Snapshot(io, nic)
  <1>1. /\ s \in SnapshotRecord
        /\ s.rchar # Probes!Unavailable => s.rchar = rchar /\ s.storage = storage
    BY SnapshotTaken DEF ProbesInv
  <1>2. before' = s
    BY DEF Probes!Enter
  <1> HIDE DEF s
  <1>3. Probes!Nothing \in ByOrigin /\ Read(Probes!Nothing) = 0 /\ FromStorage(Probes!Nothing) = 0
    BY SuiteTypes DEF Probes!Nothing, ByOrigin, Probes!Source, Read, FromStorage
  <1>4. Probes!NoVerdict \in VerdictRecord /\ Probes!NoVerdict.said = "none"
    BY SuiteTypes DEF Probes!NoVerdict, VerdictRecord, Probes!Nothing, ByOrigin, Probes!Source
  <1>5. /\ from' = Probes!Nothing /\ by' = who /\ loads' = loads + 1 /\ other' = 0 /\ elapsed' = 0
        /\ verdict' = Probes!NoVerdict /\ rchar' = rchar /\ storage' = storage /\ net' = net
        /\ loads < MaxLoads
    BY DEF Probes!Enter
  <1>6. ProbesTyped'
    BY <1>1, <1>2, <1>3, <1>4, <1>5, SuiteTypes DEF ProbesInv, ProbesTyped
  <1>7. CountersKept'
    BY <1>1, <1>2, <1>3, <1>5, SuiteTypes DEF ProbesInv, ProbesTyped, CountersKept
  <1> QED BY <1>4, <1>5, <1>6, <1>7 DEF ProbesInv, Probes!SourceRight, Probes!NoCacheUnseen, Probes!ReadHere

\* A shard more is a ShardSize more.
LEMMA ShardMore ==
  ASSUME NEW n \in Nat
  PROVE  /\ ShardSize * n \in Nat
         /\ ShardSize * (n + 1) = ShardSize * n + ShardSize
  BY SuiteTypes

LEMMA ProbesRead ==
  ASSUME ProbesInv, NEW s \in Probes!Source, Probes!Read(s)
  PROVE  ProbesInv'
  <1> DEFINE f == [from EXCEPT ![s] = @ + 1]
  <1>1. /\ from \in ByOrigin /\ Read(from) < Shards /\ from' = f
    BY DEF ProbesInv, ProbesTyped, Probes!Read, Read
  <1>2. /\ Read(from) \in Nat /\ FromStorage(from) \in Nat
        /\ \A x \in Probes!Source : from[x] \in 0 .. Read(from)
    BY <1>1, SuiteTypes DEF ByOrigin, Probes!Source, Read, FromStorage
  <1>3. f \in ByOrigin
    BY <1>1, <1>2, SuiteTypes DEF ByOrigin
  <1>4. /\ Read(f) = Read(from) + 1
        /\ FromStorage(f) = IF s = "cache" THEN FromStorage(from) ELSE FromStorage(from) + 1
    BY <1>1, <1>2 DEF ByOrigin, Probes!Source, Read, FromStorage
  <1>5. /\ by = "self" => /\ rchar' = rchar + ShardSize
                          /\ storage' = IF s = "cache" THEN storage ELSE storage + ShardSize
        /\ by # "self" => rchar' = rchar /\ storage' = storage
        /\ net' = (IF s = "nfs" THEN net + ShardSize ELSE net)
        /\ before' = before /\ by' = by /\ other' = other /\ elapsed' = elapsed
        /\ verdict' = verdict /\ loads' = loads
    BY DEF Probes!Read
  <1> HIDE DEF f
  <1>6. ProbesTyped'
    <2>1. rchar' \in Nat /\ storage' \in Nat /\ net' \in Nat
      BY <1>5, SuiteTypes DEF ProbesInv, ProbesTyped
    <2> QED BY <1>1, <1>3, <1>5, <2>1 DEF ProbesInv, ProbesTyped
  <1>7. CountersKept'
    <2> SUFFICES ASSUME before.taken, before.rchar # Probes!Unavailable
                 PROVE  /\ rchar' = before.rchar + ShardSize * (IF by = "self" THEN Read(f) ELSE 0)
                        /\ before.storage \in Nat
                        /\ storage' = before.storage + ShardSize * (IF by = "self" THEN FromStorage(f) ELSE 0)
      BY <1>1, <1>5 DEF CountersKept
    <2>1. /\ rchar = before.rchar + ShardSize * (IF by = "self" THEN Read(from) ELSE 0)
          /\ before.storage \in Nat /\ before.rchar \in Nat
          /\ storage = before.storage + ShardSize * (IF by = "self" THEN FromStorage(from) ELSE 0)
      BY DEF ProbesInv, CountersKept, ProbesTyped, SnapshotRecord, Counter
    <2>2. CASE by # "self"
      BY <1>5, <2>1, <2>2
    <2>3. CASE by = "self"
      <3> DEFINE r == ShardSize * Read(from)
                 t == ShardSize * FromStorage(from)
      <3>1. r \in Nat /\ ShardSize * Read(f) = r + ShardSize
        BY <1>2, <1>4, ShardMore
      <3>2. t \in Nat /\ ShardSize * FromStorage(f) = IF s = "cache" THEN t ELSE t + ShardSize
        BY <1>2, <1>4, ShardMore
      <3>3. rchar = before.rchar + r /\ storage = before.storage + t
        BY <2>1, <2>3
      <3> HIDE DEF r, t
      <3> QED BY <1>5, <2>1, <2>3, <3>1, <3>2, <3>3, SuiteTypes
    <2> QED BY <2>2, <2>3
  <1> QED BY <1>5, <1>6, <1>7 DEF ProbesInv, Probes!SourceRight, Probes!NoCacheUnseen, Probes!ReadHere

LEMMA ProbesWait ==
  ASSUME ProbesInv, Probes!TakesTime \/ \E n \in Traffic : Probes!OthersReceive(n)
  PROVE  ProbesInv'
  <1>1. /\ rchar' = rchar /\ storage' = storage /\ before' = before /\ from' = from /\ by' = by
        /\ verdict' = verdict /\ loads' = loads
    BY DEF Probes!TakesTime, Probes!OthersReceive
  <1>2. net' \in Nat /\ elapsed' \in Nat /\ other' \in 0 .. MaxTraffic
    <2>1. CASE Probes!TakesTime
      BY <2>1 DEF Probes!TakesTime, Probes!LongLoad, ProbesInv, ProbesTyped
    <2>2. CASE \E n \in Traffic : Probes!OthersReceive(n)
      BY <2>2, SuiteTypes DEF Probes!OthersReceive, ProbesInv, ProbesTyped
    <2> QED BY <2>1, <2>2
  <1> QED BY <1>1, <1>2 DEF ProbesInv, ProbesTyped, CountersKept, Probes!SourceRight, Probes!NoCacheUnseen,
                            Probes!ReadHere

LEMMA ProbesExit ==
  ASSUME ProbesInv, NEW io \in BOOLEAN, NEW nic \in BOOLEAN, Probes!Exit(io, nic)
  PROVE  ProbesInv'
  <1> DEFINE a == Probes!Snapshot(io, nic)
             said == Probes!Infer(before, a, elapsed)
  <1>1. /\ a \in SnapshotRecord
        /\ io => a.rchar = rchar /\ a.storage = storage
        /\ ~io => a.rchar = Probes!Unavailable
    BY SnapshotTaken DEF ProbesInv
  <1>2. /\ before \in SnapshotRecord /\ elapsed \in Nat /\ before.taken /\ from \in ByOrigin
        /\ Read(from) = Shards /\ by \in {"self", "engine"}
    BY DEF ProbesInv, ProbesTyped, Probes!Exit, Probes!Loading, Read
  <1>3. /\ verdict' = [said |-> said, from |-> from, by |-> by,
                       io |-> io /\ before.rchar # Probes!Unavailable]
        /\ before' = Probes!NoSnapshot /\ UNCHANGED <<rchar, storage, net, from, by, other, elapsed, loads>>
    BY DEF Probes!Exit
  <1>4. said \in {"page_cache", "nfs", "mixed", "unknown"}
    BY DEF Probes!Infer, Probes!Verdict
  <1> HIDE DEF a
  <1>5. ASSUME by = "self", io, before.rchar # Probes!Unavailable
        PROVE  /\ from["cache"] = Shards => said = "page_cache"
               /\ from["cache"] = 0 => said = "nfs"
    <2> DEFINE n == ShardSize * Shards
               k == ShardSize * FromStorage(from)
    <2>1. n \in Nat \ {0}
      BY SuiteTypes, ProductPositive
    <2>2. FromStorage(from) \in Nat
      BY <1>2, SuiteTypes DEF ByOrigin, Probes!Source, FromStorage
    <2>3. k \in Nat
      BY <2>2, ShardMore
    <2>4. /\ a.rchar = before.rchar + n /\ a.storage = before.storage + k
          /\ before.rchar \in Nat /\ before.storage \in Nat
      BY <1>1, <1>2, <1>5 DEF ProbesInv, CountersKept, SnapshotRecord, Counter
    <2>5. from["cache"] = Shards => k = 0
      <3>1. from["cache"] = Shards => FromStorage(from) = 0
        BY <1>2, SuiteTypes DEF ByOrigin, Probes!Source, Read, FromStorage
      <3>2. ShardSize * 0 = 0
        BY SuiteTypes
      <3> QED BY <3>1, <3>2
    <2>6. from["cache"] = 0 => k = n
      <3>1. from["cache"] = 0 => FromStorage(from) = Shards
        BY <1>2, SuiteTypes DEF ByOrigin, Probes!Source, Read, FromStorage
      <3> QED BY <3>1
    <2> HIDE DEF n, k, said
    <2>7. /\ k = 0 => Probes!Infer(before, a, elapsed) = "page_cache"
          /\ k = n => Probes!Infer(before, a, elapsed) = "nfs"
      BY <1>1, <1>2, <2>1, <2>3, <2>4, SourceTold
    <2> QED BY <2>5, <2>6, <2>7 DEF said
  <1>6. ASSUME ~(io /\ before.rchar # Probes!Unavailable)
        PROVE  said \in {"nfs", "unknown"}
    <2>1. ~Probes!Known(before.rchar, a.rchar)
      BY <1>1, <1>6 DEF Probes!Known
    <2> QED BY <1>1, <1>2, <2>1, UnseenTold
  <1> HIDE DEF said
  <1>7. verdict' \in VerdictRecord
    BY <1>2, <1>3, <1>4 DEF VerdictRecord
  <1>8. ProbesTyped' /\ CountersKept'
    <2>1. Probes!NoSnapshot \in SnapshotRecord /\ ~Probes!NoSnapshot.taken
      BY DEF Probes!NoSnapshot, SnapshotRecord, Counter
    <2> QED BY <1>3, <1>7, <2>1 DEF ProbesInv, ProbesTyped, CountersKept
  <1>9. Probes!SourceRight' /\ Probes!NoCacheUnseen'
    BY <1>3, <1>5, <1>6 DEF Probes!SourceRight, Probes!NoCacheUnseen, Probes!ReadHere
  <1> QED BY <1>8, <1>9 DEF ProbesInv

LEMMA NextProbes == ProbesInv /\ Probes!ProbesNext => ProbesInv'
  BY ProbesEnter, ProbesRead, ProbesWait, ProbesExit DEF Probes!ProbesNext

LEMMA StillProbes == ProbesInv /\ UNCHANGED probes => ProbesInv'
  BY DEF probes, ProbesInv, ProbesTyped, CountersKept, Probes!SourceRight, Probes!NoCacheUnseen, Probes!ReadHere

-------------------------------------------------------------------------------
(* The sampling thread.                                                    *)

Processes == [Engine -> Nat]
Row == [t : Nat, procs : Processes, of : Processes, alive : Processes, util : {"none", "idle", "busy"}]

\* An engine the row misses ran under another process than the one looked at.
RowTrue(r) ==
    \A e \in Engine : r.alive[e] # 0 /\ r.procs[e] = 0 => r.of[e] \notin {0, r.alive[e]}

\* A row in the making has its place, and is written before a join() that was
\* called meanwhile gives up, if nvidia-smi gives up earlier.
WriteInTime ==
    thread = "write" =>
        /\ Len(rows) < MaxSamples
        /\ SmiTimeout < JoinTimeout =>
            /\ now <= wakes /\ stopped # Profiler!Returned
            /\ IF stopping THEN wakes < stopped ELSE wakes <= now + SmiTimeout

\* While the GPUs have been idle since the first sample, no row says otherwise.
AlwaysIdle ==
    always => /\ idle
              /\ \A i \in DOMAIN rows : rows[i].util # "busy"
              /\ thread = "write" => row.util # "busy"

ProfilerInv ==
    /\ Profiler!ProfilerTypeOK /\ rows \in Seq(Row) /\ row \in Row
    /\ RowTrue(row) /\ \A i \in DOMAIN rows : RowTrue(rows[i])
    /\ thread \in {"off", "find"} => attempt < Attempts
    /\ ~stopping => stopped = Profiler!Running
    /\ stopping /\ stopped # Profiler!Returned => stopped \in Nat
    /\ WriteInTime /\ AlwaysIdle

LEMMA PaceTypes ==
  /\ Attempts \in Nat \ {0} /\ RetrySleep \in Nat \ {0} /\ SmiTimeout \in Nat \ {0}
  /\ Interval \in Nat \ {0} /\ JoinTimeout \in Nat \ {0} /\ MaxSamples \in Nat \ {0}
  /\ MaxChanges \in Nat \ {0}
  BY SuiteConstants

LEMMA InitProfiler == Profiler!ProfilerInit => ProfilerInv
  <1> SUFFICES ASSUME Profiler!ProfilerInit PROVE ProfilerInv
    OBVIOUS
  <1>1. Profiler!None \in Processes /\ engine \in Processes
    BY DEF Profiler!ProfilerInit, Profiler!None, Processes
  <1>2. Profiler!NoRow \in Row /\ RowTrue(Profiler!NoRow)
    BY DEF Profiler!NoRow, Row, RowTrue, Profiler!None, Processes
  <1>3. Profiler!ProfilerTypeOK
    <2>1. idle \in BOOLEAN /\ always \in BOOLEAN
      BY DEF Profiler!ProfilerInit
    <2>2. Len(rows) = 0 /\ changes \in 0 .. MaxChanges /\ attempt \in 0 .. Attempts /\ 0 \in 0 .. MaxSamples
      BY PaceTypes DEF Profiler!ProfilerInit
    <2>3. known \in [Engine -> Nat] /\ engine \in [Engine -> Nat]
      BY <1>1 DEF Profiler!ProfilerInit, Processes
    <2> QED BY <2>1, <2>2, <2>3 DEF Profiler!ProfilerInit, Profiler!ProfilerTypeOK
  <1> QED BY <1>2, <1>3, PaceTypes DEF Profiler!ProfilerInit, ProfilerInv, WriteInTime, AlwaysIdle

LEMMA SamplesInv ==
  ASSUME ProfilerInv, NEW answers \in BOOLEAN, Profiler!Samples(answers)
  PROVE  ProfilerInv'
  <1> DEFINE found == Profiler!Rediscovered
             r == [t |-> now, procs |-> [e \in Engine |-> Profiler!Procs(e, found[e])],
                   of |-> found, alive |-> engine,
                   util |-> IF ~(columns /\ answers) THEN Profiler!Unread
                            ELSE IF idle THEN "idle" ELSE "busy"]
  <1>1. found \in Processes /\ engine \in Processes /\ known \in Processes
    BY DEF ProfilerInv, Profiler!ProfilerTypeOK, Processes, Profiler!Rediscovered, Profiler!Found
  <1>2. \A e \in Engine : found[e] = IF known[e] = 0 THEN engine[e] ELSE known[e]
    BY DEF Profiler!Rediscovered, Profiler!Found
  <1>3. /\ row' = r /\ known' = found
    BY DEF Profiler!Samples
  <1> HIDE DEF found
  <1>4. r \in Row
    BY <1>1 DEF Row, Processes, Profiler!Procs, Profiler!Unread, ProfilerInv, Profiler!ProfilerTypeOK
  <1>5. RowTrue(r) /\ (idle => r.util # "busy")
    BY <1>1, <1>2 DEF RowTrue, Profiler!Procs, Profiler!Unread
  <1> HIDE DEF r
  <1>6. Profiler!ProfilerTypeOK'
    BY <1>1, <1>3, PaceTypes DEF Profiler!Samples, ProfilerInv, Profiler!ProfilerTypeOK, Processes
  <1>7. WriteInTime'
    BY PaceTypes DEF Profiler!Samples, ProfilerInv, Profiler!ProfilerTypeOK, WriteInTime, Profiler!Running,
                     Profiler!Returned
  <1>8. AlwaysIdle'
    <2>1. /\ always' = (IF rows = <<>> THEN idle ELSE always)
          /\ idle' = idle /\ rows' = rows
      BY DEF Profiler!Samples
    <2>2. AlwaysIdle /\ rows \in Seq(Row)
      BY DEF ProfilerInv
    <2>3. always' => idle
      BY <2>1, <2>2 DEF AlwaysIdle
    <2>4. always' => \A i \in DOMAIN rows : rows[i].util # "busy"
      <3>1. rows = <<>> => DOMAIN rows = {}
        OBVIOUS
      <3>2. rows # <<>> => always' = always
        BY <2>1
      <3> QED BY <2>2, <3>1, <3>2 DEF AlwaysIdle
    <2> QED BY <1>3, <1>5, <2>1, <2>3, <2>4 DEF AlwaysIdle
  <1> QED BY <1>3, <1>4, <1>5, <1>6, <1>7, <1>8 DEF Profiler!Samples, ProfilerInv

LEMMA WritesInv ==
  ASSUME ProfilerInv, Profiler!Writes
  PROVE  ProfilerInv'
  <1>1. /\ rows \in Seq(Row) /\ row \in Row /\ RowTrue(row) /\ \A i \in DOMAIN rows : RowTrue(rows[i])
        /\ Len(rows) < MaxSamples /\ rows' = Append(rows, row) /\ row' = Profiler!NoRow
    BY DEF ProfilerInv, WriteInTime, Profiler!Writes
  <1>2. /\ rows' \in Seq(Row) /\ Len(rows') = Len(rows) + 1 /\ Len(rows) \in Nat
        /\ \A i \in DOMAIN rows' : RowTrue(rows'[i])
    BY <1>1
  <1>3. row' \in Row /\ RowTrue(row')
    BY <1>1 DEF Profiler!NoRow, Row, RowTrue, Profiler!None, Processes
  <1>4. Profiler!ProfilerTypeOK'
    BY <1>1, <1>2, PaceTypes DEF Profiler!Writes, ProfilerInv, Profiler!ProfilerTypeOK
  <1>5. AlwaysIdle'
    <2>1. /\ always' = always /\ idle' = idle /\ thread = "write" /\ thread' = "loop"
      BY DEF Profiler!Writes
    <2>2. \A i \in DOMAIN rows' : rows'[i] = row \/ (i \in DOMAIN rows /\ rows'[i] = rows[i])
      BY <1>1, <1>2
    <2> QED BY <2>1, <2>2 DEF ProfilerInv, AlwaysIdle
  <1> QED BY <1>2, <1>3, <1>4, <1>5 DEF Profiler!Writes, ProfilerInv, WriteInTime

\* The other steps leave the rows alone.
LEMMA OtherInv ==
  ASSUME ProfilerInv,
         \/ \E e \in Engine : Profiler!EngineChanges(e)
         \/ Profiler!GpusTurn \/ Profiler!Starts \/ Profiler!Finds \/ Profiler!Ends
         \/ \E answers \in BOOLEAN : Profiler!Primes(answers)
         \/ Profiler!Stops \/ Profiler!StopReturns \/ Profiler!Second
  PROVE  ProfilerInv'
  <1> USE PaceTypes
  <1> USE DEF ProfilerInv, Profiler!ProfilerTypeOK, WriteInTime, AlwaysIdle, Profiler!Running, Profiler!Returned
  <1>0. rows' = rows /\ row' = row
    BY DEF Profiler!EngineChanges, Profiler!GpusTurn, Profiler!Starts, Profiler!Finds, Profiler!Ends,
           Profiler!Primes, Profiler!Stops, Profiler!StopReturns, Profiler!Second
  <1>1. ASSUME NEW e \in Engine, Profiler!EngineChanges(e) PROVE ProfilerInv'
    BY <1>0, <1>1 DEF Profiler!EngineChanges
  <1>2. CASE Profiler!GpusTurn
    BY <1>0, <1>2 DEF Profiler!GpusTurn
  <1>3. CASE Profiler!Starts
    BY <1>0, <1>3 DEF Profiler!Starts
  <1>4. CASE Profiler!Finds
    BY <1>0, <1>4 DEF Profiler!Finds, Profiler!Found, Profiler!GivesUp
  <1>5. CASE Profiler!Ends
    BY <1>0, <1>5 DEF Profiler!Ends, Profiler!LeavesLoop
  <1>6. ASSUME NEW answers \in BOOLEAN, Profiler!Primes(answers) PROVE ProfilerInv'
    BY <1>0, <1>6 DEF Profiler!Primes
  <1>7. CASE Profiler!Stops
    BY <1>0, <1>7 DEF Profiler!Stops
  <1>8. CASE Profiler!StopReturns
    BY <1>0, <1>8 DEF Profiler!StopReturns, Profiler!Joined
  <1>9. CASE Profiler!Second
    BY <1>0, <1>9 DEF Profiler!Second
  <1> QED BY <1>1, <1>2, <1>3, <1>4, <1>5, <1>6, <1>7, <1>8, <1>9

LEMMA NextProfiler == ProfilerInv /\ Profiler!ProfilerNext => ProfilerInv'
  BY SamplesInv, WritesInv, OtherInv DEF Profiler!ProfilerNext, Profiler!RunStep

LEMMA StillProfiler == ProfilerInv /\ UNCHANGED profiler => ProfilerInv'
  BY DEF profiler, ProfilerInv, Profiler!ProfilerTypeOK, WriteInTime, AlwaysIdle

\* Only a write adds to the file.
LEMMA RowsAdded ==
  ASSUME ProfilerInv, Profiler!ProfilerNext, SmiTimeout < JoinTimeout, stopped = Profiler!Returned
  PROVE  rows' = rows
  <1>1. thread # "write"
    BY DEF ProfilerInv, WriteInTime
  <1> QED BY <1>1 DEF Profiler!ProfilerNext, Profiler!RunStep, Profiler!EngineChanges, Profiler!GpusTurn,
                 Profiler!Starts, Profiler!Finds, Profiler!Ends, Profiler!Primes, Profiler!Stops,
                 Profiler!StopReturns, Profiler!Second, Profiler!Writes, Profiler!Samples

\* The profiler's sums are sums over the gaps of the rows.
LEMMA GapsSummed ==
  ASSUME ProfilerInv, NEW S \in SUBSET Profiler!Later
  PROVE  \E f : /\ Sums(f, [i \in S |-> Profiler!Gap(i)], S)
                /\ Profiler!MapThenSumSet(Profiler!Gap, S) = f[S]
  <1> DEFINE g == [i \in S |-> Profiler!Gap(i)]
             Adds(f) == f = [s \in SUBSET S |-> IF s = {} THEN 0
                                                ELSE Profiler!Gap(Some(s)) + f[s \ {Some(s)}]]
             it == CHOOSE f : Adds(f)
  <1>1. g \in [S -> Int] /\ IsFiniteSet(S)
    <2>1. Len(rows) \in Nat /\ \A i \in DOMAIN rows : rows[i].t \in Int
      <3>1. rows \in Seq(Row)
        BY DEF ProfilerInv
      <3>2. \A i \in DOMAIN rows : rows[i] \in Row
        BY <3>1
      <3> QED BY <3>1, <3>2 DEF Row
    <2>2. IsFiniteSet(2 .. Len(rows))
      BY <2>1, FS_Interval
    <2>3. S \subseteq 2 .. Len(rows)
      BY DEF Profiler!Later
    <2>4. IsFiniteSet(S)
      BY <2>2, <2>3, FS_Subset
    <2>5. \A i \in S : i \in DOMAIN rows /\ i - 1 \in DOMAIN rows
      <3>1. rows \in Seq(Row)
        BY DEF ProfilerInv
      <3> QED BY <2>1, <2>3, <3>1
    <2>6. \A i \in S : Profiler!Gap(i) \in Int
      BY <2>1, <2>5 DEF Profiler!Gap
    <2> QED BY <2>4, <2>6
  <1>2. \A s \in SUBSET S : s # {} => Some(s) \in S
    BY DEF Some
  <1>3. \A f : Sums(f, g, S) <=> Adds(f)
    <2> TAKE f
    <2> DEFINE one == [s \in SUBSET S |-> IF s = {} THEN 0 ELSE g[Some(s)] + f[s \ {Some(s)}]]
               two == [s \in SUBSET S |-> IF s = {} THEN 0 ELSE Profiler!Gap(Some(s)) + f[s \ {Some(s)}]]
    <2>1. \A s \in SUBSET S : one[s] = two[s]
      BY <1>2
    <2>2. one = two
      BY <2>1
    <2> QED BY <2>2 DEF Sums
  <1>4. PICK f : Adds(f)
    <2>1. \E f : Sums(f, g, S)
      BY <1>1, SumsExist
    <2> HIDE DEF Adds, g
    <2> QED BY <1>3, <2>1
  <1>5. Adds(it)
    <2> HIDE DEF Adds
    <2> QED BY <1>4
  <1>6. Profiler!MapThenSumSet(Profiler!Gap, S) = it[S]
    BY DEF Profiler!MapThenSumSet, Profiler!MapThenFoldSet, Some
  <1> HIDE DEF it, Adds, g
  <1>7. Sums(it, g, S)
    BY <1>3, <1>5
  <1> QED BY <1>6, <1>7 DEF g

\* Rows have times and readings, and there are finitely many of them.
LEMMA RowTimes ==
  ASSUME ProfilerInv
  PROVE  /\ Len(rows) \in Nat /\ IsFiniteSet(2 .. Len(rows))
         /\ \A i \in 1 .. Len(rows) : rows[i].t \in Int /\ rows[i].util \in {"none", "idle", "busy"}
  <1>1. rows \in Seq(Row) /\ Len(rows) \in Nat
    BY DEF ProfilerInv
  <1>2. \A i \in 1 .. Len(rows) : rows[i] \in Row
    BY <1>1
  <1>3. IsFiniteSet(2 .. Len(rows))
    BY <1>1, FS_Interval
  <1> QED BY <1>1, <1>2, <1>3 DEF Row

\* Where every row is in one of two sets, the gaps of the two, up to a row, add
\* up to the time between the first row and that one.
LEMMA GapsMeet ==
  ASSUME ProfilerInv, Len(rows) >= 1,
         NEW A, NEW B, A \cup B = 2 .. Len(rows), A \cap B = {},
         NEW f, Sums(f, [i \in 2 .. Len(rows) |-> Profiler!Gap(i)], 2 .. Len(rows))
  PROVE  f[A] + f[B] = Profiler!Span
  <1> DEFINE S == 2 .. Len(rows)
             g == [i \in S |-> Profiler!Gap(i)]
             To(j) == 2 .. j
             both(j) == f[A \cap To(j)] + f[B \cap To(j)]
             bad == {j \in 1 .. Len(rows) : both(j) # rows[j].t - rows[1].t}
  <1>1. /\ Len(rows) \in Nat /\ IsFiniteSet(S) /\ g \in [S -> Int]
        /\ \A i \in 1 .. Len(rows) : rows[i].t \in Int
    <2>1. \A i \in S : Profiler!Gap(i) \in Int
      BY RowTimes DEF Profiler!Gap
    <2> QED BY <2>1, RowTimes
  <1>2. Sums(f, g, S)
    OBVIOUS
  <1>3. A \cap To(1) = {} /\ B \cap To(1) = {}
    OBVIOUS
  <1>4. A \cap To(Len(rows)) = A /\ B \cap To(Len(rows)) = B
    OBVIOUS
  <1>5. f[{}] = 0
    <2>1. {} \in SUBSET S
      OBVIOUS
    <2> HIDE DEF S, g
    <2>2. f[{}] = SumAt(f, g, {})
      BY <1>2, <2>1, SumsNext
    <2> QED BY <2>2 DEF SumAt
  <1>6. ASSUME NEW j \in S
        PROVE  /\ j - 1 \in 1 .. Len(rows) /\ g[j] = rows[j].t - rows[j - 1].t /\ j \notin To(j - 1)
               /\ \A Z \in {A, B} : Z \cap To(j - 1) \in SUBSET S
               /\ \A Z \in {A, B} : Z \cap To(j) = IF j \in Z THEN (Z \cap To(j - 1)) \cup {j}
                                                     ELSE Z \cap To(j - 1)
    <2>1. To(j) = To(j - 1) \cup {j} /\ To(j - 1) \subseteq S /\ j \notin To(j - 1)
      BY <1>1
    <2>2. j - 1 \in 1 .. Len(rows)
      BY <1>1
    <2>3. g[j] = rows[j].t - rows[j - 1].t
      BY DEF Profiler!Gap
    <2> HIDE DEF To
    <2> QED BY <2>1, <2>2, <2>3
  <1>7. SUFFICES ASSUME bad # {} PROVE FALSE
    <2>1. Len(rows) \in 1 .. Len(rows)
      BY <1>1
    <2>3. both(Len(rows)) = f[A] + f[B]
      <3> HIDE DEF To
      <3> QED BY <1>4
    <2> HIDE DEF both
    <2>2. bad = {} => both(Len(rows)) = rows[Len(rows)].t - rows[1].t
      BY <2>1
    <2> QED BY <2>2, <2>3 DEF Profiler!Span
  <1>8. PICK j \in bad : \A k \in bad : j <= k
    <2>1. bad \in SUBSET Nat
      BY <1>1
    <2> HIDE DEF bad
    <2> QED BY <1>7, <2>1, LeastIndex
  <1>9. j \in 1 .. Len(rows) /\ both(j) # rows[j].t - rows[1].t
    BY <1>8
  <1>10. j # 1
    <2>1. both(1) = 0
      BY <1>3, <1>5
    <2> HIDE DEF both, bad
    <2> QED BY <1>1, <1>9, <2>1
  <1>11. j \in S
    BY <1>1, <1>9, <1>10
  <1>12. both(j - 1) = rows[j - 1].t - rows[1].t
    <2>1. j - 1 \in 1 .. Len(rows) /\ ~(j <= j - 1)
      BY <1>6, <1>11
    <2> HIDE DEF both
    <2> QED BY <1>8, <2>1
  <1> DEFINE a == A \cap To(j - 1)
             b == B \cap To(j - 1)
  <1>13. /\ a \in SUBSET S /\ b \in SUBSET S /\ j \notin a /\ j \notin b
         /\ A \cap To(j) = IF j \in A THEN a \cup {j} ELSE a
         /\ B \cap To(j) = IF j \in B THEN b \cup {j} ELSE b
    BY <1>6, <1>11
  <1>14. (j \in A /\ j \notin B) \/ (j \in B /\ j \notin A)
    BY <1>11
  <1>19. both(j) = f[A \cap To(j)] + f[B \cap To(j)] /\ both(j - 1) = f[a] + f[b]
    OBVIOUS
  <1> HIDE DEF a, b, both, To, g, bad, S
  <1>15. /\ f[a \cup {j}] = g[j] + f[a] /\ f[b \cup {j}] = g[j] + f[b]
         /\ f[a] \in Int /\ f[b] \in Int
    <2>1. \A s \in SUBSET S : \A y \in S \ s : Joins(f, g, s, y)
      BY <1>1, <1>2, SumsInsert
    <2>2. \A s \in SUBSET S : f[s] \in Int
      BY <1>1, <1>2, SumsType
    <2>3. Joins(f, g, a, j) /\ Joins(f, g, b, j)
      BY <1>11, <1>13, <2>1
    <2>4. f[a] \in Int /\ f[b] \in Int
      BY <1>13, <2>2
    <2> QED BY <2>3, <2>4 DEF Joins
  <1>16. g[j] = rows[j].t - rows[j - 1].t /\ rows[j].t \in Int /\ rows[j - 1].t \in Int /\ rows[1].t \in Int
    BY <1>1, <1>6, <1>9, <1>11
  <1>17. f[a] + f[b] = rows[j - 1].t - rows[1].t
    BY <1>12, <1>19
  <1>18. both(j) = g[j] + (f[a] + f[b])
    <2>1. CASE j \in A /\ j \notin B
      <3>1. both(j) = f[a \cup {j}] + f[b]
        BY <1>13, <1>19, <2>1
      <3> QED BY <1>15, <1>16, <3>1
    <2>2. CASE j \in B /\ j \notin A
      <3>1. both(j) = f[a] + f[b \cup {j}]
        BY <1>13, <1>19, <2>2
      <3> QED BY <1>15, <1>16, <3>1
    <2> QED BY <1>14, <2>1, <2>2
  <1> QED BY <1>9, <1>15, <1>16, <1>17, <1>18

\* Idle rows and unread rows are all the rows while the GPUs have been idle.
LEMMA IdleFollows == ProfilerInv => Profiler!IdleExact
  <1> SUFFICES ASSUME ProfilerInv, always, Len(rows) >= 2
               PROVE  Profiler!AllIdle
                        = Profiler!Span - Profiler!MapThenSumSet(Profiler!Gap,
                                              {i \in Profiler!Later : rows[i].util = Profiler!Unread})
    BY DEF Profiler!IdleExact
  <1> DEFINE S == 2 .. Len(rows)
             g == [i \in S |-> Profiler!Gap(i)]
             A == {i \in Profiler!Later : rows[i].util = "idle"}
             B == {i \in Profiler!Later : rows[i].util = Profiler!Unread}
  <1>1. IsFiniteSet(S) /\ g \in [S -> Int]
    <2>1. \A i \in S : Profiler!Gap(i) \in Int
      BY RowTimes DEF Profiler!Gap
    <2> QED BY <2>1, RowTimes
  <1>2. A \cup B = S /\ A \cap B = {} /\ A \in SUBSET S /\ B \in SUBSET S /\ Profiler!Later = S
    <2>1. \A i \in S : rows[i].util = "idle" \/ rows[i].util = "none"
      <3> SUFFICES ASSUME NEW i \in S PROVE rows[i].util = "idle" \/ rows[i].util = "none"
        OBVIOUS
      <3>1. i \in 1 .. Len(rows) /\ i \in DOMAIN rows
        BY RowTimes DEF ProfilerInv
      <3>2. rows[i].util # "busy"
        BY <3>1 DEF ProfilerInv, AlwaysIdle
      <3> QED BY <3>1, <3>2, RowTimes
    <2> QED BY <2>1 DEF Profiler!Later, Profiler!Unread
  <1>3. PICK f : Sums(f, g, S)
    BY <1>1, SumsExist
  <1>4. ASSUME NEW Z \in SUBSET S
        PROVE  Profiler!MapThenSumSet(Profiler!Gap, Z) = f[Z] /\ f[Z] \in Int
    <2>1. PICK h : Sums(h, [i \in Z |-> Profiler!Gap(i)], Z) /\ Profiler!MapThenSumSet(Profiler!Gap, Z) = h[Z]
      BY <1>2, GapsSummed
    <2>2. IsFiniteSet(Z) /\ \A i \in Z : [x \in Z |-> Profiler!Gap(x)][i] = g[i]
      BY <1>1, FS_Subset
    <2> HIDE DEF S, g
    <2>3. h[Z] = f[Z]
      BY <1>3, <2>1, <2>2, SumsAgree
    <2>4. f[Z] \in Int
      BY <1>1, <1>3, SumsType
    <2> QED BY <2>1, <2>3, <2>4
  <1>5. f[A] + f[B] = Profiler!Span
    <2> HIDE DEF A, B
    <2> QED BY <1>2, <1>3, GapsMeet
  <1>6. Profiler!AllIdle = f[A] /\ Profiler!MapThenSumSet(Profiler!Gap, B) = f[B]
    BY <1>2, <1>4 DEF Profiler!AllIdle
  <1> QED BY <1>2, <1>4, <1>5, <1>6

-------------------------------------------------------------------------------
(* The phases of a trial.                                                  *)

OpenPhase == [phase : {"agent", "inference", "swap"}, model : Model \cup {Phases!None}, since : Nat]
MetricsRow == [phase : {"agent", "inference", "swap"}, model : Model \cup {Phases!None},
               end : Nat, dur : Nat]
Load == [model : Model, started : Nat, completed : Nat \cup {Phases!Never}]

PhasesInv ==
    /\ clock \in 0 .. MaxTime
    /\ open \in Seq(OpenPhase) /\ Len(open) <= MaxDepth
    /\ \A i \in DOMAIN open : open[i].since <= clock
    /\ metrics \in Seq(MetricsRow) /\ Len(metrics) + Len(open) <= MaxPhases
    /\ \A i \in DOMAIN metrics : metrics[i].dur <= metrics[i].end /\ metrics[i].end <= clock
    /\ tasks \in Seq(Load) /\ Len(tasks) <= MaxTasks
    /\ \A k \in DOMAIN tasks : tasks[k].started <= clock
    /\ \A j, k \in DOMAIN tasks : j <= k => tasks[j].started <= tasks[k].started
    /\ spent \in [tool : 0 .. clock, swap : 0 .. clock, reasoning : 0 .. clock]

LEMMA PhaseBounds ==
  MaxTime \in Nat /\ MaxPhases \in Nat /\ MaxDepth \in Nat /\ MaxTasks \in Nat /\ Slack \in Nat
  BY SuiteConstants

LEMMA InitPhases == Phases!PhasesInit => PhasesInv
  BY PhaseBounds DEF Phases!PhasesInit, PhasesInv, Phases!NoTime

LEMMA OpensInv ==
  ASSUME PhasesInv, NEW p \in {"agent", "inference", "swap"}, NEW m \in Model \cup {Phases!None},
         Phases!Opens(p, m)
  PROVE  PhasesInv'
  <1> DEFINE x == [phase |-> p, model |-> m, since |-> clock]
  <1>1. x \in OpenPhase /\ x.since = clock
    BY PhaseBounds DEF PhasesInv, OpenPhase
  <1>2. open' = Append(open, x) /\ UNCHANGED <<clock, metrics, tasks, spent>>
    BY DEF Phases!Opens
  <1> HIDE DEF x
  <1>3. /\ open' \in Seq(OpenPhase) /\ Len(open') = Len(open) + 1
        /\ \A i \in DOMAIN open' : open'[i].since <= clock
    <2>1. /\ open \in Seq(OpenPhase) /\ clock \in Nat
          /\ \A i \in DOMAIN open : open[i].since <= clock
      BY PhaseBounds DEF PhasesInv
    <2>2. /\ open' \in Seq(OpenPhase) /\ Len(open') = Len(open) + 1 /\ DOMAIN open' = 1 .. Len(open')
          /\ \A i \in 1 .. Len(open) : open'[i] = open[i]
          /\ open'[Len(open) + 1] = x
      BY <1>1, <1>2, <2>1, AppendProperties
    <2> QED BY <1>1, <2>1, <2>2
  <1>4. Len(open') <= MaxDepth /\ Len(metrics) + Len(open') <= MaxPhases
    BY <1>3, PhaseBounds DEF PhasesInv, Phases!Opens
  <1> QED BY <1>2, <1>3, <1>4 DEF PhasesInv

LEMMA ClosesInv ==
  ASSUME PhasesInv, Phases!Closes
  PROVE  PhasesInv'
  <1> DEFINE n == Len(open)
             last == open[n]
             r == [phase |-> last.phase, model |-> last.model, end |-> clock, dur |-> clock - last.since]
  <1>1. /\ open \in Seq(OpenPhase) /\ n \in Nat \ {0} /\ last \in OpenPhase
        /\ last.since < clock /\ clock \in Nat
    BY PhaseBounds DEF PhasesInv, Phases!Closes, Phases!Last
  <1>2. /\ metrics' = Append(metrics, r) /\ open' = SubSeq(open, 1, n - 1)
        /\ UNCHANGED <<clock, tasks, spent>>
    BY DEF Phases!Closes, Phases!Last, Phases!Front
  <1>3. /\ r \in MetricsRow /\ r.dur <= r.end /\ r.end = clock
    <2>1. clock - last.since \in Nat /\ clock - last.since <= clock
      BY <1>1 DEF OpenPhase
    <2> QED BY <1>1, <2>1 DEF MetricsRow, OpenPhase
  <1>4. /\ open' \in Seq(OpenPhase) /\ Len(open') = n - 1
        /\ \A i \in DOMAIN open' : open'[i] = open[i] /\ i \in DOMAIN open
    <2>1. \A i \in 1 .. n - 1 : open[i] \in OpenPhase
      BY <1>1
    <2> HIDE DEF n
    <2>2. /\ SubSeq(open, 1, n - 1) \in Seq(OpenPhase)
          /\ Len(SubSeq(open, 1, n - 1)) = IF 1 <= n - 1 THEN n - 1 - 1 + 1 ELSE 0
          /\ \A i \in 1 .. n - 1 - 1 + 1 : SubSeq(open, 1, n - 1)[i] = open[1 + i - 1]
      BY <1>1, <2>1, SubSeqProperties
    <2>3. Len(open') = n - 1
      BY <1>1, <1>2, <2>2
    <2> QED BY <1>1, <1>2, <2>2, <2>3 DEF n
  <1> HIDE DEF r, last
  <1>5. /\ metrics' \in Seq(MetricsRow) /\ Len(metrics') = Len(metrics) + 1
        /\ \A i \in DOMAIN metrics' : metrics'[i].dur <= metrics'[i].end /\ metrics'[i].end <= clock
    BY <1>1, <1>2, <1>3 DEF PhasesInv
  <1>6. Len(open') <= MaxDepth /\ Len(metrics') + Len(open') <= MaxPhases
    BY <1>1, <1>4, <1>5, PhaseBounds DEF PhasesInv
  <1>7. \A i \in DOMAIN open' : open'[i].since <= clock
    BY <1>4 DEF PhasesInv
  <1> QED BY <1>2, <1>4, <1>5, <1>6, <1>7 DEF PhasesInv

LEMMA LoadStartsInv ==
  ASSUME PhasesInv, NEW m \in Model, Phases!LoadStarts(m)
  PROVE  PhasesInv'
  <1> DEFINE x == [model |-> m, started |-> clock, completed |-> Phases!Never]
  <1>1. x \in Load /\ x.started = clock
    BY PhaseBounds DEF PhasesInv, Load
  <1>2. tasks' = Append(tasks, x) /\ UNCHANGED <<clock, open, metrics, spent>> /\ Len(tasks) < MaxTasks
    BY DEF Phases!LoadStarts
  <1> HIDE DEF x
  <1>3. /\ tasks' \in Seq(Load) /\ Len(tasks') <= MaxTasks
    BY <1>1, <1>2, PhaseBounds DEF PhasesInv
  <1>4. \A k \in DOMAIN tasks' : tasks'[k].started <= clock
    BY <1>1, <1>2, PhaseBounds DEF PhasesInv
  <1>5. \A j, k \in DOMAIN tasks' : j <= k => tasks'[j].started <= tasks'[k].started
    <2> SUFFICES ASSUME NEW j \in DOMAIN tasks', NEW k \in DOMAIN tasks', j <= k
                 PROVE  tasks'[j].started <= tasks'[k].started
      OBVIOUS
    <2>1. CASE k = Len(tasks) + 1
      BY <1>1, <1>2, <1>4, <2>1 DEF PhasesInv
    <2>2. CASE k # Len(tasks) + 1
      BY <1>2, <2>2 DEF PhasesInv
    <2> QED BY <2>1, <2>2
  <1> QED BY <1>2, <1>3, <1>4, <1>5 DEF PhasesInv

LEMMA LoadEndsInv ==
  ASSUME PhasesInv, NEW k \in DOMAIN tasks, Phases!LoadEnds(k)
  PROVE  PhasesInv'
  <1>1. tasks' = [tasks EXCEPT ![k].completed = clock] /\ UNCHANGED <<clock, open, metrics, spent>>
    BY DEF Phases!LoadEnds
  <1>2. tasks \in Seq(Load) /\ clock \in Nat /\ \A j \in DOMAIN tasks : tasks[j] \in Load
    BY PhaseBounds DEF PhasesInv
  <1> DEFINE x == [tasks[k] EXCEPT !.completed = clock]
  <1>3. x \in Load /\ x.started = tasks[k].started /\ tasks' = [tasks EXCEPT ![k] = x]
    BY <1>1, <1>2 DEF Load
  <1> HIDE DEF x
  <1>4. /\ tasks' \in Seq(Load) /\ Len(tasks') = Len(tasks) /\ DOMAIN tasks' = DOMAIN tasks
        /\ \A j \in DOMAIN tasks : tasks'[j].started = tasks[j].started
    BY <1>2, <1>3
  <1> QED BY <1>1, <1>4 DEF PhasesInv

LEMMA PassesInv ==
  ASSUME PhasesInv, Phases!Passes
  PROVE  PhasesInv'
  <1>1. clock' = clock + 1 /\ clock' \in 0 .. MaxTime /\ UNCHANGED <<open, metrics, tasks>>
    BY PhaseBounds DEF PhasesInv, Phases!Passes
  <1>2. spent' \in [tool : 0 .. clock', swap : 0 .. clock', reasoning : 0 .. clock']
    <2>1. /\ clock \in Nat /\ clock' = clock + 1
          /\ spent \in [tool : 0 .. clock, swap : 0 .. clock, reasoning : 0 .. clock]
      BY <1>1, PhaseBounds DEF PhasesInv
    <2>2. /\ spent.tool \in 0 .. clock' /\ spent.swap \in 0 .. clock' /\ spent.reasoning \in 0 .. clock'
          /\ spent.tool + 1 \in 0 .. clock' /\ spent.swap + 1 \in 0 .. clock'
          /\ spent.reasoning + 1 \in 0 .. clock'
          /\ spent = [tool |-> spent.tool, swap |-> spent.swap, reasoning |-> spent.reasoning]
      BY <2>1
    <2>3. CASE Phases!In({"swap"})
      <3>1. spent' = [tool |-> spent.tool, swap |-> spent.swap + 1, reasoning |-> spent.reasoning]
        BY <2>2, <2>3 DEF Phases!Passes
      <3> QED BY <2>2, <3>1
    <2>4. CASE ~Phases!In({"swap"})
      <3>1. spent' = [tool |-> IF Phases!In({"agent"}) THEN spent.tool + 1 ELSE spent.tool,
                      swap |-> spent.swap,
                      reasoning |-> IF Phases!In({"inference"}) THEN spent.reasoning + 1
                                    ELSE spent.reasoning]
        BY <2>2, <2>4 DEF Phases!Passes
      <3> QED BY <2>2, <3>1
    <2> QED BY <2>3, <2>4
  <1>3. /\ \A i \in DOMAIN open : open[i].since \in Nat
        /\ \A i \in DOMAIN metrics : metrics[i].end \in Nat /\ metrics[i].dur \in Nat
        /\ \A k \in DOMAIN tasks : tasks[k].started \in Nat
    <2>1. /\ \A i \in DOMAIN open : open[i] \in OpenPhase
          /\ \A i \in DOMAIN metrics : metrics[i] \in MetricsRow
          /\ \A k \in DOMAIN tasks : tasks[k] \in Load
      BY DEF PhasesInv
    <2> QED BY <2>1 DEF OpenPhase, MetricsRow, Load
  <1>4. /\ \A i \in DOMAIN open : open[i].since <= clock'
        /\ \A i \in DOMAIN metrics : metrics[i].end <= clock'
        /\ \A k \in DOMAIN tasks : tasks[k].started <= clock'
    BY <1>1, <1>3, PhaseBounds DEF PhasesInv
  <1> QED BY <1>1, <1>2, <1>4 DEF PhasesInv

LEMMA NextPhases == PhasesInv /\ Phases!PhasesNext => PhasesInv'
  BY OpensInv, ClosesInv, LoadStartsInv, LoadEndsInv, PassesInv DEF Phases!PhasesNext

LEMMA StillPhases == PhasesInv /\ UNCHANGED phases => PhasesInv'
  BY DEF phases, PhasesInv

\* The first of the loads near a wait is one of them, and no later than another.
LEMMA FirstIsNear ==
  ASSUME PhasesInv, NEW r, NEW k \in Phases!Near(r)
  PROVE  /\ Phases!First(Phases!Near(r)) \in Phases!Near(r)
         /\ tasks[Phases!First(Phases!Near(r))].started <= tasks[k].started
  <1> DEFINE N == Phases!Near(r)
  <1>1. N \subseteq DOMAIN tasks /\ DOMAIN tasks \subseteq Nat
    BY DEF Phases!Near, PhasesInv
  <1>2. k \in N
    OBVIOUS
  <1> HIDE DEF N
  <1>3. \E i \in N : \A j \in N : i <= j
    BY <1>1, <1>2, LeastIndex
  <1>4. Phases!First(N) \in N /\ \A j \in N : Phases!First(N) <= j
    BY <1>3 DEF Phases!First
  <1>5. tasks[Phases!First(N)].started <= tasks[k].started
    BY <1>1, <1>2, <1>4 DEF PhasesInv
  <1> QED BY <1>4, <1>5 DEF N

LEMMA BlameFollows == PhasesInv => Phases!BlamedRight
  <1> SUFFICES ASSUME PhasesInv, NEW i \in Phases!Needs,
                      NEW r, r = metrics[i]
               PROVE  LET s == Phases!SpanOf(r)
                          owed == {k \in DOMAIN tasks : tasks[k].model = r.model}
                      IN  /\ (\E k \in owed : /\ tasks[k].started <= r.end - r.dur
                                              /\ tasks[k].completed \in {Phases!Never} \cup (s.to .. MaxTime))
                               => Phases!StallClass(r) = "residual_partial"
                          /\ (owed = {}) => Phases!StallClass(r) = "no_prediction"
    BY DEF Phases!BlamedRight
  <1>1. /\ r \in MetricsRow /\ r.dur <= r.end
        /\ Phases!SpanOf(r) = [from |-> r.end - r.dur, to |-> r.end]
    BY DEF PhasesInv, Phases!Needs, Phases!Rows, Phases!SpanOf
  <1>2. r.end \in Nat /\ r.dur \in Nat /\ Slack \in Nat
    BY <1>1, PhaseBounds DEF MetricsRow
  <1>3. ASSUME NEW k \in DOMAIN tasks, tasks[k].model = r.model, tasks[k].started <= r.end - r.dur,
               tasks[k].completed \in {Phases!Never} \cup (r.end .. MaxTime)
        PROVE  Phases!StallClass(r) = "residual_partial"
    <2>1. tasks[k] \in Load /\ tasks[k].started \in Nat
      <3>1. tasks[k] \in Load
        BY DEF PhasesInv
      <3> QED BY <3>1 DEF Load
    <2>2. Phases!InFlight(tasks[k], Phases!SpanOf(r))
      <3>1. tasks[k].started <= r.end
        BY <1>2, <1>3, <2>1
      <3>2. (IF tasks[k].completed = Phases!Never THEN r.end ELSE tasks[k].completed) >= r.end - r.dur - Slack
        BY <1>2, <1>3, PhaseBounds DEF Phases!Never
      <3> QED BY <1>1, <3>1, <3>2 DEF Phases!InFlight
    <2>3. k \in Phases!Near(r)
      BY <1>3, <2>2 DEF Phases!Near
    <2> DEFINE f == Phases!First(Phases!Near(r))
    <2>4. f \in Phases!Near(r) /\ tasks[f].started <= tasks[k].started
      BY <2>3, FirstIsNear
    <2>5. tasks[f].started \in Nat
      <3>1. tasks[f] \in Load
        BY <2>4 DEF Phases!Near, PhasesInv
      <3> QED BY <3>1 DEF Load
    <2> HIDE DEF f
    <2>6. ~(tasks[f].started > r.end - r.dur)
      BY <1>2, <1>3, <2>1, <2>4, <2>5
    <2> QED BY <1>1, <2>3, <2>6 DEF Phases!StallClass, f
  <1>4. ASSUME {k \in DOMAIN tasks : tasks[k].model = r.model} = {}
        PROVE  Phases!StallClass(r) = "no_prediction"
    BY <1>4 DEF Phases!StallClass, Phases!Near
  <1> QED BY <1>1, <1>3, <1>4

-------------------------------------------------------------------------------
(* The sums of the metrics file: what an interval, a list of merged ones   *)
(* and the rows of a phase cover, in seconds, and what the thread spent.   *)

\* Sets that have no element in common add their sizes up.
LEMMA CountsAdd ==
  ASSUME NEW a, IsFiniteSet(a), NEW b, IsFiniteSet(b), a \cap b = {}
  PROVE  Cardinality(a \cup b) = Cardinality(a) + Cardinality(b)
  <1>1. Cardinality(a \cap b) = 0
    BY FS_EmptySet
  <1>2. Cardinality(a) \in Nat /\ Cardinality(b) \in Nat
    BY FS_CardinalityType
  <1>3. Cardinality(a \cup b) = Cardinality(a) + Cardinality(b) - Cardinality(a \cap b)
    BY FS_Union
  <1> QED BY <1>1, <1>2, <1>3

\* The sum of the values of g over s, a part of its domain.
SumOver(g, s) == Phases!SumFunction([x \in s |-> g[x]])

\* The sum over a part of the domain is what f gives that part.
LEMMA SumOverIs ==
  ASSUME NEW S, IsFiniteSet(S), NEW g \in [S -> Int], NEW f, Sums(f, g, S)
  PROVE  \A s \in SUBSET S : SumOver(g, s) = f[s]
  <1> TAKE s \in SUBSET S
  <1> DEFINE h == [x \in s |-> g[x]]
             it == CHOOSE k : k = [t \in SUBSET s |-> IF t = {} THEN 0
                                        ELSE h[Some(t)] + k[t \ {Some(t)}]]
  <1>1. IsFiniteSet(s) /\ h \in [s -> Int] /\ DOMAIN h = s
    BY FS_Subset
  <1>2. Phases!SumFunction(h) = it[s]
    <2>1. DOMAIN h = s
      OBVIOUS
    <2> HIDE DEF h
    <2> QED BY <2>1 DEF Phases!SumFunction, Phases!SumFunctionOnSet, Phases!FoldFunctionOnSet, Phases!MapThenFoldSet, Some
  <1> HIDE DEF h
  <1>3. \E k : Sums(k, h, s)
    BY <1>1, SumsExist
  <1>4. Sums(it, h, s)
    BY <1>3 DEF Sums
  <1>5. \A x \in s : h[x] = g[x]
    BY DEF h
  <1> HIDE DEF it
  <1>6. it[s] = f[s]
    BY <1>1, <1>4, <1>5, SumsAgree
  <1> QED BY <1>2, <1>6 DEF SumOver, h

\* What SumOver gives the empty set and a set with one element more.
LEMMA SumOverEmpty ==
  \A g : SumOver(g, {}) = 0
  <1> TAKE g
  <1> DEFINE k == [x \in {1} |-> 0]
  <1>1. IsFiniteSet({1}) /\ k \in [{1} -> Int] /\ {} \in SUBSET {1}
    BY FS_Singleton
  <1>2. [x \in {} |-> g[x]] = [x \in {} |-> k[x]]
    OBVIOUS
  <1> HIDE DEF k
  <1>3. PICK f : Sums(f, k, {1})
    BY <1>1, SumsExist
  <1>4. SumOver(k, {}) = f[{}]
    BY <1>1, <1>3, SumOverIs
  <1>5. f[{}] = SumAt(f, k, {})
    BY <1>1, <1>3, SumsNext
  <1>6. SumOver(k, {}) = 0
    BY <1>4, <1>5 DEF SumAt
  <1> QED BY <1>2, <1>6 DEF SumOver

IntOn(g, s) == \A x \in s : g[x] \in Int
More(g, s, y) == SumOver(g, s \cup {y}) = SumOver(g, s) + g[y]

\* One more element adds its value to the sum.
LEMMA SumOverInsert ==
  \A g, s, y : IsFiniteSet(s) /\ y \notin s /\ IntOn(g, s \cup {y}) =>
                  More(g, s, y) /\ SumOver(g, s) \in Int
  <1> SUFFICES ASSUME NEW g, NEW s, NEW y, IsFiniteSet(s), y \notin s, IntOn(g, s \cup {y})
               PROVE  More(g, s, y) /\ SumOver(g, s) \in Int
    OBVIOUS
  <1> DEFINE S == s \cup {y}
             h == [x \in S |-> g[x]]
  <1>1. IsFiniteSet(S) /\ h \in [S -> Int]
    BY FS_AddElement DEF IntOn
  <1>2. \A r \in SUBSET S : SumOver(h, r) = SumOver(g, r)
    <2> TAKE r \in SUBSET S
    <2>1. [x \in r |-> h[x]] = [x \in r |-> g[x]]
      OBVIOUS
    <2> QED BY <2>1 DEF SumOver
  <1>3. h[y] = g[y]
    OBVIOUS
  <1>7. s \in SUBSET S /\ S \in SUBSET S /\ y \in S \ s
    OBVIOUS
  <1> HIDE DEF h
  <1>4. PICK f : Sums(f, h, S)
    BY <1>1, SumsExist
  <1>5. \A r \in SUBSET S : SumOver(h, r) = f[r] /\ f[r] \in Int
    BY <1>1, <1>4, SumOverIs, SumsType
  <1>6. Joins(f, h, s, y)
    BY <1>1, <1>4, <1>7, SumsInsert
  <1>8. f[s \cup {y}] = h[y] + f[s]
    BY <1>6 DEF Joins
  <1>9. h[y] \in Int
    BY <1>1, <1>7
  <1>10. SumOver(g, s \cup {y}) = h[y] + f[s] /\ SumOver(g, s) = f[s] /\ f[s] \in Int
    BY <1>2, <1>5, <1>7, <1>8
  <1> HIDE DEF S
  <1>11. h[y] + f[s] = f[s] + h[y]
    BY <1>9, <1>10
  <1> QED BY <1>3, <1>10, <1>11 DEF More

\* A collection of subsets that grows by every element has the whole set.
LEMMA Grown ==
  ASSUME NEW S, IsFiniteSet(S), NEW good \in SUBSET SUBSET S, {} \in good,
         \A s \in good : \A y \in S \ s : s \cup {y} \in good
  PROVE  S \in good
  <1> DEFINE bad == (SUBSET S) \ good
  <1>1. SUFFICES ASSUME S \notin good PROVE FALSE
    OBVIOUS
  <1>2. bad \in SUBSET SUBSET S /\ bad # {}
    BY <1>1
  <1> HIDE DEF bad
  <1>3. PICK s \in bad : \A r \in SUBSET s : r # s => r \notin bad
    BY <1>2, SmallestSubset
  <1>4. s \in SUBSET S /\ s # {}
    BY <1>3 DEF bad
  <1>5. PICK y \in s : TRUE
    BY <1>4
  <1>6. s \ {y} \in SUBSET s /\ s \ {y} # s /\ (s \ {y}) \cup {y} = s /\ y \in S \ (s \ {y})
    BY <1>4, <1>5
  <1>7. s \ {y} \notin bad
    BY <1>3, <1>6
  <1>8. s \ {y} \in good
    BY <1>4, <1>7 DEF bad
  <1>9. s \in good
    BY <1>6, <1>8
  <1> QED BY <1>3, <1>9 DEF bad

\* Elements that are ordered have each place once: Before[x] are those before x.
Ordered(Before, S) ==
    /\ Before \in [S -> SUBSET S]
    /\ \A x \in S : x \notin Before[x]
    /\ \A x, y \in S : x # y => x \in Before[y] \/ y \in Before[x]
    /\ \A x, y \in S : x \in Before[y] => Before[x] \subseteq Before[y]

\* Who comes earlier has fewer before it, and nobody has all before it.
LEMMA PlacesGrow ==
  ASSUME NEW S, IsFiniteSet(S), NEW Before, Ordered(Before, S)
  PROVE  /\ \A x \in S : Cardinality(Before[x]) \in 0..(Cardinality(S) - 1)
         /\ \A x, y \in S : x \in Before[y] => Cardinality(Before[x]) < Cardinality(Before[y])
  <1>1. \A a \in SUBSET S : \A b \in SUBSET S : \A x \in b \ a : 
           a \subseteq b => /\ Cardinality(a) \in Nat /\ Cardinality(b) \in Nat
                            /\ Cardinality(a) < Cardinality(b)
    <2> TAKE a \in SUBSET S
    <2> TAKE b \in SUBSET S
    <2> TAKE x \in b \ a
    <2> HAVE a \subseteq b
    <2>1. IsFiniteSet(a) /\ IsFiniteSet(b)
      BY FS_Subset
    <2>2. Cardinality(a) \in Nat /\ Cardinality(b) \in Nat
      BY <2>1, FS_CardinalityType
    <2>3. Cardinality(a) <= Cardinality(b) /\ (Cardinality(b) = Cardinality(a) => b = a)
      BY <2>1, FS_Subset
    <2> QED BY <2>2, <2>3
  <1>2. \A x \in S : Cardinality(Before[x]) \in 0..(Cardinality(S) - 1)
    <2> TAKE x \in S
    <2>1. Before[x] \in SUBSET S /\ S \in SUBSET S /\ x \in S \ Before[x]
      BY DEF Ordered
    <2>2. /\ Cardinality(Before[x]) \in Nat /\ Cardinality(S) \in Nat
          /\ Cardinality(Before[x]) < Cardinality(S)
      BY <1>1, <2>1
    <2> QED BY <2>2
  <1>3. \A x, y \in S : x \in Before[y] => Cardinality(Before[x]) < Cardinality(Before[y])
    <2> TAKE x, y \in S
    <2> HAVE x \in Before[y]
    <2>1. /\ Before[x] \in SUBSET S /\ Before[y] \in SUBSET S /\ x \in Before[y] \ Before[x]
          /\ Before[x] \subseteq Before[y]
      BY DEF Ordered
    <2> QED BY <1>1, <2>1
  <1> QED BY <1>2, <1>3

\* Every place is someone's.
LEMMA PlacesTaken ==
  ASSUME NEW S, IsFiniteSet(S), NEW Before, Ordered(Before, S)
  PROVE  \A r \in 1..Cardinality(S) : \E x \in S : Cardinality(Before[x]) = r - 1
  <1> DEFINE f == [x \in S |-> Cardinality(Before[x]) + 1]
             all == 1..Cardinality(S)
  <1>1. Cardinality(S) \in Nat
    BY FS_CardinalityType
  <1>2. IsFiniteSet(all) /\ Cardinality(all) = Cardinality(S)
    <2>1. Cardinality(1..Cardinality(S)) = IF 1 > Cardinality(S) THEN 0 ELSE Cardinality(S) - 1 + 1
      BY <1>1, FS_Interval
    <2>2. IsFiniteSet(1..Cardinality(S))
      BY <1>1, FS_Interval
    <2> QED BY <1>1, <2>1, <2>2
  <1>3. \A x \in S : Cardinality(Before[x]) \in 0..(Cardinality(S) - 1)
    BY PlacesGrow
  <1>4. f \in [S -> all]
    BY <1>1, <1>3
  <1>5. \A x, y \in S : f[x] = f[y] => x = y
    <2> SUFFICES ASSUME NEW x \in S, NEW y \in S, f[x] = f[y], x # y PROVE FALSE
      OBVIOUS
    <2>1. Cardinality(Before[x]) = Cardinality(Before[y])
      BY <1>1, <1>3
    <2>2. x \in Before[y] \/ y \in Before[x]
      BY DEF Ordered
    <2>3. Cardinality(Before[x]) < Cardinality(Before[y]) \/ Cardinality(Before[y]) < Cardinality(Before[x])
      BY <2>2, PlacesGrow
    <2> QED BY <1>1, <1>3, <2>1, <2>3
  <1> HIDE DEF f, all
  <1>6. f \in Injection(S, all)
    BY <1>4, <1>5 DEF Injection, IsInjective
  <1>7. f \in Surjection(S, all)
    BY <1>2, <1>6, FS_Injection
  <1>8. \A r \in all : \E x \in S : f[x] = r
    BY <1>7 DEF Surjection
  <1>9. \A x \in S : f[x] = Cardinality(Before[x]) + 1
    BY DEF f
  <1> QED
    <2> TAKE r \in 1..Cardinality(S)
    <2>1. PICK x \in S : f[x] = r
      BY <1>8 DEF all
    <2>2. r = Cardinality(Before[x]) + 1 /\ Cardinality(Before[x]) \in 0..(Cardinality(S) - 1)
      BY <1>3, <1>9, <2>1
    <2>3. Cardinality(Before[x]) = r - 1
      BY <1>1, <2>2
    <2> QED BY <2>3

\* Sets that have no element in common, an F[x] of size g[x] for each x, have as
\* many elements together as the sizes add up to.
Union(F, s) == UNION {F[x] : x \in s}

\* Adding one set after the other (Grown).
LEMMA SizesAdd ==
  ASSUME NEW S, IsFiniteSet(S), NEW g, NEW F,
         \A x \in S : IsFiniteSet(F[x]) /\ Cardinality(F[x]) = g[x],
         \A x, y \in S : x # y => F[x] \cap F[y] = {}
  PROVE  IsFiniteSet(Union(F, S)) /\ Phases!SumFunction([x \in S |-> g[x]]) = Cardinality(Union(F, S))
  <1> DEFINE good == {s \in SUBSET S : IsFiniteSet(Union(F, s)) /\ SumOver(g, s) = Cardinality(Union(F, s))}
  <1>1. {} \in good
    <2>1. Union(F, {}) = {} /\ {} \in SUBSET S
      BY DEF Union
    <2> QED BY <2>1, SumOverEmpty, FS_EmptySet
  <1>2. ASSUME NEW s \in good, NEW y \in S \ s
        PROVE  s \cup {y} \in good
    <2>1. /\ s \in SUBSET S /\ IsFiniteSet(Union(F, s)) /\ SumOver(g, s) = Cardinality(Union(F, s))
          /\ IsFiniteSet(F[y]) /\ Cardinality(F[y]) = g[y]
      OBVIOUS
    <2>2. Union(F, s \cup {y}) = Union(F, s) \cup F[y]
      BY DEF Union
    <2>3. Union(F, s) \cap F[y] = {}
      BY <2>1 DEF Union
    <2>4. /\ IsFiniteSet(Union(F, s) \cup F[y])
          /\ Cardinality(Union(F, s) \cup F[y]) = Cardinality(Union(F, s)) + Cardinality(F[y])
      <3>1. Cardinality(Union(F, s) \cup F[y]) = Cardinality(Union(F, s)) + Cardinality(F[y])
        BY <2>1, <2>3, CountsAdd
      <3>2. IsFiniteSet(Union(F, s) \cup F[y])
        BY <2>1, FS_Union
      <3> QED BY <3>1, <3>2
    <2>5. IntOn(g, s \cup {y})
      <3> SUFFICES ASSUME NEW x \in s \cup {y} PROVE g[x] \in Int
        BY DEF IntOn
      <3>1. IsFiniteSet(F[x]) /\ Cardinality(F[x]) = g[x]
        BY <2>1
      <3> QED BY <3>1, FS_CardinalityType
    <2>6. More(g, s, y)
      <3>1. IsFiniteSet(s) /\ y \notin s
        BY <2>1, FS_Subset
      <3> QED BY <2>5, <3>1, SumOverInsert
    <2>7. SumOver(g, s \cup {y}) = Cardinality(Union(F, s \cup {y}))
      BY <2>1, <2>2, <2>4, <2>6 DEF More
    <2> QED BY <2>1, <2>2, <2>4, <2>7
  <1>3. good \in SUBSET SUBSET S
    OBVIOUS
  <1> HIDE DEF good
  <1>4. S \in good
    BY <1>1, <1>2, <1>3, Grown
  <1> QED BY <1>4 DEF good, SumOver

\* The seconds of an interval, and of several.
Period == {x \in [from : Nat, to : Nat] : x.from <= x.to}
Ticks(x) == x.from .. (x.to - 1)
Cover(spans, k) == UNION {Ticks(spans[l]) : l \in 1 .. k}
Covered(spans) == Cover(spans, Len(spans))

\* How many seconds there are from a to b.
LEMMA Between ==
  ASSUME NEW a \in Nat, NEW b \in Nat
  PROVE  IsFiniteSet(a .. (b - 1)) /\ Cardinality(a .. (b - 1)) = IF a <= b THEN b - a ELSE 0
  <1> DEFINE c == b - 1
  <1>1. a \in Int /\ c \in Int
    OBVIOUS
  <1>2. a > c <=> ~(a < b)
    OBVIOUS
  <1>3. a <= b => c - a + 1 = b - a
    OBVIOUS
  <1> HIDE DEF c
  <1>4. IsFiniteSet(a .. c) /\ Cardinality(a .. c) = IF a > c THEN 0 ELSE c - a + 1
    BY <1>1, FS_Interval
  <1>5. (IF a > c THEN 0 ELSE c - a + 1) = IF a <= b THEN b - a ELSE 0
    BY <1>2, <1>3
  <1> QED BY <1>4, <1>5 DEF c

\* An interval covers as many seconds as it is long.
LEMMA TicksOf ==
  ASSUME NEW x \in Period
  PROVE  IsFiniteSet(Ticks(x)) /\ Cardinality(Ticks(x)) = x.to - x.from
  <1>1. x.from \in Nat /\ x.to \in Nat /\ x.from <= x.to
    BY DEF Period
  <1> QED BY <1>1, Between DEF Ticks

\* Merged intervals follow each other with a gap between them.
Neat(spans) ==
    /\ spans \in Seq(Period)
    /\ \A k, l \in DOMAIN spans : k < l => spans[k].to < spans[l].from

\* One more interval, which does not start before the last one.
Follows(spans, start) == spans # <<>> => spans[Len(spans)].from <= start

\* Merging it keeps the gaps and covers its seconds too.
LEMMA MergedNeat ==
  ASSUME NEW acc, Neat(acc), NEW s \in Period, Follows(acc, s.from)
  PROVE  /\ Neat(Phases!Merged(acc, s)) /\ Covered(Phases!Merged(acc, s)) = Covered(acc) \cup Ticks(s)
         /\ Follows(Phases!Merged(acc, s), s.from)
  <1> DEFINE n == Len(acc)
             res == Phases!Merged(acc, s)
  <1>1. /\ acc \in Seq(Period) /\ n \in Nat /\ DOMAIN acc = 1 .. n
        /\ \A k \in 1 .. n : /\ acc[k] \in Period /\ acc[k].from \in Nat /\ acc[k].to \in Nat
                             /\ acc[k].from <= acc[k].to
        /\ s.from \in Nat /\ s.to \in Nat /\ s.from <= s.to
        /\ acc # <<>> <=> n > 0
    <2>1. acc \in Seq(Period) /\ n \in Nat /\ DOMAIN acc = 1 .. n /\ \A k \in 1 .. n : acc[k] \in Period
      BY DEF Neat
    <2>2. acc # <<>> <=> n > 0
      BY <2>1, EmptySeq
    <2> QED BY <2>1, <2>2 DEF Period
  <1> HIDE DEF n
  <1>2. CASE n > 0 /\ s.from <= acc[n].to
    <2> DEFINE x == [from |-> acc[n].from, to |-> IF s.to > acc[n].to THEN s.to ELSE acc[n].to]
    <2>1. /\ x \in Period /\ x.from = acc[n].from /\ acc[n].from <= s.from
          /\ Ticks(x) = Ticks(acc[n]) \cup Ticks(s)
      <3>1. n \in 1 .. n /\ acc[n].from <= s.from
        BY <1>1, <1>2 DEF Follows, n
      <3> QED BY <1>1, <1>2, <3>1 DEF Ticks, Period
    <2>2. res = [acc EXCEPT ![n] = x]
      <3>1. acc[n] = [from |-> acc[n].from, to |-> acc[n].to] /\ n \in DOMAIN acc
        BY <1>1, <1>2 DEF Period
      <3>2. res = [acc EXCEPT ![n].to = IF s.to > acc[n].to THEN s.to ELSE acc[n].to]
        BY <1>1, <1>2 DEF Phases!Merged, Phases!Last, n
      <3>3. [acc[n] EXCEPT !.to = IF s.to > acc[n].to THEN s.to ELSE acc[n].to] = x
        BY <3>1
      <3> QED BY <3>2, <3>3
    <2> HIDE DEF x, res
    <2>3. /\ res \in Seq(Period) /\ Len(res) = n /\ DOMAIN res = 1 .. n /\ res[n] = x
          /\ \A k \in 1 .. n : k # n => res[k] = acc[k]
      BY <1>1, <1>2, <2>1, <2>2 DEF n
    <2>4. Neat(res)
      <3>1. \A k, l \in 1 .. n : k < l => acc[k].to < acc[l].from
        BY <1>1 DEF Neat
      <3>2. \A k, l \in 1 .. n : k < l => res[k].to < res[l].from
        <4> SUFFICES ASSUME NEW k \in 1 .. n, NEW l \in 1 .. n, k < l
                     PROVE  res[k].to < res[l].from
          OBVIOUS
        <4>1. k # n /\ res[k] = acc[k]
          BY <1>1, <2>3
        <4>2. res[l].from = acc[l].from
          BY <2>1, <2>3
        <4> QED BY <3>1, <4>1, <4>2
      <3> QED BY <2>3, <3>2 DEF Neat
    <2>5. Covered(res) = Covered(acc) \cup Ticks(s)
      BY <1>1, <1>2, <2>1, <2>3 DEF Covered, Cover, n
    <2>6. Follows(res, s.from)
      BY <2>1, <2>3 DEF Follows, n
    <2> QED BY <2>4, <2>5, <2>6 DEF res
  <1>3. CASE ~(n > 0 /\ s.from <= acc[n].to)
    <2>1. res = Append(acc, s)
      BY <1>1, <1>3 DEF Phases!Merged, Phases!Last, n
    <2> HIDE DEF res
    <2>2. /\ res \in Seq(Period) /\ Len(res) = n + 1 /\ DOMAIN res = 1 .. n + 1 /\ res[n + 1] = s
          /\ \A k \in 1 .. n : res[k] = acc[k]
      BY <1>1, <2>1 DEF n
    <2>3. \A k \in 1 .. n : acc[k].to < s.from
      <3> SUFFICES ASSUME NEW k \in 1 .. n PROVE acc[k].to < s.from
        OBVIOUS
      <3>1. n \in 1 .. n /\ acc[n].to < s.from
        BY <1>1, <1>3
      <3>2. k < n => acc[k].to < acc[n].from
        BY <1>1, <3>1 DEF Neat
      <3> QED BY <1>1, <3>1, <3>2
    <2>4. Neat(res)
      <3>1. \A k, l \in 1 .. n + 1 : k < l => res[k].to < res[l].from
        <4> SUFFICES ASSUME NEW k \in 1 .. n + 1, NEW l \in 1 .. n + 1, k < l
                     PROVE  res[k].to < res[l].from
          OBVIOUS
        <4>1. CASE l = n + 1
          BY <1>1, <2>2, <2>3, <4>1
        <4>2. CASE l # n + 1
          <5>1. k \in 1 .. n /\ l \in 1 .. n
            BY <1>1, <4>2
          <5>3. res[k] = acc[k] /\ res[l] = acc[l]
            BY <2>2, <5>1
          <5>2. acc[k].to < acc[l].from
            BY <1>1, <5>1 DEF Neat
          <5> QED BY <5>2, <5>3
        <4> QED BY <4>1, <4>2
      <3> QED BY <2>2, <3>1 DEF Neat
    <2>5. Covered(res) = Covered(acc) \cup Ticks(s)
      <3>1. 1 .. n + 1 = (1 .. n) \cup {n + 1}
        BY <1>1
      <3> QED BY <1>1, <2>2, <3>1 DEF Covered, Cover, n
    <2>6. Follows(res, s.from)
      BY <1>1, <2>2 DEF Follows, n
    <2> QED BY <2>4, <2>5, <2>6 DEF res
  <1> QED BY <1>2, <1>3

\* The merging of intervals, one after the other.
Merging(f, spans, num) ==
    f = [k \in 0 .. num |-> IF k = 0 THEN <<>> ELSE Phases!Merged(f[k - 1], spans[k])]

\* There is such a function, for every number of intervals.
LEMMA MergingExists ==
  ASSUME NEW spans, NEW num \in Nat
  PROVE  \E f : Merging(f, spans, num)
  <1> DEFINE bad == {m \in Nat : ~\E f : Merging(f, spans, m)}
  <1>1. SUFFICES ASSUME bad # {} PROVE FALSE
    OBVIOUS
  <1>2. PICK m \in bad : \A z \in bad : m <= z
    <2>1. bad \in SUBSET Nat
      OBVIOUS
    <2> HIDE DEF bad
    <2> QED BY <1>1, <2>1, LeastIndex
  <1>3. m \in Nat /\ ~\E f : Merging(f, spans, m)
    BY <1>2
  <1>4. CASE m = 0
    <2> DEFINE f == [k \in 0 .. 0 |-> <<>>]
    <2>1. f = [k \in 0 .. 0 |-> IF k = 0 THEN <<>> ELSE Phases!Merged(f[k - 1], spans[k])]
      OBVIOUS
    <2> HIDE DEF f
    <2>2. Merging(f, spans, m)
      BY <1>4, <2>1 DEF Merging
    <2> QED BY <1>3, <2>2
  <1>5. CASE m # 0
    <2>1. m - 1 \in Nat /\ m - 1 \notin bad
      <3>1. m - 1 \in Nat /\ ~(m <= m - 1)
        BY <1>3, <1>5
      <3> HIDE DEF bad
      <3> QED BY <1>2, <3>1
    <2>2. PICK f : Merging(f, spans, m - 1)
      BY <2>1
    <2> DEFINE g == [k \in 0 .. m |-> IF k = m THEN Phases!Merged(f[m - 1], spans[m]) ELSE f[k]]
    <2>3. \A k \in 0 .. m - 1 : f[k] = IF k = 0 THEN <<>> ELSE Phases!Merged(f[k - 1], spans[k])
      BY <2>2 DEF Merging
    <2>4. \A k \in 0 .. m : g[k] = IF k = 0 THEN <<>> ELSE Phases!Merged(g[k - 1], spans[k])
      <3> TAKE k \in 0 .. m
      <3>1. CASE k = m
        <4>1. g[m - 1] = f[m - 1] /\ g[m] = Phases!Merged(f[m - 1], spans[m])
          BY <1>3, <2>1
        <4> QED BY <1>5, <3>1, <4>1
      <3>2. CASE k # m
        <4>1. k \in 0 .. m - 1 /\ g[k] = f[k]
          BY <1>3, <3>2
        <4>2. k # 0 => k - 1 \in 0 .. m /\ k - 1 # m
          BY <1>3, <4>1
        <4>3. k # 0 => g[k - 1] = f[k - 1]
          BY <4>2
        <4> QED BY <2>3, <4>1, <4>3
      <3> QED BY <3>1, <3>2
    <2>5. g = [k \in 0 .. m |-> g[k]]
      OBVIOUS
    <2> HIDE DEF g
    <2>6. Merging(g, spans, m)
      BY <2>4, <2>5 DEF Merging
    <2> QED BY <1>3, <2>6
  <1> QED BY <1>4, <1>5

\* Intervals that are sorted by their start.
SortedSpans(spans) ==
    /\ spans \in Seq(Period)
    /\ \A k, l \in DOMAIN spans : k <= l => spans[k].from <= spans[l].from

\* What is merged after some of them: their seconds, in intervals apart.
Merges(acc, spans, k) ==
    /\ Neat(acc) /\ Covered(acc) = Cover(spans, k)
    /\ k \in DOMAIN spans => Follows(acc, spans[k].from)

\* Merging sorted intervals loses no second.
LEMMA MergesAll ==
  ASSUME NEW spans, SortedSpans(spans), NEW f, Merging(f, spans, Len(spans))
  PROVE  Merges(f[Len(spans)], spans, Len(spans))
  <1> DEFINE n == Len(spans)
             bad == {k \in 0 .. n : ~Merges(f[k], spans, k)}
  <1>1. /\ n \in Nat /\ DOMAIN spans = 1 .. n /\ n \in 0 .. n
        /\ \A k \in 1 .. n : spans[k] \in Period
        /\ \A k, l \in 1 .. n : k <= l => spans[k].from <= spans[l].from
        /\ \A k \in 1 .. n : spans[k].from \in Nat
    <2>1. spans \in Seq(Period) /\ \A k \in DOMAIN spans : spans[k] \in Period
      BY DEF SortedSpans
    <2> QED BY <2>1 DEF SortedSpans, Period
  <1>2. \A k \in 0 .. n : f[k] = IF k = 0 THEN <<>> ELSE Phases!Merged(f[k - 1], spans[k])
    BY DEF Merging
  <1> HIDE DEF n
  <1>3. SUFFICES ASSUME bad # {} PROVE FALSE
    BY <1>1 DEF n
  <1>4. PICK m \in bad : \A z \in bad : m <= z
    <2>1. bad \in SUBSET Nat
      BY <1>1
    <2> HIDE DEF bad
    <2> QED BY <1>3, <2>1, LeastIndex
  <1>5. m \in 0 .. n /\ ~Merges(f[m], spans, m)
    BY <1>4
  <1>6. CASE m = 0
    <2>1. f[0] = <<>> /\ 0 \notin DOMAIN spans
      BY <1>1, <1>2
    <2>2. Neat(<<>>) /\ Covered(<<>>) = {} /\ Cover(spans, 0) = {}
      BY DEF Neat, Covered, Cover
    <2> QED BY <1>5, <1>6, <2>1, <2>2 DEF Merges
  <1>7. CASE m # 0
    <2>1. m \in 1 .. n /\ m - 1 \in 0 .. n /\ m - 1 \notin bad
      <3>1. m \in 1 .. n /\ m - 1 \in 0 .. n /\ ~(m <= m - 1)
        BY <1>1, <1>5, <1>7
      <3> HIDE DEF bad
      <3> QED BY <1>4, <3>1
    <2>2. Merges(f[m - 1], spans, m - 1)
      BY <2>1
    <2>3. Neat(f[m - 1]) /\ Covered(f[m - 1]) = Cover(spans, m - 1)
      BY <2>2 DEF Merges
    <2>4. Follows(f[m - 1], spans[m].from)
      <3>1. CASE m = 1
        <4>1. f[m - 1] = <<>>
          BY <1>1, <1>2, <2>1, <3>1
        <4> QED BY <4>1 DEF Follows
      <3>2. CASE m # 1
        <4>1. m - 1 \in 1 .. n /\ m - 1 <= m
          BY <1>1, <2>1, <3>2
        <4>2. Follows(f[m - 1], spans[m - 1].from) /\ spans[m - 1].from <= spans[m].from
          BY <1>1, <2>1, <2>2, <4>1 DEF Merges
        <4>3. spans[m - 1].from \in Nat /\ spans[m].from \in Nat
          BY <1>1, <2>1, <4>1
        <4> DEFINE acc == f[m - 1]
        <4>4. SUFFICES ASSUME acc # <<>> PROVE acc[Len(acc)].from <= spans[m].from
          BY DEF Follows
        <4>5. acc[Len(acc)].from <= spans[m - 1].from
          BY <4>2, <4>4 DEF Follows
        <4>6. acc[Len(acc)].from \in Nat
          <5>1. acc \in Seq(Period)
            BY <2>3 DEF Neat
          <5> HIDE DEF acc
          <5>2. acc[Len(acc)] \in Period
            BY <4>4, <5>1
          <5> QED BY <5>2 DEF Period
        <4> HIDE DEF acc
        <4> QED BY <4>2, <4>3, <4>5, <4>6
      <3> QED BY <3>1, <3>2
    <2>5. f[m] = Phases!Merged(f[m - 1], spans[m]) /\ spans[m] \in Period
      BY <1>1, <1>2, <2>1
    <2>6. /\ Neat(f[m]) /\ Covered(f[m]) = Cover(spans, m - 1) \cup Ticks(spans[m])
          /\ Follows(f[m], spans[m].from)
      BY <2>3, <2>4, <2>5, MergedNeat
    <2>7. Cover(spans, m) = Cover(spans, m - 1) \cup Ticks(spans[m])
      <3>1. 1 .. m = (1 .. (m - 1)) \cup {m}
        BY <1>1, <2>1
      <3> QED BY <3>1 DEF Cover
    <2>8. Merges(f[m], spans, m)
      BY <2>6, <2>7 DEF Merges
    <2> QED BY <1>5, <2>8
  <1> QED BY <1>6, <1>7

\* The intervals of some rows, sorted.
RowSpan(k) == Phases!SpanOf(metrics[k])
RowTicks(k) == Ticks(RowSpan(k))

\* The interval of a row is one, and ends when the row was written.
LEMMA RowSpans ==
  ASSUME PhasesInv, NEW k \in DOMAIN metrics
  PROVE  /\ RowSpan(k) \in Period /\ RowSpan(k).from = metrics[k].end - metrics[k].dur
         /\ RowSpan(k).to = metrics[k].end /\ k \in Nat
         /\ RowSpan(k).from \in Nat /\ RowSpan(k).to \in Nat /\ metrics[k].end \in Nat /\ metrics[k].dur \in Nat
  <1>1. /\ metrics[k] \in MetricsRow /\ metrics[k].dur <= metrics[k].end /\ k \in Nat
    BY DEF PhasesInv
  <1>2. metrics[k].end \in Nat /\ metrics[k].dur \in Nat /\ metrics[k].end - metrics[k].dur \in Nat
        /\ metrics[k].end - metrics[k].dur <= metrics[k].end
    BY <1>1 DEF MetricsRow
  <1> QED BY <1>1, <1>2 DEF RowSpan, Phases!SpanOf, Period

\* By start, then end, then place in the file: every row has a place of its own.
LEMMA RowsSorted ==
  ASSUME PhasesInv, NEW P \in SUBSET DOMAIN metrics
  PROVE  /\ SortedSpans(Phases!Sorted(P)) /\ Covered(Phases!Sorted(P)) = UNION {RowTicks(k) : k \in P}
  <1> DEFINE Before == [k \in P |-> {l \in P : Phases!Earlier(l, k)}]
             placed(r) == CHOOSE k \in P : Phases!Cardinality({l \in P : Phases!Earlier(l, k)}) = r - 1
             n == Cardinality(P)
  <1>1. IsFiniteSet(P) /\ n \in Nat
    <2>1. metrics \in Seq(MetricsRow)
      BY DEF PhasesInv
    <2>2. DOMAIN metrics = 1 .. Len(metrics) /\ Len(metrics) \in Nat
      BY <2>1
    <2>3. IsFiniteSet(1 .. Len(metrics))
      BY <2>2, FS_Interval
    <2>4. IsFiniteSet(P)
      BY <2>2, <2>3, FS_Subset
    <2> QED BY <2>4, FS_CardinalityType
  <1>12. \A s : Phases!Cardinality(s) = Cardinality(s)
    BY DEF Phases!Cardinality, Cardinality
  <1>2. \A k, l \in P : Phases!Earlier(l, k) <=>
                          \/ RowSpan(l).from < RowSpan(k).from
                          \/ RowSpan(l).from = RowSpan(k).from
                             /\ (RowSpan(l).to < RowSpan(k).to \/ (RowSpan(l).to = RowSpan(k).to /\ l < k))
    BY DEF Phases!Earlier, RowSpan
  <1>3. \A k \in P : RowSpan(k).from \in Nat /\ RowSpan(k).to \in Nat /\ k \in Nat /\ RowSpan(k) \in Period
    BY RowSpans
  <1>4. Ordered(Before, P)
    <2>1. \A x \in P : x \notin Before[x]
      BY <1>2, <1>3
    <2>2. \A x, y \in P : x # y => x \in Before[y] \/ y \in Before[x]
      <3> SUFFICES ASSUME NEW x \in P, NEW y \in P, x # y
                   PROVE  Phases!Earlier(x, y) \/ Phases!Earlier(y, x)
        OBVIOUS
      <3> QED BY <1>2, <1>3
    <2>3. \A x, y \in P : x \in Before[y] => Before[x] \subseteq Before[y]
      <3> SUFFICES ASSUME NEW x \in P, NEW y \in P, Phases!Earlier(x, y), NEW z \in P, Phases!Earlier(z, x)
                   PROVE  Phases!Earlier(z, y)
        OBVIOUS
      <3> QED BY <1>2, <1>3
    <2>4. Before \in [P -> SUBSET P]
      OBVIOUS
    <2> HIDE DEF Before
    <2> QED BY <2>1, <2>2, <2>3, <2>4 DEF Ordered
  <1>5. \A r \in 1 .. n : placed(r) \in P /\ Cardinality(Before[placed(r)]) = r - 1
    <2> TAKE r \in 1 .. n
    <2>1. \E x \in P : Cardinality(Before[x]) = r - 1
      <3> HIDE DEF Before
      <3> QED BY <1>1, <1>4, PlacesTaken
    <2>2. \E x \in P : Phases!Cardinality({l \in P : Phases!Earlier(l, x)}) = r - 1
      BY <1>12, <2>1
    <2>3. placed(r) \in P /\ Phases!Cardinality({l \in P : Phases!Earlier(l, placed(r))}) = r - 1
      BY <2>2
    <2> HIDE DEF placed
    <2> QED BY <1>12, <2>3
  <1>6. \A k \in P : \E r \in 1 .. n : placed(r) = k
    <2> TAKE k \in P
    <2>1. Cardinality(Before[k]) \in 0 .. (n - 1)
      <3> HIDE DEF Before
      <3> QED BY <1>1, <1>4, PlacesGrow
    <2> DEFINE r == Cardinality(Before[k]) + 1
    <2>2. r \in 1 .. n /\ r - 1 = Cardinality(Before[k])
      BY <1>1, <2>1
    <2> HIDE DEF r
    <2>3. placed(r) \in P /\ Cardinality(Before[placed(r)]) = Cardinality(Before[k])
      BY <1>5, <2>2
    <2>4. placed(r) = k
      <3> SUFFICES ASSUME placed(r) # k PROVE FALSE
        OBVIOUS
      <3> HIDE DEF placed, Before
      <3>1. placed(r) \in Before[k] \/ k \in Before[placed(r)]
        BY <1>4, <2>3 DEF Ordered
      <3>2. /\ placed(r) \in Before[k] => Cardinality(Before[placed(r)]) < Cardinality(Before[k])
            /\ k \in Before[placed(r)] => Cardinality(Before[k]) < Cardinality(Before[placed(r)])
        BY <1>1, <1>4, <2>3, PlacesGrow
      <3> QED BY <1>1, <2>1, <2>3, <3>1, <3>2
    <2> QED BY <2>2, <2>4
  <1> DEFINE spans == Phases!Sorted(P)
  <1>7. spans = [r \in 1 .. n |-> RowSpan(placed(r))]
    <2>1. spans = [r \in 1 .. Phases!Cardinality(P) |-> RowSpan(placed(r))]
      BY Zenon DEF Phases!Sorted, RowSpan
    <2> HIDE DEF spans, placed
    <2> QED BY <1>12, <2>1
  <1> HIDE DEF n, spans, placed
  <1>8. spans \in Seq(Period) /\ Len(spans) = n /\ DOMAIN spans = 1 .. n
        /\ \A r \in 1 .. n : spans[r] = RowSpan(placed(r))
    <2>1. \A r \in 1 .. n : RowSpan(placed(r)) \in Period
      BY <1>3, <1>5
    <2>2. spans \in [1 .. n -> Period] /\ DOMAIN spans = 1 .. n /\ \A r \in 1 .. n : spans[r] = RowSpan(placed(r))
      BY <1>7, <2>1
    <2> QED BY <1>1, <2>2
  <1>9. \A r, q \in 1 .. n : r <= q => spans[r].from <= spans[q].from
    <2> SUFFICES ASSUME NEW r \in 1 .. n, NEW q \in 1 .. n, r <= q, ~(spans[r].from <= spans[q].from)
                 PROVE  FALSE
      OBVIOUS
    <2>1. placed(r) \in P /\ placed(q) \in P /\ Cardinality(Before[placed(r)]) = r - 1 /\ Cardinality(Before[placed(q)]) = q - 1
      BY <1>5
    <2>2. placed(q) \in Before[placed(r)]
      BY <1>2, <1>3, <1>8, <2>1
    <2>3. Cardinality(Before[placed(q)]) < Cardinality(Before[placed(r)])
      <3> HIDE DEF Before
      <3> QED BY <1>1, <1>4, <2>1, <2>2, PlacesGrow
    <2> QED BY <1>1, <2>1, <2>3
  <1>10. Covered(spans) = UNION {RowTicks(k) : k \in P}
    BY <1>5, <1>6, <1>8 DEF Covered, Cover, RowTicks
  <1> QED BY <1>8, <1>9, <1>10 DEF SortedSpans, spans

\* What _merge_intervals() makes of the intervals of some rows.
LEMMA MergedRows ==
  ASSUME PhasesInv, NEW P \in SUBSET DOMAIN metrics
  PROVE  /\ Neat(Phases!MergeIntervals(P))
         /\ Covered(Phases!MergeIntervals(P)) = UNION {RowTicks(k) : k \in P}
  <1> DEFINE spans == Phases!Sorted(P)
             f == CHOOSE g : g = [k \in 0 .. Len(spans) |->
                                    IF k = 0 THEN <<>> ELSE Phases!Merged(g[k - 1], spans[k])]
  <1>1. Phases!MergeIntervals(P) = f[Len(spans)]
    BY DEF Phases!MergeIntervals
  <1>2. SortedSpans(spans) /\ Covered(spans) = UNION {RowTicks(k) : k \in P}
    BY RowsSorted
  <1> HIDE DEF spans
  <1>3. Len(spans) \in Nat
    BY <1>2 DEF SortedSpans
  <1>4. \E g : Merging(g, spans, Len(spans))
    BY <1>3, MergingExists
  <1>5. Merging(f, spans, Len(spans))
    BY <1>4 DEF Merging
  <1> HIDE DEF f
  <1>6. Merges(f[Len(spans)], spans, Len(spans))
    BY <1>2, <1>5, MergesAll
  <1> QED BY <1>1, <1>2, <1>6 DEF Merges, Covered

\* The larger and the smaller of two numbers.
LEMMA ExtremesOfTwo ==
  ASSUME NEW a \in Int, NEW b \in Int
  PROVE  /\ Phases!Max({a, b}) = IF a >= b THEN a ELSE b
         /\ Phases!Min({a, b}) = IF a <= b THEN a ELSE b
  <1> DEFINE hi == IF a >= b THEN a ELSE b
             lo == IF a <= b THEN a ELSE b
  <1>1. hi \in {a, b} /\ \A y \in {a, b} : hi >= y
    OBVIOUS
  <1>2. lo \in {a, b} /\ \A y \in {a, b} : lo <= y
    OBVIOUS
  <1>3. /\ \A x \in {a, b} : (\A y \in {a, b} : x >= y) => x = hi
        /\ \A x \in {a, b} : (\A y \in {a, b} : x <= y) => x = lo
    OBVIOUS
  <1> HIDE DEF hi, lo
  <1>4. Phases!Max({a, b}) = hi
    BY <1>1, <1>3 DEF Phases!Max
  <1>5. Phases!Min({a, b}) = lo
    BY <1>2, <1>3 DEF Phases!Min
  <1> QED BY <1>4, <1>5 DEF hi, lo

\* Intervals with gaps between them cover no second twice.
LEMMA NeatPeriods ==
  ASSUME NEW spans, Neat(spans)
  PROVE  /\ DOMAIN spans = 1 .. Len(spans) /\ IsFiniteSet(DOMAIN spans)
         /\ \A k \in DOMAIN spans : spans[k] \in Period
         /\ \A k, l \in DOMAIN spans : k # l => Ticks(spans[k]) \cap Ticks(spans[l]) = {}
  <1>1. /\ spans \in Seq(Period) /\ Len(spans) \in Nat /\ DOMAIN spans = 1 .. Len(spans)
        /\ \A k \in DOMAIN spans : spans[k] \in Period /\ k \in Nat
    BY DEF Neat
  <1>2. IsFiniteSet(1 .. Len(spans))
    BY <1>1, FS_Interval
  <1>3. \A k, l \in DOMAIN spans : k < l => Ticks(spans[k]) \cap Ticks(spans[l]) = {}
    <2> SUFFICES ASSUME NEW k \in DOMAIN spans, NEW l \in DOMAIN spans, k < l,
                        NEW t \in Ticks(spans[k]), t \in Ticks(spans[l])
                 PROVE  FALSE
      OBVIOUS
    <2>1. spans[k].to < spans[l].from
      BY DEF Neat
    <2>2. /\ spans[k].from \in Nat /\ spans[k].to \in Nat
          /\ spans[l].from \in Nat /\ spans[l].to \in Nat
      BY <1>1 DEF Period
    <2> QED BY <2>1, <2>2 DEF Ticks
  <1>4. \A k, l \in DOMAIN spans : k # l => Ticks(spans[k]) \cap Ticks(spans[l]) = {}
    <2> SUFFICES ASSUME NEW k \in DOMAIN spans, NEW l \in DOMAIN spans, k # l
                 PROVE  Ticks(spans[k]) \cap Ticks(spans[l]) = {}
      OBVIOUS
    <2>1. k < l \/ l < k
      BY <1>1
    <2> QED BY <1>3, <2>1
  <1> QED BY <1>1, <1>2, <1>4

\* Intervals apart are as long together as the seconds they cover are many.
LEMMA LengthIs ==
  ASSUME NEW spans, Neat(spans)
  PROVE  IsFiniteSet(Covered(spans)) /\ Phases!IntervalLen(spans) = Cardinality(Covered(spans))
  <1> DEFINE S == DOMAIN spans
             F == [k \in S |-> Ticks(spans[k])]
             g == [k \in S |-> spans[k].to - spans[k].from]
  <1>1. /\ S = 1 .. Len(spans) /\ IsFiniteSet(S) /\ \A k \in S : spans[k] \in Period
        /\ \A k, l \in S : k # l => F[k] \cap F[l] = {}
    BY NeatPeriods
  <1>2. \A k \in S : IsFiniteSet(F[k]) /\ Cardinality(F[k]) = g[k]
    BY <1>1, TicksOf
  <1>3. Union(F, S) = Covered(spans)
    BY <1>1 DEF Union, Covered, Cover
  <1>4. Phases!IntervalLen(spans) = Phases!SumFunction([k \in S |-> g[k]])
    <2>1. [k \in S |-> g[k]] = [k \in S |-> spans[k].to - spans[k].from]
      OBVIOUS
    <2> QED BY <2>1 DEF Phases!IntervalLen
  <1> HIDE DEF S, F, g
  <1>5. /\ IsFiniteSet(Union(F, S))
        /\ Phases!SumFunction([k \in S |-> g[k]]) = Cardinality(Union(F, S))
    BY <1>1, <1>2, SizesAdd
  <1> QED BY <1>3, <1>4, <1>5

\* The overlap of two intervals is as long as the seconds in both are many.
LEMMA OverlapOfTwo ==
  ASSUME NEW a \in Period, NEW b \in Period
  PROVE  /\ IsFiniteSet(Ticks(a) \cap Ticks(b))
         /\ Cardinality(Ticks(a) \cap Ticks(b)) =
              Phases!Max({0, Phases!Min({a.to, b.to}) - Phases!Max({a.from, b.from})})
  <1> DEFINE hi == IF a.from >= b.from THEN a.from ELSE b.from
             lo == IF a.to <= b.to THEN a.to ELSE b.to
  <1>1. a.from \in Nat /\ a.to \in Nat /\ b.from \in Nat /\ b.to \in Nat
    BY DEF Period
  <1>2. hi \in Nat /\ lo \in Nat /\ Ticks(a) \cap Ticks(b) = hi .. (lo - 1)
    <2>1. hi \in Nat /\ lo \in Nat
      BY <1>1
    <2>2. \A t \in Int : /\ (t >= hi) <=> (t >= a.from /\ t >= b.from)
                         /\ (t <= lo - 1) <=> (t <= a.to - 1 /\ t <= b.to - 1)
      BY <1>1
    <2> HIDE DEF hi, lo
    <2>3. \A t : /\ (t \in Ticks(a)) <=> (t \in Int /\ t >= a.from /\ t <= a.to - 1)
                 /\ (t \in Ticks(b)) <=> (t \in Int /\ t >= b.from /\ t <= b.to - 1)
                 /\ (t \in hi .. (lo - 1)) <=> (t \in Int /\ t >= hi /\ t <= lo - 1)
      BY <1>1, <2>1 DEF Ticks
    <2>4. \A t : (t \in Ticks(a) /\ t \in Ticks(b)) <=> (t \in hi .. (lo - 1))
      BY <2>2, <2>3
    <2> QED BY <2>1, <2>4
  <1>3. Phases!Max({a.from, b.from}) = hi /\ Phases!Min({a.to, b.to}) = lo
    <2>1. a.from \in Int /\ b.from \in Int /\ a.to \in Int /\ b.to \in Int
      BY <1>1
    <2>2. Phases!Max({a.from, b.from}) = hi
      BY <2>1, ExtremesOfTwo
    <2>3. Phases!Min({a.to, b.to}) = lo
      BY <2>1, ExtremesOfTwo
    <2> QED BY <2>2, <2>3
  <1> HIDE DEF hi, lo
  <1>4. Phases!Max({0, lo - hi}) = IF 0 >= lo - hi THEN 0 ELSE lo - hi
    BY <1>2, ExtremesOfTwo
  <1>5. (IF 0 >= lo - hi THEN 0 ELSE lo - hi) = IF hi <= lo THEN lo - hi ELSE 0
    BY <1>2
  <1>6. /\ IsFiniteSet(hi .. (lo - 1))
        /\ Cardinality(hi .. (lo - 1)) = IF hi <= lo THEN lo - hi ELSE 0
    BY <1>2, Between
  <1> QED BY <1>2, <1>3, <1>4, <1>5, <1>6

\* Pairs of intervals of two lists overlap in seconds no other pair does.
LEMMA OverlapIs ==
  ASSUME NEW x, Neat(x), NEW y, Neat(y)
  PROVE  Phases!IntervalOverlap(x, y) = Cardinality(Covered(x) \cap Covered(y))
  <1> DEFINE S == (DOMAIN x) \X (DOMAIN y)
             F == [p \in S |-> Ticks(x[p[1]]) \cap Ticks(y[p[2]])]
             g == [p \in S |-> Phases!Max({0, Phases!Min({x[p[1]].to, y[p[2]].to})
                                                - Phases!Max({x[p[1]].from, y[p[2]].from})})]
  <1>1. /\ DOMAIN x = 1 .. Len(x) /\ IsFiniteSet(DOMAIN x) /\ \A k \in DOMAIN x : x[k] \in Period
        /\ \A k, l \in DOMAIN x : k # l => Ticks(x[k]) \cap Ticks(x[l]) = {}
    BY NeatPeriods
  <1>2. /\ DOMAIN y = 1 .. Len(y) /\ IsFiniteSet(DOMAIN y) /\ \A k \in DOMAIN y : y[k] \in Period
        /\ \A k, l \in DOMAIN y : k # l => Ticks(y[k]) \cap Ticks(y[l]) = {}
    BY NeatPeriods
  <1>3. IsFiniteSet(S)
    <2>1. IsFiniteSet(DOMAIN x) /\ IsFiniteSet(DOMAIN y)
      BY <1>1, <1>2
    <2> QED BY <2>1, FS_Product
  <1>4. \A p \in S : IsFiniteSet(F[p]) /\ Cardinality(F[p]) = g[p]
    <2> TAKE p \in S
    <2>1. x[p[1]] \in Period /\ y[p[2]] \in Period
      BY <1>1, <1>2
    <2> QED BY <2>1, OverlapOfTwo
  <1>5. \A p, q \in S : p # q => F[p] \cap F[q] = {}
    <2> SUFFICES ASSUME NEW p \in S, NEW q \in S, p # q
                 PROVE  F[p] \cap F[q] = {}
      OBVIOUS
    <2>1. p[1] \in DOMAIN x /\ q[1] \in DOMAIN x /\ p[2] \in DOMAIN y /\ q[2] \in DOMAIN y
      OBVIOUS
    <2>2. p[1] # q[1] \/ p[2] # q[2]
      OBVIOUS
    <2>3. CASE p[1] # q[1]
      BY <1>1, <2>1, <2>3
    <2>4. CASE p[2] # q[2]
      BY <1>2, <2>1, <2>4
    <2> QED BY <2>2, <2>3, <2>4
  <1>6. Union(F, S) = Covered(x) \cap Covered(y)
    <2>1. ASSUME NEW t \in Union(F, S) PROVE t \in Covered(x) \cap Covered(y)
      BY <1>1, <1>2, <2>1 DEF Union, Covered, Cover
    <2>2. ASSUME NEW t \in Covered(x) \cap Covered(y) PROVE t \in Union(F, S)
      <3>1. PICK k \in DOMAIN x : t \in Ticks(x[k])
        BY <1>1, <2>2 DEF Covered, Cover
      <3>2. PICK l \in DOMAIN y : t \in Ticks(y[l])
        BY <1>2, <2>2 DEF Covered, Cover
      <3>3. <<k, l>> \in S /\ t \in F[<<k, l>>]
        BY <3>1, <3>2
      <3> HIDE DEF F, S
      <3> QED BY <3>3 DEF Union
    <2> QED BY <2>1, <2>2
  <1>7. Phases!IntervalOverlap(x, y) = Phases!SumFunction([p \in S |-> g[p]])
    <2>1. [p \in S |-> g[p]] = g
      OBVIOUS
    <2> QED BY <2>1 DEF Phases!IntervalOverlap
  <1> HIDE DEF S, F, g
  <1>8. Phases!SumFunction([p \in S |-> g[p]]) = Cardinality(Union(F, S))
    BY <1>3, <1>4, <1>5, SizesAdd
  <1> QED BY <1>6, <1>7, <1>8

\* The seconds that are over and that a phase covers, by a row or still open.
Under(phase, t) == \E k \in DOMAIN open : open[k].phase = phase /\ open[k].since <= t
Closed(phase, t) == \E k \in Phases!Rows(phase) : t \in RowTicks(k)
Seconds(phase) == {t \in 0 .. (clock - 1) : Closed(phase, t) \/ Under(phase, t)}

\* Only a conversation contains other phases; two inferences never overlap; and
\* the thread's seconds are those of its phases, a wait inside a conversation
\* counting as a wait only.
Innermost == \A k \in DOMAIN open : open[k].phase # "agent" => k = Len(open)
Apart ==
    /\ \A k, l \in Phases!Rows("inference") : k # l => RowTicks(k) \cap RowTicks(l) = {}
    /\ \A k \in Phases!Rows("inference"), l \in DOMAIN open :
          open[l].phase = "inference" => metrics[k].end <= open[l].since
SpentTold ==
    /\ spent.swap = Cardinality(Seconds("swap"))
    /\ spent.tool = Cardinality(Seconds("agent") \ Seconds("swap"))
    /\ spent.reasoning = Cardinality(Seconds("inference"))
SecondsKept == Innermost /\ Apart /\ SpentTold

\* The rows of a phase are rows.
LEMMA RowsAre ==
  \A phase : Phases!Rows(phase) \in SUBSET DOMAIN metrics
  BY DEF Phases!Rows

\* Once every phase has ended, rows cover what there is to cover.
LEMMA SecondsOver ==
  ASSUME PhasesInv, open = <<>>
  PROVE  \A phase : Seconds(phase) = UNION {RowTicks(k) : k \in Phases!Rows(phase)}
  <1> TAKE phase
  <1>1. \A k \in Phases!Rows(phase) : \A t \in RowTicks(k) : t \in 0 .. (clock - 1)
    <2> TAKE k \in Phases!Rows(phase)
    <2>1. k \in DOMAIN metrics
      BY DEF Phases!Rows
    <2>2. RowSpan(k).from \in Nat /\ RowSpan(k).to = metrics[k].end /\ metrics[k].end \in Nat
      BY <2>1, RowSpans
    <2>3. metrics[k].end <= clock /\ clock \in Nat
      BY <2>1, PhaseBounds DEF PhasesInv
    <2> QED BY <2>2, <2>3 DEF RowTicks, Ticks
  <1>2. \A t : ~Under(phase, t)
    BY DEF Under
  <1> QED BY <1>1, <1>2 DEF Seconds, Closed

\* The merged waits are the seconds some wait covers.
LEMMA SwapIs ==
  ASSUME PhasesInv, open = <<>>
  PROVE  Phases!SwapSeconds = Cardinality(Seconds("swap"))
  <1> DEFINE spans == Phases!MergeIntervals(Phases!Rows("swap"))
  <1>1. Phases!SwapSeconds = Phases!IntervalLen(spans)
    BY DEF Phases!SwapSeconds
  <1>2. Neat(spans) /\ Covered(spans) = UNION {RowTicks(k) : k \in Phases!Rows("swap")}
    BY RowsAre, MergedRows
  <1>3. Covered(spans) = Seconds("swap")
    BY <1>2, SecondsOver
  <1> HIDE DEF spans
  <1> QED BY <1>1, <1>2, <1>3, LengthIs

\* Conversations without their overlap with waits.
LEMMA ToolIs ==
  ASSUME PhasesInv, open = <<>>
  PROVE  Phases!ToolSeconds = Cardinality(Seconds("agent") \ Seconds("swap"))
  <1> DEFINE agents == Phases!MergeIntervals(Phases!Rows("agent"))
             swaps == Phases!MergeIntervals(Phases!Rows("swap"))
             A == Seconds("agent")
             B == Seconds("swap")
  <1>1. Phases!ToolSeconds = Phases!IntervalLen(agents) - Phases!IntervalOverlap(agents, swaps)
    BY DEF Phases!ToolSeconds
  <1>2. Neat(agents) /\ Covered(agents) = UNION {RowTicks(k) : k \in Phases!Rows("agent")}
    BY RowsAre, MergedRows
  <1>3. Neat(swaps) /\ Covered(swaps) = UNION {RowTicks(k) : k \in Phases!Rows("swap")}
    BY RowsAre, MergedRows
  <1>4. Covered(agents) = A /\ Covered(swaps) = B
    BY <1>2, <1>3, SecondsOver
  <1> HIDE DEF agents, swaps, A, B
  <1>5. IsFiniteSet(A) /\ Phases!IntervalLen(agents) = Cardinality(A)
    BY <1>2, <1>4, LengthIs
  <1>6. Phases!IntervalOverlap(agents, swaps) = Cardinality(A \cap B)
    BY <1>2, <1>3, <1>4, OverlapIs
  <1>7. IsFiniteSet(A \ B) /\ IsFiniteSet(A \cap B)
    BY <1>5, FS_Subset
  <1>8. Cardinality(A \ B) \in Nat /\ Cardinality(A \cap B) \in Nat
    BY <1>7, FS_CardinalityType
  <1>9. (A \ B) \cup (A \cap B) = A /\ (A \ B) \cap (A \cap B) = {}
    OBVIOUS
  <1>10. Cardinality((A \ B) \cup (A \cap B)) = Cardinality(A \ B) + Cardinality(A \cap B)
    BY <1>7, <1>9, CountsAdd
  <1>11. Phases!ToolSeconds = Cardinality(A) - Cardinality(A \cap B)
    BY <1>1, <1>5, <1>6
  <1>12. Phases!ToolSeconds = Cardinality(A \ B)
    <2>1. Cardinality(A) = Cardinality(A \ B) + Cardinality(A \cap B)
      BY <1>9, <1>10
    <2> DEFINE x == Cardinality(A \ B)
               y == Cardinality(A \cap B)
    <2>2. x \in Nat /\ y \in Nat /\ Cardinality(A) = x + y
      BY <1>8, <2>1
    <2>3. Phases!ToolSeconds = (x + y) - y
      BY <1>11, <2>2
    <2> HIDE DEF x, y
    <2>4. Phases!ToolSeconds = x
      BY <2>2, <2>3
    <2> QED BY <2>4 DEF x
  <1> QED BY <1>12 DEF A, B

\* Inferences are added up unmerged: they never overlap.
LEMMA ReasoningIs ==
  ASSUME PhasesInv, Apart, open = <<>>
  PROVE  Phases!ReasoningSeconds = Cardinality(Seconds("inference"))
  <1> DEFINE S == Phases!Rows("inference")
             F == [k \in S |-> RowTicks(k)]
             g == [k \in S |-> metrics[k].dur]
  <1>1. S \in SUBSET DOMAIN metrics
    BY RowsAre
  <1>2. IsFiniteSet(S)
    <2>1. metrics \in Seq(MetricsRow)
      BY DEF PhasesInv
    <2>2. DOMAIN metrics = 1 .. Len(metrics) /\ Len(metrics) \in Nat
      BY <2>1
    <2>3. IsFiniteSet(1 .. Len(metrics))
      BY <2>2, FS_Interval
    <2> QED BY <1>1, <2>2, <2>3, FS_Subset
  <1>3. \A k \in S : IsFiniteSet(F[k]) /\ Cardinality(F[k]) = g[k]
    <2> SUFFICES ASSUME NEW k \in S
                 PROVE  IsFiniteSet(RowTicks(k)) /\ Cardinality(RowTicks(k)) = metrics[k].dur
      OBVIOUS
    <2>1. /\ RowSpan(k) \in Period /\ RowSpan(k).from = metrics[k].end - metrics[k].dur
          /\ RowSpan(k).to = metrics[k].end /\ metrics[k].end \in Nat /\ metrics[k].dur \in Nat
      BY <1>1, RowSpans
    <2>2. IsFiniteSet(RowTicks(k)) /\ Cardinality(RowTicks(k)) = RowSpan(k).to - RowSpan(k).from
      BY <2>1, TicksOf DEF RowTicks
    <2> QED BY <2>1, <2>2
  <1>4. \A k, l \in S : k # l => F[k] \cap F[l] = {}
    BY DEF Apart
  <1>5. Union(F, S) = Seconds("inference")
    <2>1. Union(F, S) = UNION {RowTicks(k) : k \in S}
      BY DEF Union
    <2> QED BY <2>1, SecondsOver
  <1>6. Phases!ReasoningSeconds = Phases!SumFunction([k \in S |-> g[k]])
    <2>1. [k \in S |-> g[k]] = [k \in S |-> metrics[k].dur]
      OBVIOUS
    <2> QED BY <2>1 DEF Phases!ReasoningSeconds
  <1> HIDE DEF S, F, g
  <1>7. Phases!SumFunction([k \in S |-> g[k]]) = Cardinality(Union(F, S))
    BY <1>2, <1>3, <1>4, SizesAdd
  <1> QED BY <1>5, <1>6, <1>7

\* The sums of the metrics file are the seconds the thread spent.
LEMMA SumsTold == PhasesInv /\ SecondsKept => Phases!Q2Exact
  <1> SUFFICES ASSUME PhasesInv, SecondsKept, open = <<>>
               PROVE  /\ Phases!ToolSeconds = spent.tool /\ Phases!SwapSeconds = spent.swap
                      /\ Phases!ReasoningSeconds = spent.reasoning
    BY DEF Phases!Q2Exact
  <1>1. SpentTold /\ Apart
    BY DEF SecondsKept
  <1>2. Phases!ToolSeconds = Cardinality(Seconds("agent") \ Seconds("swap"))
    BY ToolIs
  <1>3. Phases!SwapSeconds = Cardinality(Seconds("swap"))
    BY SwapIs
  <1>4. Phases!ReasoningSeconds = Cardinality(Seconds("inference"))
    BY <1>1, ReasoningIs
  <1> QED BY <1>1, <1>2, <1>3, <1>4 DEF SpentTold

\* A trial begins with nothing spent and nothing covered.
LEMMA InitSeconds == Phases!PhasesInit => SecondsKept
  <1> SUFFICES ASSUME Phases!PhasesInit PROVE SecondsKept
    OBVIOUS
  <1>1. clock = 0 /\ open = <<>> /\ metrics = <<>> /\ spent = [tool |-> 0, swap |-> 0, reasoning |-> 0]
    BY DEF Phases!PhasesInit, Phases!NoTime
  <1>2. \A phase : Seconds(phase) = {}
    BY <1>1 DEF Seconds
  <1>3. Innermost /\ Apart
    BY <1>1 DEF Innermost, Apart, Phases!Rows
  <1>4. Seconds("agent") \ Seconds("swap") = {} /\ Cardinality({}) = 0
    BY <1>2, FS_EmptySet
  <1>5. SpentTold
    BY <1>1, <1>2, <1>4 DEF SpentTold
  <1> QED BY <1>3, <1>5 DEF SecondsKept

\* Loads in the background and the other parts leave the seconds alone.
LEMMA StillSeconds ==
  ASSUME SecondsKept, UNCHANGED <<clock, open, metrics, spent>>
  PROVE  SecondsKept'
  <1>1. /\ \A phase : Phases!Rows(phase)' = Phases!Rows(phase)
        /\ \A k : RowTicks(k)' = RowTicks(k)
    BY DEF Phases!Rows, RowTicks, RowSpan, Phases!SpanOf
  <1>2. \A phase, t : Closed(phase, t)' = Closed(phase, t) /\ Under(phase, t)' = Under(phase, t)
    BY <1>1 DEF Closed, Under
  <1>3. \A phase : Seconds(phase)' = Seconds(phase)
    BY <1>2 DEF Seconds
  <1>4. SpentTold'
    BY <1>3 DEF SecondsKept, SpentTold
  <1>5. Innermost' /\ Apart'
    BY <1>1 DEF SecondsKept, Innermost, Apart
  <1> QED BY <1>4, <1>5 DEF SecondsKept

\* What is covered is over, and finitely many seconds are.
LEMMA SecondsAre ==
  ASSUME PhasesInv
  PROVE  /\ \A phase : IsFiniteSet(Seconds(phase)) /\ clock \notin Seconds(phase)
         /\ \A phase, t : Closed(phase, t) => t \in Int /\ t < clock
  <1>1. clock \in Nat
    BY PhaseBounds DEF PhasesInv
  <1>2. \A phase, t : Closed(phase, t) => t \in Int /\ t < clock
    <2> SUFFICES ASSUME NEW phase, NEW t, NEW k \in Phases!Rows(phase), t \in RowTicks(k)
                 PROVE  t \in Int /\ t < clock
      BY DEF Closed
    <2>1. k \in DOMAIN metrics
      BY RowsAre
    <2>2. RowSpan(k).from \in Nat /\ RowSpan(k).to = metrics[k].end /\ metrics[k].end \in Nat
      BY <2>1, RowSpans
    <2>3. metrics[k].end <= clock
      BY <2>1 DEF PhasesInv
    <2> QED BY <1>1, <2>2, <2>3 DEF RowTicks, Ticks
  <1>3. \A phase : IsFiniteSet(Seconds(phase)) /\ clock \notin Seconds(phase)
    <2> TAKE phase
    <2>1. IsFiniteSet(0 .. (clock - 1))
      BY <1>1, Between
    <2>2. Seconds(phase) \in SUBSET (0 .. (clock - 1))
      BY DEF Seconds
    <2>3. clock \notin 0 .. (clock - 1)
      BY <1>1
    <2> QED BY <2>1, <2>2, <2>3, FS_Subset
  <1> QED BY <1>2, <1>3

\* A phase that opens now covers no second that is over.
LEMMA OpensSeconds ==
  ASSUME PhasesInv, SecondsKept, NEW p \in {"agent", "inference", "swap"},
         NEW m \in Model \cup {Phases!None}, Phases!Opens(p, m)
  PROVE  SecondsKept'
  <1> DEFINE n == Len(open)
  <1>1. /\ n \in Nat /\ DOMAIN open = 1 .. n /\ DOMAIN open' = 1 .. n + 1
        /\ open'[n + 1].phase = p /\ open'[n + 1].since = clock /\ Len(open') = n + 1
        /\ \A k \in 1 .. n : open'[k] = open[k] /\ open[k].phase \in {"agent", "inference", "swap"}
        /\ \A k \in 1 .. n : open[k].since \in Nat
        /\ UNCHANGED <<clock, metrics, spent>> /\ clock \in Nat
    <2>1. open \in Seq(OpenPhase) /\ \A k \in DOMAIN open : open[k] \in OpenPhase
      BY DEF PhasesInv
    <2>2. open' = Append(open, [phase |-> p, model |-> m, since |-> clock]) /\ UNCHANGED <<clock, metrics, spent>>
      BY DEF Phases!Opens
    <2>3. clock \in Nat
      BY PhaseBounds DEF PhasesInv
    <2> QED BY <2>1, <2>2, <2>3 DEF OpenPhase
  <1>2. \A k \in 1 .. n : open[k].phase = "agent"
    BY <1>1 DEF Phases!Opens, Phases!In
  <1> HIDE DEF n
  <1>3. /\ \A phase : Phases!Rows(phase)' = Phases!Rows(phase)
        /\ \A k : RowTicks(k)' = RowTicks(k)
    BY <1>1 DEF Phases!Rows, RowTicks, RowSpan, Phases!SpanOf
  <1>4. \A phase, t : Closed(phase, t)' = Closed(phase, t)
    BY <1>3 DEF Closed
  <1>5. \A phase : \A t \in 0 .. (clock - 1) : Under(phase, t)' <=> Under(phase, t)
    <2> TAKE phase
    <2> TAKE t \in 0 .. (clock - 1)
    <2>1. ~(clock <= t)
      BY <1>1
    <2>2. ASSUME Under(phase, t)' PROVE Under(phase, t)
      <3>1. PICK k \in 1 .. n + 1 : open'[k].phase = phase /\ open'[k].since <= t
        BY <1>1, <2>2 DEF Under
      <3>2. k # n + 1
        BY <1>1, <2>1, <3>1
      <3>3. k \in 1 .. n
        BY <1>1, <3>2
      <3> QED BY <1>1, <3>1, <3>3 DEF Under
    <2>3. ASSUME Under(phase, t) PROVE Under(phase, t)'
      <3>1. PICK k \in 1 .. n : open[k].phase = phase /\ open[k].since <= t
        BY <1>1, <2>3 DEF Under
      <3>2. k \in 1 .. n + 1 /\ open'[k] = open[k]
        BY <1>1
      <3> QED BY <1>1, <3>1, <3>2 DEF Under
    <2> QED BY <2>2, <2>3
  <1>6. \A phase : Seconds(phase)' = Seconds(phase)
    BY <1>1, <1>4, <1>5 DEF Seconds
  <1>7. SpentTold'
    BY <1>1, <1>6 DEF SecondsKept, SpentTold
  <1>8. Innermost'
    <2>1. \A k \in 1 .. n + 1 : open'[k].phase # "agent" => k = n + 1
      BY <1>1, <1>2
    <2> QED BY <1>1, <2>1 DEF Innermost
  <1>9. Apart'
    <2>1. \A k, l \in Phases!Rows("inference") : k # l => RowTicks(k) \cap RowTicks(l) = {}
      BY DEF SecondsKept, Apart
    <2>2. \A k \in Phases!Rows("inference"), l \in 1 .. n + 1 :
             open'[l].phase = "inference" => metrics[k].end <= open'[l].since
      <3> TAKE k \in Phases!Rows("inference"), l \in 1 .. n + 1
      <3> HAVE open'[l].phase = "inference"
      <3>1. l = n + 1
        BY <1>1, <1>2
      <3>2. metrics[k].end <= clock
        BY RowsAre DEF PhasesInv
      <3> QED BY <1>1, <3>1, <3>2
    <2>3. \A k, l \in Phases!Rows("inference")' : k # l => (RowTicks(k) \cap RowTicks(l) = {})'
      BY <1>3, <2>1
    <2>4. \A k \in Phases!Rows("inference")', l \in DOMAIN open' :
             open'[l].phase = "inference" => metrics'[k].end <= open'[l].since
      BY <1>1, <1>3, <2>2
    <2> QED BY <2>3, <2>4 DEF Apart
  <1> QED BY <1>7, <1>8, <1>9 DEF SecondsKept

\* The row of a phase covers what the phase covered while it was open.
LEMMA ClosesSeconds ==
  ASSUME PhasesInv, SecondsKept, Phases!Closes
  PROVE  SecondsKept'
  <1>0. PICK z \in Nat : z = Len(metrics)
    BY DEF PhasesInv
  <1> DEFINE n == Len(open)
             r == open[n]
  <1>1. /\ n \in Nat /\ n > 0 /\ DOMAIN open = 1 .. n /\ n \in 1 .. n
        /\ r.since \in Nat /\ r.since < clock /\ clock \in Nat
        /\ \A k \in 1 .. n : open[k].phase \in {"agent", "inference", "swap"} /\ open[k].since \in Nat
        /\ DOMAIN metrics = 1 .. z
        /\ UNCHANGED <<clock, spent>>
    <2>1. open \in Seq(OpenPhase) /\ \A k \in DOMAIN open : open[k] \in OpenPhase
      BY DEF PhasesInv
    <2>2. open # <<>> /\ open[Len(open)].since < clock /\ UNCHANGED <<clock, spent>>
      BY DEF Phases!Closes, Phases!Last
    <2>3. clock \in Nat
      BY PhaseBounds DEF PhasesInv
    <2>4. n \in Nat /\ n > 0 /\ DOMAIN open = 1 .. n /\ n \in 1 .. n
      BY <2>1, <2>2
    <2>5. DOMAIN metrics = 1 .. z
      BY <1>0 DEF PhasesInv
    <2> HIDE DEF n
    <2>6. \A k \in 1 .. n : open[k].phase \in {"agent", "inference", "swap"} /\ open[k].since \in Nat
      BY <2>1, <2>4 DEF OpenPhase
    <2>7. r.since \in Nat /\ r.since < clock
      BY <2>2, <2>4, <2>6 DEF n
    <2> QED BY <2>2, <2>3, <2>4, <2>5, <2>6, <2>7
  <1>2. /\ DOMAIN open' = 1 .. (n - 1) /\ Len(open') = n - 1
        /\ \A k \in 1 .. (n - 1) : open'[k] = open[k]
    <2>1. open \in Seq(OpenPhase)
      BY DEF PhasesInv
    <2>2. open' = SubSeq(open, 1, Len(open) - 1)
      BY DEF Phases!Closes, Phases!Front
    <2> QED BY <1>1, <2>1, <2>2
  <1>3. /\ DOMAIN metrics' = 1 .. z + 1 /\ \A k \in 1 .. z : metrics'[k] = metrics[k]
        /\ metrics'[z + 1].phase = r.phase /\ metrics'[z + 1].end = clock
        /\ metrics'[z + 1].dur = clock - r.since
    <2>1. metrics \in Seq(MetricsRow)
      BY DEF PhasesInv
    <2>2. metrics' = Append(metrics, [phase |-> r.phase, model |-> r.model, end |-> clock, dur |-> clock - r.since])
      BY DEF Phases!Closes, Phases!Last
    <2> QED BY <1>0, <2>1, <2>2
  <1>14. n \in Nat /\ n = Len(open) /\ DOMAIN open = 1 .. n
    BY <1>1
  <1> HIDE DEF n, r
  <1>4. \A k \in 1 .. (n - 1) : open[k].phase = "agent"
    <2> TAKE k \in 1 .. (n - 1)
    <2>1. k \in 1 .. n /\ k # n
      BY <1>14
    <2>2. k \in DOMAIN open /\ k # Len(open)
      BY <1>14, <2>1
    <2> QED BY <2>2 DEF SecondsKept, Innermost
  <1>5. \A k \in 1 .. z : RowTicks(k)' = RowTicks(k)
    BY <1>3 DEF RowTicks, RowSpan, Phases!SpanOf
  <1>6. RowTicks(z + 1)' = r.since .. (clock - 1)
    <2>1. clock - (clock - r.since) = r.since
      BY <1>1
    <2> QED BY <1>3, <2>1 DEF RowTicks, RowSpan, Phases!SpanOf, Ticks
  <1>7. \A phase : Phases!Rows(phase) \in SUBSET (1 .. z) /\ (Phases!Rows(phase)' =
                      IF r.phase = phase THEN Phases!Rows(phase) \cup {z + 1} ELSE Phases!Rows(phase))
    <2> TAKE phase
    <2>1. Phases!Rows(phase) = {k \in 1 .. z : metrics[k].phase = phase}
      BY <1>1 DEF Phases!Rows
    <2>2. Phases!Rows(phase)' = {k \in 1 .. z + 1 : metrics'[k].phase = phase}
      BY <1>3 DEF Phases!Rows
    <2>3. 1 .. z + 1 = (1 .. z) \cup {z + 1} /\ z + 1 \notin 1 .. z
      BY <1>1
    <2> QED BY <1>3, <2>1, <2>2, <2>3
  <1>8. \A phase : \A t \in 0 .. (clock - 1) :
           Closed(phase, t)' <=> (Closed(phase, t) \/ (r.phase = phase /\ r.since <= t))
    <2> TAKE phase
    <2> TAKE t \in 0 .. (clock - 1)
    <2>1. (t \in RowTicks(z + 1)') <=> (r.since <= t)
      BY <1>1, <1>6
    <2>2. Closed(phase, t)' <=> \E k \in Phases!Rows(phase)' : t \in RowTicks(k)'
      BY DEF Closed
    <2>3. \A k \in Phases!Rows(phase) : RowTicks(k)' = RowTicks(k)
      BY <1>5, <1>7
    <2>4. CASE r.phase = phase
      <3>1. Phases!Rows(phase)' = Phases!Rows(phase) \cup {z + 1}
        BY <1>7, <2>4
      <3>2. Closed(phase, t) <=> \E k \in Phases!Rows(phase) : t \in RowTicks(k)'
        BY <2>3 DEF Closed
      <3> QED BY <2>1, <2>2, <2>4, <3>1, <3>2
    <2>5. CASE r.phase # phase
      <3>1. Phases!Rows(phase)' = Phases!Rows(phase)
        BY <1>7, <2>5
      <3> QED BY <2>2, <2>3, <2>5, <3>1 DEF Closed
    <2> QED BY <2>4, <2>5
  <1>9. \A phase, t : Under(phase, t) <=> (Under(phase, t)' \/ (r.phase = phase /\ r.since <= t))
    <2> TAKE phase, t
    <2>1. ASSUME Under(phase, t) PROVE Under(phase, t)' \/ (r.phase = phase /\ r.since <= t)
      <3>1. PICK k \in 1 .. n : open[k].phase = phase /\ open[k].since <= t
        BY <1>1, <2>1 DEF Under
      <3>2. CASE k = n
        BY <3>1, <3>2 DEF r
      <3>3. CASE k # n
        <4>1. k \in 1 .. (n - 1) /\ open'[k] = open[k]
          BY <1>1, <1>2, <3>3
        <4> QED BY <1>2, <3>1, <4>1 DEF Under
      <3> QED BY <3>2, <3>3
    <2>2. ASSUME Under(phase, t)' PROVE Under(phase, t)
      <3>1. PICK k \in 1 .. (n - 1) : open'[k].phase = phase /\ open'[k].since <= t
        BY <1>2, <2>2 DEF Under
      <3>2. k \in 1 .. n /\ open'[k] = open[k]
        BY <1>1, <1>2
      <3> QED BY <1>1, <3>1, <3>2 DEF Under
    <2>3. ASSUME r.phase = phase, r.since <= t PROVE Under(phase, t)
      BY <1>1, <2>3 DEF Under, r
    <2> QED BY <2>1, <2>2, <2>3
  <1>10. \A phase : Seconds(phase)' = Seconds(phase)
    <2> TAKE phase
    <2>1. Seconds(phase)' = {t \in 0 .. (clock - 1) : Closed(phase, t)' \/ Under(phase, t)'}
      BY <1>1 DEF Seconds
    <2>2. \A t \in 0 .. (clock - 1) : (Closed(phase, t)' \/ Under(phase, t)') <=> (Closed(phase, t) \/ Under(phase, t))
      BY <1>8, <1>9
    <2> QED BY <2>1, <2>2 DEF Seconds
  <1>11. SpentTold'
    BY <1>1, <1>10 DEF SecondsKept, SpentTold
  <1>12. Innermost'
    BY <1>2, <1>4 DEF Innermost
  <1>13. Apart'
    <2> DEFINE S == Phases!Rows("inference")
    <2>1. \A k, l \in S : k # l => RowTicks(k)' \cap RowTicks(l)' = {}
      <3>1. \A k \in S : RowTicks(k)' = RowTicks(k)
        BY <1>5, <1>7
      <3> QED BY <3>1 DEF SecondsKept, Apart
    <2>2. r.phase = "inference" => \A k \in S : RowTicks(k)' \cap RowTicks(z + 1)' = {}
      <3> SUFFICES ASSUME r.phase = "inference", NEW k \in S, NEW t \in RowTicks(k)', t \in RowTicks(z + 1)'
                   PROVE  FALSE
        OBVIOUS
      <3>1. metrics[k].end <= r.since
        BY <1>1 DEF SecondsKept, Apart, r
      <3>2. k \in DOMAIN metrics /\ RowTicks(k)' = RowTicks(k)
        BY <1>1, <1>5, <1>7
      <3>3. RowSpan(k).from \in Nat /\ RowSpan(k).to = metrics[k].end /\ metrics[k].end \in Nat
        BY <3>2, RowSpans
      <3>6. t \in RowTicks(k)
        BY <3>2
      <3>4. t \in Int /\ t <= metrics[k].end - 1
        BY <3>3, <3>6 DEF RowTicks, Ticks
      <3>5. r.since <= t
        BY <1>1, <1>6
      <3> QED BY <1>1, <3>1, <3>3, <3>4, <3>5
    <2>3. \A k, l \in S' : k # l => RowTicks(k)' \cap RowTicks(l)' = {}
      <3>1. CASE r.phase = "inference"
        <4>1. S' = S \cup {z + 1}
          BY <1>7, <3>1
        <4> HIDE DEF S
        <4>2. \A k \in S : RowTicks(k)' \cap RowTicks(z + 1)' = {}
          BY <2>2, <3>1
        <4> QED BY <2>1, <4>1, <4>2
      <3>2. CASE r.phase # "inference"
        <4>1. S' = S
          BY <1>7, <3>2
        <4> HIDE DEF S
        <4> QED BY <2>1, <4>1
      <3> QED BY <3>1, <3>2
    <2>4. \A l \in DOMAIN open' : open'[l].phase # "inference"
      BY <1>2, <1>4
    <2> QED BY <2>3, <2>4 DEF Apart
  <1> QED BY <1>11, <1>12, <1>13 DEF SecondsKept

\* A second that is over is one of those of the phases under way.
LEMMA SecondPasses ==
  ASSUME PhasesInv, Phases!Passes
  PROVE  \A phase : Seconds(phase)' = IF Phases!In({phase}) THEN Seconds(phase) \cup {clock} ELSE Seconds(phase)
  <1> TAKE phase
  <1>1. clock' = clock + 1 /\ UNCHANGED <<open, metrics>> /\ clock \in Nat
    BY PhaseBounds DEF Phases!Passes, PhasesInv
  <1>2. \A t : (Closed(phase, t)' <=> Closed(phase, t)) /\ (Under(phase, t)' <=> Under(phase, t))
    <2>1. Phases!Rows(phase)' = Phases!Rows(phase) /\ \A k : RowTicks(k)' = RowTicks(k)
      BY <1>1 DEF Phases!Rows, RowTicks, RowSpan, Phases!SpanOf
    <2> QED BY <1>1, <2>1 DEF Closed, Under
  <1>3. ~Closed(phase, clock)
    BY <1>1, SecondsAre
  <1>4. Under(phase, clock) <=> Phases!In({phase})
    <2>1. \A k \in DOMAIN open : open[k].since <= clock
      BY DEF PhasesInv
    <2> QED BY <2>1 DEF Under, Phases!In
  <1>5. 0 .. (clock' - 1) = (0 .. (clock - 1)) \cup {clock}
    BY <1>1
  <1>6. Seconds(phase)' = {t \in (0 .. (clock - 1)) \cup {clock} : Closed(phase, t) \/ Under(phase, t)}
    BY <1>2, <1>5 DEF Seconds
  <1> QED BY <1>3, <1>4, <1>6 DEF Seconds

\* One second more.
LEMMA OneMoreTold ==
  ASSUME NEW s, IsFiniteSet(s), NEW t, t \notin s
  PROVE  Cardinality(s \cup {t}) = Cardinality(s) + 1
  BY FS_AddElement

\* The second goes where spent counts it.
LEMMA PassesSeconds ==
  ASSUME PhasesInv, SecondsKept, Phases!Passes
  PROVE  SecondsKept'
  <1> DEFINE agent == Seconds("agent")
             swap == Seconds("swap")
             inference == Seconds("inference")
  <1>1. clock' = clock + 1 /\ UNCHANGED <<open, metrics>>
    BY DEF Phases!Passes
  <1>2. /\ IsFiniteSet(agent) /\ IsFiniteSet(swap) /\ IsFiniteSet(inference) /\ IsFiniteSet(agent \ swap)
        /\ clock \notin agent /\ clock \notin swap /\ clock \notin inference
    <2>1. /\ IsFiniteSet(agent) /\ IsFiniteSet(swap) /\ IsFiniteSet(inference)
          /\ clock \notin agent /\ clock \notin swap /\ clock \notin inference
      BY SecondsAre
    <2>2. IsFiniteSet(agent \ swap)
      BY <2>1, FS_Subset
    <2> QED BY <2>1, <2>2
  <1>3. /\ spent \in [tool : 0 .. clock, swap : 0 .. clock, reasoning : 0 .. clock]
        /\ spent.swap = Cardinality(swap) /\ spent.tool = Cardinality(agent \ swap)
        /\ spent.reasoning = Cardinality(inference)
    BY DEF PhasesInv, SecondsKept, SpentTold
  <1>4. /\ agent' = IF Phases!In({"agent"}) THEN agent \cup {clock} ELSE agent
        /\ swap' = IF Phases!In({"swap"}) THEN swap \cup {clock} ELSE swap
        /\ inference' = IF Phases!In({"inference"}) THEN inference \cup {clock} ELSE inference
    BY SecondPasses
  <1>5. SpentTold' <=> /\ spent'.swap = Cardinality(swap') /\ spent'.tool = Cardinality(agent' \ swap')
                       /\ spent'.reasoning = Cardinality(inference')
    BY DEF SpentTold
  <1> HIDE DEF agent, swap, inference
  <1>6. ASSUME Phases!In({"swap"}) PROVE SpentTold'
    <2>1. ~Phases!In({"inference"})
      <3> SUFFICES ASSUME Phases!In({"inference"}) PROVE FALSE
        OBVIOUS
      <3>1. PICK k \in DOMAIN open : open[k].phase = "swap"
        BY <1>6 DEF Phases!In
      <3>2. PICK l \in DOMAIN open : open[l].phase = "inference"
        BY DEF Phases!In
      <3>3. k = Len(open) /\ l = Len(open)
        BY <3>1, <3>2 DEF SecondsKept, Innermost
      <3> QED BY <3>1, <3>2, <3>3
    <2>2. spent' = [spent EXCEPT !.swap = @ + 1]
      BY <1>6 DEF Phases!Passes
    <2>3. spent'.swap = spent.swap + 1 /\ spent'.tool = spent.tool /\ spent'.reasoning = spent.reasoning
      BY <1>3, <2>2
    <2>4. swap' = swap \cup {clock} /\ inference' = inference /\ agent' \ swap' = agent \ swap
      BY <1>2, <1>4, <1>6, <2>1
    <2>5. Cardinality(swap \cup {clock}) = Cardinality(swap) + 1
      BY <1>2, OneMoreTold
    <2> QED BY <1>3, <1>5, <2>3, <2>4, <2>5
  <1>7. ASSUME ~Phases!In({"swap"}) PROVE SpentTold'
    <2>1. spent' = [spent EXCEPT !.tool = IF Phases!In({"agent"}) THEN @ + 1 ELSE @,
                                 !.reasoning = IF Phases!In({"inference"}) THEN @ + 1 ELSE @]
      BY <1>7 DEF Phases!Passes
    <2>2. /\ spent'.swap = spent.swap
          /\ spent'.tool = IF Phases!In({"agent"}) THEN spent.tool + 1 ELSE spent.tool
          /\ spent'.reasoning = IF Phases!In({"inference"}) THEN spent.reasoning + 1 ELSE spent.reasoning
      BY <1>3, <2>1
    <2>3. swap' = swap
      BY <1>4, <1>7
    <2>4. spent'.tool = Cardinality(agent' \ swap')
      <3>1. CASE Phases!In({"agent"})
        <4>1. agent' \ swap' = (agent \ swap) \cup {clock}
          BY <1>2, <1>4, <2>3, <3>1
        <4>2. Cardinality((agent \ swap) \cup {clock}) = Cardinality(agent \ swap) + 1
          BY <1>2, OneMoreTold
        <4> QED BY <1>3, <2>2, <3>1, <4>1, <4>2
      <3>2. CASE ~Phases!In({"agent"})
        BY <1>3, <1>4, <2>2, <2>3, <3>2
      <3> QED BY <3>1, <3>2
    <2>5. spent'.reasoning = Cardinality(inference')
      <3>1. CASE Phases!In({"inference"})
        <4>1. Cardinality(inference \cup {clock}) = Cardinality(inference) + 1
          BY <1>2, OneMoreTold
        <4> QED BY <1>3, <1>4, <2>2, <3>1, <4>1
      <3>2. CASE ~Phases!In({"inference"})
        BY <1>3, <1>4, <2>2, <3>2
      <3> QED BY <3>1, <3>2
    <2> QED BY <1>3, <1>5, <2>2, <2>3, <2>4, <2>5
  <1>8. Innermost'
    BY <1>1 DEF SecondsKept, Innermost
  <1>9. Apart'
    <2>1. /\ Phases!Rows("inference")' = Phases!Rows("inference")
          /\ \A k : RowTicks(k)' = RowTicks(k)
      BY <1>1 DEF Phases!Rows, RowTicks, RowSpan, Phases!SpanOf
    <2> QED BY <1>1, <2>1 DEF SecondsKept, Apart
  <1>10. SpentTold'
    BY <1>6, <1>7
  <1> QED BY <1>8, <1>9, <1>10 DEF SecondsKept

\* Every step of the trial keeps the account.
LEMMA NextSeconds ==
  ASSUME PhasesInv, SecondsKept, Phases!PhasesNext
  PROVE  SecondsKept'
  <1>1. CASE \E p \in {"agent", "inference"} : Phases!Opens(p, Phases!None)
    BY <1>1, OpensSeconds
  <1>2. CASE \E m \in Model : Phases!Opens("swap", m)
    BY <1>2, OpensSeconds
  <1>3. CASE \E m \in Model : Phases!LoadStarts(m)
    BY <1>3, StillSeconds DEF Phases!LoadStarts
  <1>4. CASE Phases!Closes
    BY <1>4, ClosesSeconds
  <1>5. CASE Phases!Passes
    BY <1>5, PassesSeconds
  <1>6. CASE \E k \in DOMAIN tasks : Phases!LoadEnds(k)
    BY <1>6, StillSeconds DEF Phases!LoadEnds
  <1> QED BY <1>1, <1>2, <1>3, <1>4, <1>5, <1>6 DEF Phases!PhasesNext

-------------------------------------------------------------------------------
(* Theorems.                                                               *)

MeasureInv == ProbesInv /\ ProfilerInv /\ PhasesInv /\ SecondsKept

\* Every reachable state satisfies the invariants of the three parts.
THEOREM MeasurementInductive == MeasureSpec => []MeasureInv
  <1>1. MeasureInit => MeasureInv
    BY InitProbes, InitProfiler, InitPhases, InitSeconds DEF MeasureInit, MeasureInv
  <1>2. MeasureInv /\ [MeasureNext]_measured => MeasureInv'
    <2> SUFFICES ASSUME MeasureInv, [MeasureNext]_measured
                 PROVE  MeasureInv'
      OBVIOUS
    <2> USE DEF MeasureInv
    <2>1. CASE ProfilerStep
      <3>1. Profiler!ProfilerNext /\ UNCHANGED probes /\ UNCHANGED phases
        BY <2>1 DEF ProfilerStep
      <3>2. SecondsKept'
        BY <3>1, StillSeconds DEF phases
      <3> QED BY <3>1, <3>2, NextProfiler, StillProbes, StillPhases
    <2>2. CASE ProbesStep
      <3>1. Probes!ProbesNext /\ UNCHANGED profiler /\ UNCHANGED phases
        BY <2>2 DEF ProbesStep
      <3>2. SecondsKept'
        BY <3>1, StillSeconds DEF phases
      <3> QED BY <3>1, <3>2, NextProbes, StillProfiler, StillPhases
    <2>3. CASE PhasesStep
      <3>1. Phases!PhasesNext /\ UNCHANGED profiler /\ UNCHANGED probes
        BY <2>3 DEF PhasesStep
      <3>2. SecondsKept'
        BY <3>1, NextSeconds
      <3> QED BY <3>1, <3>2, NextPhases, StillProfiler, StillProbes
    <2>4. CASE UNCHANGED measured
      <3>1. UNCHANGED profiler /\ UNCHANGED probes /\ UNCHANGED phases
        BY <2>4 DEF measured
      <3>2. SecondsKept'
        BY <3>1, StillSeconds DEF phases
      <3> QED BY <3>1, <3>2, StillProfiler, StillProbes, StillPhases
    <2> QED BY <2>1, <2>2, <2>3, <2>4 DEF MeasureNext
  <1> QED BY <1>1, <1>2, PTL DEF MeasureSpec

\* Counters, rows, phases and verdicts keep their types and bounds.
THEOREM MeasurementTypes == MeasureSpec => []TypesOK
  <1>1. MeasureInv => Profiler!ProfilerTypeOK
    BY DEF MeasureInv, ProfilerInv
  <1>2. MeasureInv => Probes!ProbesTypeOK
    BY DEF MeasureInv, ProbesInv, ProbesTyped, ByOrigin, VerdictRecord, Probes!ProbesTypeOK
  <1>3. MeasureInv => Phases!PhasesTypeOK
    <2> SUFFICES ASSUME PhasesInv PROVE Phases!PhasesTypeOK
      BY DEF MeasureInv
    <2>1. \A i \in DOMAIN metrics : metrics[i].dur \in 0 .. MaxTime
      <3> SUFFICES ASSUME NEW i \in DOMAIN metrics PROVE metrics[i].dur \in 0 .. MaxTime
        OBVIOUS
      <3>1. metrics[i] \in MetricsRow /\ metrics[i].dur <= metrics[i].end /\ metrics[i].end <= clock
        BY DEF PhasesInv
      <3> QED BY <3>1, PhaseBounds DEF MetricsRow, PhasesInv
    <2>2. Len(metrics) <= MaxPhases
      BY PhaseBounds DEF PhasesInv
    <2>3. {spent.tool, spent.swap, spent.reasoning} \subseteq 0 .. MaxTime
      BY PhaseBounds DEF PhasesInv
    <2> QED BY <2>1, <2>2, <2>3 DEF PhasesInv, Phases!PhasesTypeOK
  <1> QED BY <1>1, <1>2, <1>3, MeasurementInductive, PTL DEF TypesOK

\* The profile is true to what ran: while the GPUs have been idle, the idle
\* seconds made of the rows are those between the first row and the last one but
\* the gaps nvidia-smi did not answer for, none lost or counted twice
\* (parse_eval_traces.py:449-464), and the engines that run are in the samples.
THEOREM ProfileIsTrue == MeasureSpec => []ProfileTrue
  <1>1. MeasureInv => Profiler!IdleExact /\ Profiler!RunningSampled
    BY IdleFollows DEF MeasureInv, ProfilerInv, RowTrue, Profiler!RunningSampled
  <1> QED BY <1>1, MeasurementInductive, MeasurementTypes, PTL DEF ProfileTrue

\* Where nvidia-smi gives up before stop() does (5 s and 15 s,
\* system_profiler.py:156, 264), no row is written after stop() has returned,
\* even when it returns without the thread having ended.
THEOREM NoRowAfterStop == SmiTimeout < JoinTimeout => (MeasureSpec => RowsComplete)
  <1> SUFFICES ASSUME SmiTimeout < JoinTimeout PROVE MeasureSpec => RowsComplete
    OBVIOUS
  <1>1. MeasureInv /\ [MeasureNext]_measured => [stopped = Profiler!Returned => rows' = rows]_measured
    <2> SUFFICES ASSUME MeasureInv, MeasureNext, stopped = Profiler!Returned
                 PROVE  rows' = rows
      OBVIOUS
    <2>1. CASE ProfilerStep
      BY <2>1, RowsAdded DEF ProfilerStep, MeasureInv
    <2>2. CASE ProbesStep \/ PhasesStep
      BY <2>2 DEF ProbesStep, PhasesStep, profiler
    <2> QED BY <2>1, <2>2 DEF MeasureNext
  <1> QED BY <1>1, MeasurementInductive, PTL DEF MeasureSpec, RowsComplete

\* The verdict on a load is right at both ends, a load from the cache alone and
\* one from storage alone, whatever others receive and whether or not storage
\* shows on the network; without the process's counters no cache hit is claimed
\* (cluster_probes.py:45-48, 405-449).
THEOREM SourcesTold == MeasureSpec => [](Probes!SourceRight /\ Probes!NoCacheUnseen)
  <1>1. MeasureInv => Probes!SourceRight /\ Probes!NoCacheUnseen
    BY DEF MeasureInv, ProbesInv
  <1> QED BY <1>1, MeasurementInductive, PTL

\* A wait is blamed on the load that was under way for it, and on no load where
\* there was none (extract_prefetch_lifecycle.py:500-514).
THEOREM WaitsBlamed == MeasureSpec => []Phases!BlamedRight
  <1>1. MeasureInv => Phases!BlamedRight
    BY BlameFollows DEF MeasureInv
  <1> QED BY <1>1, MeasurementInductive, PTL

\* Once every phase has ended, the sums made of the metrics file are the seconds
\* the thread spent in conversations but not waiting, in swap waits and in
\* inference, however the phases were nested (parse_eval_traces.py:381-414).
THEOREM SumsAreExact == MeasureSpec => []Phases!Q2Exact
  <1>1. MeasureInv => Phases!Q2Exact
    BY SumsTold DEF MeasureInv
  <1> QED BY <1>1, MeasurementInductive, PTL

\* What the evaluation says of where bytes and seconds went: the origin of a
\* load, the sums of a trial and the load behind a wait are those there were.
THEOREM CausesAlwaysTold == MeasureSpec => []CausesTold
  BY SourcesTold, SumsAreExact, WaitsBlamed, PTL DEF CausesTold

===============================================================================
