-------------------------- MODULE ExecutorSuiteProofs --------------------------
(***************************************************************************)
(* Theorems about the executors' loads (ExecutorSuite), for every number   *)
(* of tasks, tools, keys, files, shards, chunks and threads.  Each         *)
(* executor has an inductive invariant of its own; the suite's invariant   *)
(* is their conjunction, since the executors share no state.               *)
(***************************************************************************)
EXTENDS ExecutorSuite, FiniteSetTheorems, WellFoundedInduction, TLAPS

-------------------------------------------------------------------------------
(* File staging.                                                           *)

\* A copy that ended is in the directory, whole, unless another copy to its
\* name runs or failed half-way.
CopiedFound ==
    \A t \in FileTask :
        /\ copy[t] \in {"ending", "wanted", "redirecting"} \/ t \in staged
        /\ Files!NameIn(t) \notin torn
        /\ \A u \in FileTask : copy[u] = "copying" => Files!NameIn(u) # Files!NameIn(t)
        => scratch[Files!NameIn(t)] = {FileOf[t]}

\* A task that is about to be redirected, or was, did not fail; one whose
\* cancellation met no call on the way is not in progress when its copy ends.
FileKept(t) ==
    /\ filesLaunch[t] = "none" <=> filesStatus[t] = "none"
    /\ filesSweep[t] # "idle" \/ t \in filesStamping => filesLaunch[t] # "none"
    /\ filesLaunch[t] \in {"none", "registered", "refused"} => copy[t] = "none"
    /\ copy[t] = "redirecting" \/ t \in staged => filesStatus[t] # "failed"
    /\ t \in staged => copy[t] = "done"
    /\ filesWithdrawn[t] = "clear" =>
        /\ filesLaunch[t] \notin {"none", "registered"}
        /\ copy[t] \notin {"wanted", "redirecting"} /\ t \notin staged
        /\ copy[t] # "done" => filesStatus[t] # "in_progress"

RedirectKept == \A t \in FileTask : FileKept(t)

FilesInv == Files!TypeOK /\ RedirectKept /\ (DistinctNames => CopiedFound)

LEMMA InitFiles == Files!Init => FilesInv
  BY DEF Files!Init, Files!CallsInit, FilesInv, Files!TypeOK, Files!CallsTypeOK, RedirectKept, FileKept, CopiedFound

LEMMA NameType == \A t \in FileTask : FileOf[t] \in File /\ Files!NameIn(t) \in Files!Name
                                      /\ Files!NameIn(t) = NameOf[FileOf[t]]
  BY SuiteConstants DEF Files!NameIn, Files!Name

LEMMA StillFiles == FilesInv /\ UNCHANGED files => FilesInv'
  <1> SUFFICES ASSUME FilesInv, UNCHANGED files
               PROVE  FilesInv'
    OBVIOUS
  <1>1. Files!TypeOK' /\ RedirectKept'
    BY DEF FilesInv, Files!TypeOK, Files!CallsTypeOK, RedirectKept, FileKept, files
  <1>2. DistinctNames => CopiedFound'
    BY DEF FilesInv, CopiedFound, files, Files!NameIn
  <1> QED BY <1>1, <1>2 DEF FilesInv, DistinctNames

\* What a call on a task that is not about its copy does.
FileCall(t) ==
    \/ Files!Register(t) \/ Files!SweepTask(t) \/ Files!SampleCompleted(t) \/ Files!ChargeWasted(t)
    \/ Files!FindConsumed(t) \/ Files!StampUsed(t)

LEMMA FileCallStep ==
  ASSUME NEW t \in FileTask, Files!TypeOK, FileKept(t), FileCall(t),
         UNCHANGED <<copy, staged, scratch, torn>>
  PROVE  /\ Files!TypeOK' /\ FileKept(t)'
         /\ \A u \in FileTask : u # t =>
             /\ filesStatus'[u] = filesStatus[u] /\ filesLaunch'[u] = filesLaunch[u]
             /\ filesSweep'[u] = filesSweep[u] /\ filesWithdrawn'[u] = filesWithdrawn[u]
             /\ (u \in filesStamping' <=> u \in filesStamping)
  <1> USE DEF Files!TypeOK, Files!CallsTypeOK, FileKept
  <1>1. CASE Files!Register(t)
    BY <1>1 DEF Files!Register
  <1>2. CASE Files!SweepTask(t)
    BY <1>2 DEF Files!SweepTask, Files!Cancellable, Files!Unsettled
  <1>3. CASE Files!SampleCompleted(t)
    BY <1>3 DEF Files!SampleCompleted
  <1>4. CASE Files!ChargeWasted(t)
    BY <1>4 DEF Files!ChargeWasted
  <1>5. CASE Files!FindConsumed(t)
    BY <1>5 DEF Files!FindConsumed
  <1>6. CASE Files!StampUsed(t)
    BY <1>6 DEF Files!StampUsed
  <1> QED BY <1>1, <1>2, <1>3, <1>4, <1>5, <1>6 DEF FileCall

\* A step about one task.
FileStep(t) == Files!Begin(t) \/ Files!Cancel(t) \/ Files!Hook(t) \/ Files!Stage(t)

LEMMA NextFile ==
  ASSUME NEW t \in FileTask, Files!TypeOK, FileKept(t), FileStep(t)
  PROVE  /\ Files!TypeOK' /\ FileKept(t)'
         /\ \A u \in FileTask : u # t =>
             /\ filesStatus'[u] = filesStatus[u] /\ filesLaunch'[u] = filesLaunch[u]
             /\ filesSweep'[u] = filesSweep[u] /\ filesWithdrawn'[u] = filesWithdrawn[u]
             /\ (u \in filesStamping' <=> u \in filesStamping)
             /\ copy'[u] = copy[u] /\ (u \in staged' <=> u \in staged)
         /\ staged \subseteq staged' /\ torn \subseteq torn'
  <1>1. CASE Files!Hook(t)
    BY <1>1, FileCallStep DEF Files!Hook, Files!HookStep, FileCall
  <1> USE NameType DEF Files!TypeOK, Files!CallsTypeOK, FileKept
  <1>2. CASE Files!Begin(t)
    BY <1>2 DEF Files!Begin, Files!Starts, Files!Files
  <1>3. CASE Files!Cancel(t) /\ Files!Reaches(t)
    BY <1>3 DEF Files!Cancel, Files!Reaches, Files!Marks
  <1>4. CASE Files!Cancel(t) /\ ~Files!Reaches(t)
    BY <1>4 DEF Files!Cancel, Files!Marks
  <1>5. CASE Files!StageBegins(t)
    BY <1>5 DEF Files!StageBegins, Files!callVars
  <1>6. CASE Files!MakesScratch(t)
    BY <1>6 DEF Files!MakesScratch, Files!callVars
  <1>7. CASE Files!CopyEnds(t)
    BY <1>7 DEF Files!CopyEnds, Files!callVars
  <1>8. CASE Files!TestsWanted(t)
    BY <1>8 DEF Files!TestsWanted, Files!StillWanted, Files!callVars
  <1>9. CASE Files!Settle(t)
    BY <1>9 DEF Files!Settle, Files!Assigns
  <1>10. CASE Files!Redirect(t)
    BY <1>10 DEF Files!Redirect, Files!callVars
  <1>11. CASE Files!CopyFails(t)
    BY <1>11 DEF Files!CopyFails, Files!AfterFailure, Files!Assigns
  <1> QED BY <1>1, <1>2, <1>3, <1>4, <1>5, <1>6, <1>7, <1>8, <1>9, <1>10, <1>11 DEF FileStep, Files!Stage

LEMMA NextRedirectKept ==
  ASSUME Files!TypeOK, RedirectKept, NEW t \in FileTask, FileStep(t)
  PROVE  RedirectKept'
  <1> SUFFICES ASSUME NEW u \in FileTask
               PROVE  FileKept(u)'
    BY DEF RedirectKept
  <1>1. FileKept(t) /\ FileKept(u)
    BY DEF RedirectKept
  <1>2. CASE u = t
    BY <1>1, <1>2, NextFile
  <1>3. CASE u # t
    BY <1>1, <1>3, NextFile DEF FileKept
  <1> QED BY <1>2, <1>3

\* Only a copy begun or ended changes what a name holds.
LEMMA NextCopiedFound ==
  ASSUME DistinctNames, Files!TypeOK, RedirectKept, CopiedFound, NEW t \in FileTask, FileStep(t)
  PROVE  CopiedFound'
  <1>1. /\ \A u \in FileTask : u # t => copy'[u] = copy[u]
        /\ \A u \in FileTask : u # t => (u \in staged' <=> u \in staged)
        /\ torn \subseteq torn'
    BY NextFile DEF RedirectKept
  <1> SUFFICES ASSUME NEW v \in FileTask,
                      copy'[v] \in {"ending", "wanted", "redirecting"} \/ v \in staged',
                      Files!NameIn(v) \notin torn',
                      \A u \in FileTask : copy'[u] = "copying" => Files!NameIn(u) # Files!NameIn(v)
               PROVE  scratch'[Files!NameIn(v)] = {FileOf[v]}
    BY DEF CopiedFound, Files!NameIn
  <1>2. CASE Files!MakesScratch(t)
    <2>1. copy'[t] # "copying" => UNCHANGED <<scratch, staged>> /\ copy'[t] = "raised"
      BY <1>2 DEF Files!MakesScratch, Files!TypeOK
    <2>2. copy'[t] = "copying" => scratch'[Files!NameIn(v)] = scratch[Files!NameIn(v)]
      BY <1>2, NameType DEF Files!MakesScratch, Files!TypeOK
    <2>3. copy[t] = "making" /\ staged' = staged
      BY <1>2 DEF Files!MakesScratch
    <2> QED BY <1>1, <2>1, <2>2, <2>3 DEF CopiedFound
  <1>3. CASE Files!CopyEnds(t)
    <2>1. /\ scratch' = [scratch EXCEPT ![Files!NameIn(t)] = {FileOf[t]}]
          /\ copy[t] = "copying" /\ copy'[t] = "ending" /\ UNCHANGED <<staged, torn>>
      BY <1>3 DEF Files!CopyEnds, Files!TypeOK
    <2>2. CASE Files!NameIn(v) = Files!NameIn(t)
      <3>1. FileOf[v] = FileOf[t]
        BY <2>2, NameType DEF DistinctNames
      <3> QED BY <2>1, <2>2, <3>1, NameType DEF Files!TypeOK
    <2>3. CASE Files!NameIn(v) # Files!NameIn(t)
      <3>1. scratch'[Files!NameIn(v)] = scratch[Files!NameIn(v)]
        BY <2>1, <2>3, NameType DEF Files!TypeOK
      <3>2. v # t
        BY <2>3
      <3>3. \A u \in FileTask : copy[u] = "copying" => Files!NameIn(u) # Files!NameIn(v)
        BY <1>1, <2>3
      <3> QED BY <1>1, <2>1, <3>1, <3>2, <3>3 DEF CopiedFound
    <2> QED BY <2>2, <2>3
  <1>4. CASE Files!CopyFails(t)
    <2>1. /\ UNCHANGED <<scratch, staged>> /\ torn' = torn \cup {Files!NameIn(t)}
          /\ copy'[t] = "done" /\ copy[t] = "copying"
      BY <1>4 DEF Files!CopyFails, Files!AfterFailure, Files!TypeOK
    <2>2. Files!NameIn(v) # Files!NameIn(t) /\ v # t
      BY <2>1
    <2>3. \A u \in FileTask : copy[u] = "copying" => Files!NameIn(u) # Files!NameIn(v)
      BY <1>1, <2>2
    <2> QED BY <1>1, <2>1, <2>2, <2>3 DEF CopiedFound
  <1>5. ASSUME UNCHANGED <<scratch, torn>>, copy'[t] = "copying" <=> copy[t] = "copying",
               copy'[t] \in {"ending", "wanted", "redirecting"} \/ t \in staged' =>
                    copy[t] \in {"ending", "wanted", "redirecting"} \/ t \in staged
        PROVE  scratch'[Files!NameIn(v)] = {FileOf[v]}
    <2>1. \A u \in FileTask : copy[u] = "copying" => Files!NameIn(u) # Files!NameIn(v)
      BY <1>1, <1>5
    <2> QED BY <1>1, <1>5, <2>1 DEF CopiedFound
  <1>6. CASE Files!Begin(t) \/ Files!Cancel(t) \/ Files!Hook(t) \/ Files!StageBegins(t)
    <2>1. UNCHANGED <<scratch, torn, staged>>
      BY <1>6 DEF Files!Begin, Files!Cancel, Files!Hook, Files!StageBegins
    <2>2. copy[t] = copy'[t] \/ (copy[t] \in {"none", "queued"} /\ copy'[t] \in {"queued", "dropped", "making"})
      BY <1>6 DEF Files!Begin, Files!Starts, Files!Cancel, Files!Hook, Files!StageBegins, Files!TypeOK,
                  RedirectKept, FileKept
    <2> QED BY <1>5, <2>1, <2>2
  <1>7. CASE Files!TestsWanted(t) \/ Files!Settle(t) \/ Files!Redirect(t)
    <2>1. UNCHANGED <<scratch, torn>> /\ copy[t] \in {"ending", "wanted", "redirecting"}
          /\ copy'[t] \in {"wanted", "redirecting", "done"}
      BY <1>7 DEF Files!TestsWanted, Files!Settle, Files!Redirect, Files!TypeOK
    <2> QED BY <1>5, <2>1
  <1> QED BY <1>2, <1>3, <1>4, <1>6, <1>7 DEF FileStep, Files!Stage

LEMMA NextFiles == FilesInv /\ Files!Next => FilesInv'
  <1> SUFFICES ASSUME FilesInv, NEW t \in FileTask, FileStep(t)
               PROVE  FilesInv'
    BY DEF Files!Next, FileStep
  <1>1. Files!TypeOK' /\ RedirectKept'
    BY NextFile, NextRedirectKept DEF FilesInv, RedirectKept
  <1>2. DistinctNames => CopiedFound'
    BY NextCopiedFound DEF FilesInv
  <1> QED BY <1>1, <1>2 DEF FilesInv, DistinctNames

-------------------------------------------------------------------------------
(* MegaMmap staging.                                                       *)

\* A completed or reported task had its process exit with 0; a process that was
\* to be terminated, and was found, has been signalled; a cancellation that met
\* no call on the way is followed by no stamp, poll or start.
MegaKept(t) ==
    /\ megaLaunch[t] = "none" <=> megaStatus[t] = "none"
    /\ megaSweep[t] # "idle" \/ t \in megaStamping => megaLaunch[t] # "none"
    /\ waiter[t] # "none" => megaLaunch[t] \in {"refused", "filed"}
    /\ megaLaunch[t] \in {"none", "registered", "refused"} => process[t] = "none"
    /\ megaStatus[t] = "completed" \/ report[t] = "success" => process[t] = "ok"
    /\ megaStatus[t] = "cancelled" => megaSweep[t] \in {"waste", "done"}
    /\ megaSweep[t] \in {"mark", "unload", "waste", "done"} /\ t \notin missed =>
        megaLaunch[t] = "filed" /\ (Mega!Alive(t) => signals[t] # {})
    /\ megaWithdrawn[t] = "clear" =>
        /\ megaLaunch[t] \notin {"none", "registered"} /\ t \notin megaStamping
        /\ megaStatus[t] \in {"cancelled", "wasted"} /\ waiter[t] # "settling"
        /\ megaSweep[t] \in {"waste", "done"}

MegaInv == Mega!TypeOK /\ \A t \in LoneTask : MegaKept(t)

LEMMA InitMega == Mega!Init => MegaInv
  BY DEF Mega!Init, Mega!CallsInit, MegaInv, Mega!TypeOK, Mega!CallsTypeOK, MegaKept

LEMMA StillMega == MegaInv /\ UNCHANGED mega => MegaInv'
  BY DEF MegaInv, Mega!TypeOK, Mega!CallsTypeOK, MegaKept, Mega!Alive, mega

\* Nothing but a step about it changes what is kept about a task.
MegaStill(u) ==
    /\ megaStatus'[u] = megaStatus[u] /\ megaLaunch'[u] = megaLaunch[u]
    /\ megaSweep'[u] = megaSweep[u] /\ megaWithdrawn'[u] = megaWithdrawn[u]
    /\ (u \in megaStamping' <=> u \in megaStamping) /\ (u \in missed' <=> u \in missed)
    /\ process'[u] = process[u] /\ signals'[u] = signals[u] /\ waiter'[u] = waiter[u]
    /\ report'[u] = report[u]

LEMMA MegaStillKept ==
  ASSUME NEW u \in LoneTask, MegaKept(u), MegaStill(u)
  PROVE  MegaKept(u)'
  BY DEF MegaKept, MegaStill, Mega!Alive

\* A call on a task that is not about its process.
LEMMA MegaCallStep ==
  ASSUME NEW t \in LoneTask, Mega!TypeOK, MegaKept(t), Mega!Hook(t)
  PROVE  Mega!TypeOK' /\ MegaKept(t)' /\ \A u \in LoneTask : u # t => MegaStill(u)
  <1> USE DEF Mega!TypeOK, Mega!CallsTypeOK, MegaKept, MegaStill, Mega!Hook, Mega!Alive
  <1>1. CASE Mega!Register(t)
    BY <1>1 DEF Mega!Register
  <1>2. CASE Mega!SweepTask(t)
    BY <1>2 DEF Mega!SweepTask, Mega!Cancellable, Mega!Unsettled
  <1>3. CASE Mega!SampleCompleted(t)
    BY <1>3 DEF Mega!SampleCompleted
  <1>4. CASE Mega!ChargeWasted(t)
    BY <1>4 DEF Mega!ChargeWasted
  <1>5. CASE Mega!FindConsumed(t)
    BY <1>5 DEF Mega!FindConsumed
  <1>6. CASE Mega!StampUsed(t)
    BY <1>6 DEF Mega!StampUsed
  <1> QED BY <1>1, <1>2, <1>3, <1>4, <1>5, <1>6 DEF Mega!HookStep

\* A step about one task.
MegaTask(t) == \/ Mega!Begin(t) \/ Mega!Cancel(t) \/ Mega!Hook(t)
               \/ Mega!Exits(t) \/ Mega!PipeFills(t) \/ Mega!Waiter(t) \/ Mega!GivesUp(t)

LEMMA MegaTaskStep ==
  ASSUME NEW t \in LoneTask, Mega!TypeOK, MegaKept(t), MegaTask(t)
  PROVE  Mega!TypeOK' /\ MegaKept(t)' /\ \A u \in LoneTask : u # t => MegaStill(u)
  <1>1. CASE Mega!Hook(t)
    BY <1>1, MegaCallStep
  <1> USE DEF Mega!TypeOK, Mega!CallsTypeOK, MegaKept, MegaStill, Mega!Alive, Mega!Ended
  <1>2. CASE Mega!Begin(t) /\ ~Mega!Files(t)
    BY <1>2 DEF Mega!Begin, Mega!Starts
  <1>3. CASE Mega!Begin(t) /\ Mega!Files(t)
    BY <1>3 DEF Mega!Begin, Mega!Starts, Mega!Files
  <1>4. CASE Mega!Cancel(t) /\ Mega!Reaches(t)
    BY <1>4 DEF Mega!Cancel, Mega!Reaches, Mega!Marks, Mega!Known
  <1>5. CASE Mega!Cancel(t) /\ ~Mega!Reaches(t)
    BY <1>5 DEF Mega!Cancel, Mega!Marks, Mega!HookUnderWay
  <1>6. CASE Mega!Exits(t)
    BY <1>6 DEF Mega!Exits, Mega!callVars
  <1>7. CASE Mega!PipeFills(t)
    BY <1>7 DEF Mega!PipeFills, Mega!callVars
  <1>8. CASE Mega!Polls(t)
    BY <1>8 DEF Mega!Polls, Mega!Seen, Mega!callVars
  <1>9. CASE Mega!Settle(t)
    BY <1>9 DEF Mega!Settle, Mega!Assigns
  <1>10. CASE Mega!PollsNothing(t)
    BY <1>10 DEF Mega!PollsNothing, Mega!callVars
  <1>11. CASE Mega!Report(t)
    BY <1>11 DEF Mega!Report, Mega!callVars
  <1>12. CASE Mega!GivesUp(t)
    BY <1>12 DEF Mega!GivesUp, Mega!Unsettled, Mega!callVars
  <1> QED BY <1>1, <1>2, <1>3, <1>4, <1>5, <1>6, <1>7, <1>8, <1>9, <1>10, <1>11, <1>12
          DEF MegaTask, Mega!Waiter

LEMMA NextMega ==
  ASSUME MegaInv, Mega!Next
  PROVE  MegaInv'
  <1>1. ASSUME NEW t \in LoneTask, MegaTask(t)
        PROVE  MegaInv'
    <2>1. Mega!TypeOK' /\ MegaKept(t)' /\ \A u \in LoneTask : u # t => MegaStill(u)
      BY <1>1, MegaTaskStep DEF MegaInv
    <2>2. \A u \in LoneTask : u # t => MegaKept(u)'
      BY <2>1, MegaStillKept DEF MegaInv
    <2> QED BY <2>1, <2>2 DEF MegaInv
  <1>2. CASE Mega!Shutdown \/ Mega!ShutdownEnds
    BY <1>2 DEF Mega!Shutdown, Mega!ShutdownEnds, MegaInv, Mega!TypeOK, Mega!CallsTypeOK, MegaKept,
                Mega!Alive, Mega!callVars
  <1> QED BY <1>1, <1>2 DEF Mega!Next, MegaTask

-------------------------------------------------------------------------------
(* The MACE cache.                                                         *)

\* A calculator that was never stored.
Unstored(t) == taken[t] = {} /\ \A k \in Key : cache[k] # t

\* The life of a load, in its status and in the cache.
LoadKept(t) ==
    /\ launch[t] = "none" <=> status[t] = "none"
    /\ sweep[t] # "idle" \/ t \in stamping => launch[t] # "none"
    /\ launch[t] \in {"none", "registered", "refused"} => load[t] = "none" /\ launch[t] # "refused"
    /\ load[t] = "none" => launch[t] \in {"none", "registered"}
    /\ status[t] = "completed" \/ sweep[t] \in {"discard", "unload", "waste"} =>
        load[t] \in {"setting", "stored"}
    /\ load[t] \notin {"setting", "stored"} => Unstored(t)
    /\ status[t] = "cancelled" \/ load[t] \in {"dropping", "left"} => withdrawn[t] # "no"
    /\ withdrawn[t] = "clear" =>
        /\ load[t] \notin {"none", "keeping", "setting", "stored"}
        /\ load[t] \in {"queued", "loading"} => status[t] = "cancelled" /\ t \notin stamping
    /\ withdrawn[t] # "no" => sweep[t] \in {"waste", "done"}
    /\ taken[t] # {} => /\ \A k \in Key : cache[k] # t
                        /\ \E c \in Consumer : taken[t] = {c}

\* The dictionaries are indexed by the keys of the tasks they hold.
KeysKept ==
    \A k \in Key : /\ cache[k] # None => KeyOf[cache[k]] = k
                   /\ inFlight[k] # None => KeyOf[inFlight[k]] = k

\* One load at a time, and it is registered under its key while it runs.
OneLoad ==
    /\ \A t, u \in MaceTask : Mace!Pending(t) /\ Mace!Pending(u) => t = u
    /\ \A t \in MaceTask : load[t] = "loading" => inFlight[KeyOf[t]] = t

\* What a load stored is in the cache, or a tool took a calculator of its key.
StoredKept ==
    \A t \in MaceTask :
        load[t] \in {"setting", "stored"} =>
            \/ cache[KeyOf[t]] # None
            \/ \E u \in MaceTask : KeyOf[u] = KeyOf[t] /\ taken[u] # {}

\* A tool waits for a load of the key it needs.
WaitsForKey ==
    \A c \in Consumer : tool[c].does = "wait" =>
        tool[c].waits \in MaceTask /\ KeyOf[tool[c].waits] = tool[c].key

MaceInv == /\ Mace!TypeOK /\ (\A t \in MaceTask : LoadKept(t)) /\ KeysKept /\ OneLoad
           /\ StoredKept /\ WaitsForKey

LEMMA InitMace == Mace!Init => MaceInv
  <1> SUFFICES ASSUME Mace!Init
               PROVE  MaceInv
    OBVIOUS
  <1> USE SuiteConstants DEF Mace!Init, Mace!CallsInit
  <1>1. Mace!TypeOK
    BY DEF Mace!TypeOK, Mace!CallsTypeOK
  <1>2. (\A t \in MaceTask : LoadKept(t)) /\ KeysKept /\ OneLoad /\ StoredKept /\ WaitsForKey
    BY DEF LoadKept, Unstored, KeysKept, OneLoad, Mace!Pending, StoredKept, WaitsForKey
  <1> QED BY <1>1, <1>2 DEF MaceInv

LEMMA StillMace == MaceInv /\ UNCHANGED mace => MaceInv'
  BY DEF MaceInv, Mace!TypeOK, Mace!CallsTypeOK, LoadKept, Unstored, KeysKept, OneLoad, Mace!Pending,
         StoredKept, WaitsForKey, mace

\* A step of the hooks or of the load thread about one task.
MaceTaskMove(t) == Mace!Begin(t) \/ Mace!Cancel(t) \/ Mace!Hook(t) \/ Mace!Loader(t)

\* Nothing but such a step changes what is kept about a task.
MaceStill(u) ==
    /\ status'[u] = status[u] /\ launch'[u] = launch[u] /\ sweep'[u] = sweep[u]
    /\ withdrawn'[u] = withdrawn[u] /\ (u \in stamping' <=> u \in stamping) /\ load'[u] = load[u]

\* A call on a task leaves its load alone.
LEMMA MaceHookStep ==
  ASSUME NEW t \in MaceTask, Mace!TypeOK, LoadKept(t), Mace!Hook(t)
  PROVE  /\ Mace!TypeOK' /\ LoadKept(t)' /\ UNCHANGED <<load, cache, inFlight, tool, taken>>
         /\ \A u \in MaceTask : u # t => MaceStill(u)
  <1> USE DEF Mace!TypeOK, Mace!CallsTypeOK, LoadKept, Unstored, MaceStill, Mace!Hook
  <1>1. CASE Mace!Register(t)
    BY <1>1 DEF Mace!Register
  <1>2. CASE Mace!SweepTask(t)
    BY <1>2 DEF Mace!SweepTask, Mace!Cancellable, Mace!Unsettled
  <1>3. CASE Mace!SampleCompleted(t)
    BY <1>3 DEF Mace!SampleCompleted
  <1>4. CASE Mace!ChargeWasted(t)
    BY <1>4 DEF Mace!ChargeWasted
  <1>5. CASE Mace!FindConsumed(t)
    BY <1>5 DEF Mace!FindConsumed
  <1>6. CASE Mace!StampUsed(t)
    BY <1>6 DEF Mace!StampUsed
  <1> QED BY <1>1, <1>2, <1>3, <1>4, <1>5, <1>6 DEF Mace!HookStep

\* Steps of the scheduler and the load thread on one task.
LEMMA MaceTaskType ==
  ASSUME MaceInv, NEW t \in MaceTask, MaceTaskMove(t)
  PROVE  /\ Mace!TypeOK' /\ UNCHANGED <<tool, taken>>
         /\ \A u \in MaceTask : u # t => MaceStill(u)
         /\ \/ UNCHANGED cache
            \/ load[t] = "keeping" /\ load'[t] = "setting" /\ cache' = [cache EXCEPT ![KeyOf[t]] = t]
  <1>1. CASE Mace!Hook(t)
    BY <1>1, MaceHookStep DEF MaceInv
  <1> USE SuiteConstants DEF MaceInv, Mace!TypeOK, Mace!CallsTypeOK, MaceStill
  <1>2. CASE Mace!Begin(t)
    BY <1>2 DEF Mace!Begin, Mace!Starts, Mace!Files
  <1>3. CASE Mace!Cancel(t)
    BY <1>3 DEF Mace!Cancel, Mace!Reaches, Mace!Marks
  <1>4. CASE Mace!LoadBegins(t)
    BY <1>4 DEF Mace!LoadBegins, Mace!Registered, Mace!callVars
  <1>5. CASE Mace!LoadEnds(t)
    BY <1>5 DEF Mace!LoadEnds, Mace!callVars
  <1>6. CASE Mace!Keeps(t)
    BY <1>6 DEF Mace!Keeps, Mace!Assigns
  <1>7. CASE Mace!LoadFails(t)
    BY <1>7 DEF Mace!LoadFails, Mace!Assigns
  <1>8. CASE Mace!EventSet(t)
    BY <1>8 DEF Mace!EventSet, Mace!Sets, Mace!callVars
  <1> QED BY <1>1, <1>2, <1>3, <1>4, <1>5, <1>6, <1>7, <1>8 DEF Mace!Loader, MaceTaskMove

LEMMA MaceTaskKept ==
  ASSUME MaceInv, NEW t \in MaceTask, MaceTaskMove(t)
  PROVE  LoadKept(t)'
  <1>1. Mace!TypeOK /\ LoadKept(t) /\ UNCHANGED taken
    BY MaceTaskType DEF MaceInv
  <1>2. CASE Mace!Hook(t)
    BY <1>1, <1>2, MaceHookStep
  <1> USE <1>1, SuiteConstants DEF Mace!TypeOK, Mace!CallsTypeOK, LoadKept, Unstored
  <1>3. CASE Mace!Begin(t)
    BY <1>3 DEF Mace!Begin, Mace!Starts, Mace!Files
  <1>4. CASE Mace!Cancel(t) /\ Mace!Reaches(t)
    BY <1>4 DEF Mace!Cancel, Mace!Reaches, Mace!Marks
  <1>5. CASE Mace!Cancel(t) /\ ~Mace!Reaches(t)
    BY <1>5 DEF Mace!Cancel, Mace!Marks, Mace!HookUnderWay
  <1>6. CASE Mace!LoadBegins(t)
    BY <1>6 DEF Mace!LoadBegins, Mace!callVars
  <1>7. CASE Mace!LoadEnds(t)
    BY <1>7 DEF Mace!LoadEnds, Mace!Kept, Mace!callVars
  <1>8. CASE Mace!Keeps(t)
    BY <1>8 DEF Mace!Keeps, Mace!Assigns
  <1>9. CASE Mace!LoadFails(t)
    BY <1>9 DEF Mace!LoadFails, Mace!Assigns
  <1>10. CASE Mace!EventSet(t)
    BY <1>10 DEF Mace!EventSet, Mace!Sets, Mace!callVars
  <1> QED BY <1>2, <1>3, <1>4, <1>5, <1>6, <1>7, <1>8, <1>9, <1>10 DEF Mace!Loader, MaceTaskMove

LEMMA MaceTaskInv ==
  ASSUME MaceInv, NEW t \in MaceTask, MaceTaskMove(t)
  PROVE  MaceInv'
  <1>1. /\ Mace!TypeOK' /\ UNCHANGED <<tool, taken>>
        /\ \A u \in MaceTask : u # t => MaceStill(u)
        /\ \/ UNCHANGED cache
           \/ load[t] = "keeping" /\ load'[t] = "setting" /\ cache' = [cache EXCEPT ![KeyOf[t]] = t]
    BY MaceTaskType
  <1>2. Mace!TypeOK /\ KeysKept /\ OneLoad /\ StoredKept /\ WaitsForKey
    BY DEF MaceInv
  <1>3. ASSUME NEW u \in MaceTask, u # t
        PROVE  LoadKept(u)'
    <2>1. LoadKept(u) /\ MaceStill(u) /\ taken' = taken
      BY <1>1, <1>3 DEF MaceInv
    <2>2. \A k \in Key : cache[k] # u => cache'[k] # u
      BY <1>1, <1>2, <1>3 DEF Mace!TypeOK
    <2> QED BY <2>1, <2>2 DEF LoadKept, Unstored, MaceStill
  <1>4. LoadKept(t)'
    BY MaceTaskKept
  <1>5. WaitsForKey'
    BY <1>1, <1>2 DEF WaitsForKey
  <1>6. KeysKept' /\ OneLoad'
    <2> USE <1>2, SuiteConstants DEF KeysKept, OneLoad, Mace!TypeOK, Mace!Pending
    <2>1. CASE Mace!Begin(t)
      BY <2>1 DEF Mace!Begin, Mace!Starts, MaceInv, LoadKept
    <2>2. CASE Mace!Cancel(t)
      BY <2>2 DEF Mace!Cancel
    <2>3. CASE Mace!Hook(t)
      BY <2>3 DEF Mace!Hook
    <2>4. CASE Mace!LoadBegins(t)
      BY <2>4 DEF Mace!LoadBegins, Mace!Registered
    <2>5. CASE Mace!LoadEnds(t)
      BY <2>5 DEF Mace!LoadEnds
    <2>6. CASE Mace!Keeps(t)
      BY <2>6 DEF Mace!Keeps
    <2>7. CASE Mace!LoadFails(t)
      BY <2>7 DEF Mace!LoadFails
    <2>8. CASE Mace!EventSet(t)
      BY <2>8 DEF Mace!EventSet, Mace!Sets
    <2> QED BY <2>1, <2>2, <2>3, <2>4, <2>5, <2>6, <2>7, <2>8 DEF Mace!Loader, MaceTaskMove
  <1>7. StoredKept'
    <2>1. \A k \in Key : cache[k] # None => cache'[k] # None
      BY <1>1, <1>2, SuiteConstants DEF Mace!TypeOK
    <2>2. load'[t] \in {"setting", "stored"} =>
            load[t] \in {"setting", "stored"} \/ cache'[KeyOf[t]] # None
      <3> USE <1>2, SuiteConstants DEF Mace!TypeOK
      <3>1. CASE Mace!Begin(t)
        BY <3>1 DEF Mace!Begin
      <3>2. CASE Mace!Cancel(t)
        BY <3>2 DEF Mace!Cancel
      <3>3. CASE Mace!Hook(t)
        BY <3>3 DEF Mace!Hook
      <3>4. CASE Mace!LoadBegins(t)
        BY <3>4 DEF Mace!LoadBegins
      <3>5. CASE Mace!LoadEnds(t)
        BY <3>5 DEF Mace!LoadEnds
      <3>6. CASE Mace!Keeps(t)
        BY <3>6 DEF Mace!Keeps
      <3>7. CASE Mace!LoadFails(t)
        BY <3>7 DEF Mace!LoadFails
      <3>8. CASE Mace!EventSet(t)
        BY <3>8 DEF Mace!EventSet, Mace!Sets
      <3> QED BY <3>1, <3>2, <3>3, <3>4, <3>5, <3>6, <3>7, <3>8 DEF Mace!Loader, MaceTaskMove
    <2>3. \A u \in MaceTask : KeyOf[u] \in Key
      BY SuiteConstants
    <2> QED BY <1>1, <1>2, <2>1, <2>2, <2>3 DEF StoredKept, MaceStill
  <1> QED BY <1>1, <1>3, <1>4, <1>5, <1>6, <1>7 DEF MaceInv

\* What the hooks keep of the tasks.
maceCalls == <<status, launch, sweep, stamping, withdrawn>>

\* A tool takes a calculator out of the cache, for good.
LEMMA TakeInv ==
  ASSUME MaceInv, NEW c \in Consumer, NEW k \in Key, Mace!Take(c, k),
         UNCHANGED <<maceCalls, load, inFlight>>
  PROVE  MaceInv' /\ tool'[c].does = "idle" /\ \A d \in Consumer : d # c => tool'[d] = tool[d]
  <1> USE SuiteConstants
  <1>1. PICK u \in MaceTask : u = cache[k] /\ KeyOf[u] = k
    BY DEF Mace!Take, MaceInv, Mace!TypeOK, KeysKept
  <1>2. /\ cache' = [cache EXCEPT ![k] = None] /\ taken' = [taken EXCEPT ![u] = @ \cup {c}]
        /\ tool' = [tool EXCEPT ![c] = [does |-> "idle", key |-> k, waits |-> None]]
    BY <1>1 DEF Mace!Take, Mace!Popped
  <1>3. Mace!TypeOK
    BY DEF MaceInv
  <1>4. /\ taken[u] = {} /\ load[u] \in {"setting", "stored"}
    BY <1>1 DEF MaceInv, LoadKept, Unstored
  <1>5. tool'[c].does = "idle" /\ \A d \in Consumer : d # c => tool'[d] = tool[d]
    BY <1>2, <1>3 DEF Mace!TypeOK
  <1>6. Mace!TypeOK'
    BY <1>2, <1>3 DEF Mace!TypeOK, Mace!CallsTypeOK, maceCalls
  <1>7. /\ \A t \in MaceTask : t # u => taken'[t] = taken[t]
        /\ taken'[u] = {c} /\ \A q \in Key : cache'[q] = IF q = k THEN None ELSE cache[q]
    BY <1>2, <1>3, <1>4 DEF Mace!TypeOK
  <1>8. \A q \in Key : cache'[q] # u
    BY <1>1, <1>7 DEF MaceInv, KeysKept
  <1>9. ASSUME NEW t \in MaceTask
        PROVE  LoadKept(t)'
    <2>1. LoadKept(t)
      BY DEF MaceInv
    <2>2. CASE t = u
      BY <1>4, <1>7, <1>8, <2>1, <2>2 DEF LoadKept, Unstored, maceCalls
    <2>3. CASE t # u
      BY <1>7, <2>1, <2>3 DEF LoadKept, Unstored, maceCalls
    <2> QED BY <2>2, <2>3
  <1>10. KeysKept' /\ OneLoad'
    BY <1>7 DEF MaceInv, KeysKept, OneLoad, Mace!Pending
  <1>11. StoredKept'
    <2> SUFFICES ASSUME NEW t \in MaceTask, load[t] \in {"setting", "stored"}
                 PROVE  cache'[KeyOf[t]] # None
                        \/ \E v \in MaceTask : KeyOf[v] = KeyOf[t] /\ taken'[v] # {}
      BY DEF StoredKept
    <2>1. CASE KeyOf[t] = k
      BY <1>1, <1>7, <2>1
    <2>2. CASE KeyOf[t] # k
      BY <1>1, <1>7, <2>2 DEF MaceInv, StoredKept
    <2> QED BY <2>1, <2>2
  <1>12. WaitsForKey'
    BY <1>5 DEF MaceInv, WaitsForKey
  <1> QED BY <1>5, <1>6, <1>9, <1>10, <1>11, <1>12 DEF MaceInv

\* A tool's step that leaves the cache alone.
LEMMA ToolKept ==
  ASSUME MaceInv, NEW c \in Consumer,
         UNCHANGED <<maceCalls, load, cache, inFlight, taken>>,
         Mace!TypeOK', \A d \in Consumer : d # c => tool'[d] = tool[d],
         tool'[c].does = "wait" => tool'[c].waits \in MaceTask /\ KeyOf[tool'[c].waits] = tool'[c].key
  PROVE  MaceInv'
  <1>1. (\A t \in MaceTask : LoadKept(t)') /\ KeysKept' /\ OneLoad' /\ StoredKept'
    BY DEF MaceInv, LoadKept, Unstored, KeysKept, OneLoad, Mace!Pending, StoredKept, maceCalls
  <1>2. WaitsForKey'
    BY DEF MaceInv, WaitsForKey
  <1> QED BY <1>1, <1>2 DEF MaceInv

LEMMA LoadItselfInv ==
  ASSUME MaceInv, NEW c \in Consumer, NEW k \in Key, Mace!LoadItself(c, k),
         UNCHANGED <<maceCalls, load, inFlight>>
  PROVE  MaceInv' /\ tool'[c].does = "load" /\ tool'[c].key = k
         /\ \A d \in Consumer : d # c => tool'[d] = tool[d]
  <1>1. tool' = [tool EXCEPT ![c] = [does |-> "load", key |-> k, waits |-> None]]
        /\ UNCHANGED <<cache, taken>>
    BY DEF Mace!LoadItself
  <1>2. Mace!TypeOK'
    BY <1>1 DEF MaceInv, Mace!TypeOK, Mace!CallsTypeOK, maceCalls
  <1>3. tool'[c].does = "load" /\ tool'[c].key = k /\ \A d \in Consumer : d # c => tool'[d] = tool[d]
    BY <1>1 DEF MaceInv, Mace!TypeOK, Mace!CallsTypeOK, maceCalls
  <1> QED BY <1>1, <1>2, <1>3, ToolKept

\* What the next step of a tool may start, with calls that wait for the load.
MayLoad(c) ==
    tool[c].does # "load" /\ tool'[c].does = "load" =>
        IF tool[c].does = "idle"
        THEN \A u \in MaceTask : KeyOf[u] = tool'[c].key => load[u] \notin {"loading", "keeping"}
        ELSE Mace!IsSet(tool[c].waits) =>
             \/ load[tool[c].waits] = "raised" \/ withdrawn[tool[c].waits] # "no"
             \/ \E u \in MaceTask : KeyOf[u] = tool'[c].key /\ taken[u] # {}

LEMMA NeedInv ==
  ASSUME MaceInv, NEW c \in Consumer, NEW k \in Key, Mace!Need(c, k)
  PROVE  MaceInv' /\ MayLoad(c) /\ \A d \in Consumer : d # c => tool'[d] = tool[d]
  <1>1. /\ tool[c].does = "idle" /\ UNCHANGED <<maceCalls, load, inFlight>>
        /\ \A u \in MaceTask : load[u] # "keeping"
    BY DEF Mace!Need, Mace!Locked, maceCalls, Mace!callVars
  <1>2. CASE Mace!Take(c, k)
    BY <1>1, <1>2, TakeInv DEF MayLoad
  <1>3. CASE Mace!LoadItself(c, k) /\ inFlight[k] = None
    <2>1. ASSUME NEW u \in MaceTask, KeyOf[u] = k
          PROVE  load[u] \notin {"loading", "keeping"}
      BY <1>1, <1>3, <2>1, SuiteConstants DEF MaceInv, OneLoad
    <2> QED BY <1>1, <1>3, <2>1, LoadItselfInv DEF MayLoad
  <1>4. CASE /\ inFlight[k] # None
             /\ tool' = [tool EXCEPT ![c] = [does |-> "wait", key |-> k, waits |-> inFlight[k]]]
             /\ UNCHANGED <<cache, taken>>
    <2>1. PICK w \in MaceTask : w = inFlight[k] /\ KeyOf[w] = k
      BY <1>4 DEF MaceInv, Mace!TypeOK, KeysKept
    <2>2. tool' = [tool EXCEPT ![c] = [does |-> "wait", key |-> k, waits |-> w]]
      BY <1>4, <2>1
    <2>3. Mace!TypeOK'
      BY <1>1, <1>4, <2>1, <2>2 DEF MaceInv, Mace!TypeOK, Mace!CallsTypeOK, maceCalls
    <2>4. /\ \A d \in Consumer : d # c => tool'[d] = tool[d]
          /\ tool'[c].does = "wait" /\ tool'[c].waits = w /\ tool'[c].key = k
      BY <2>2 DEF MaceInv, Mace!TypeOK
    <2>5. MaceInv'
      BY <1>1, <1>4, <2>1, <2>3, <2>4, ToolKept
    <2> QED BY <2>4, <2>5 DEF MayLoad
  <1> QED BY <1>2, <1>3, <1>4 DEF Mace!Need

LEMMA WaitOverInv ==
  ASSUME MaceInv, NEW c \in Consumer, Mace!WaitOver(c)
  PROVE  MaceInv' /\ MayLoad(c) /\ \A d \in Consumer : d # c => tool'[d] = tool[d]
  <1>1. PICK k \in Key : k = tool[c].key
    BY DEF MaceInv, Mace!TypeOK
  <1>2. /\ tool[c].does = "wait" /\ UNCHANGED <<maceCalls, load, inFlight>>
        /\ IF cache[k] # None THEN Mace!Take(c, k) ELSE Mace!LoadItself(c, k)
    BY <1>1 DEF Mace!WaitOver, maceCalls, Mace!callVars
  <1>3. CASE cache[k] # None
    BY <1>2, <1>3, TakeInv DEF MayLoad
  <1>4. CASE cache[k] = None
    <2>1. /\ MaceInv' /\ tool'[c].key = k /\ \A d \in Consumer : d # c => tool'[d] = tool[d]
      BY <1>2, <1>4, LoadItselfInv
    <2>2. tool[c].waits \in MaceTask /\ KeyOf[tool[c].waits] = k
      BY <1>1, <1>2 DEF MaceInv, WaitsForKey
    <2>3. load[tool[c].waits] = "stored" => \E u \in MaceTask : KeyOf[u] = k /\ taken[u] # {}
      BY <1>4, <2>2 DEF MaceInv, StoredKept
    <2>4. load[tool[c].waits] = "left" => withdrawn[tool[c].waits] # "no"
      BY <2>2 DEF MaceInv, LoadKept
    <2> QED BY <1>2, <2>1, <2>3, <2>4 DEF MayLoad, Mace!IsSet
  <1> QED BY <1>3, <1>4

LEMMA ToolEndsInv ==
  ASSUME MaceInv, NEW c \in Consumer, Mace!ToolEnds(c)
  PROVE  MaceInv' /\ MayLoad(c) /\ \A d \in Consumer : d # c => tool'[d] = tool[d]
  <1>1. tool' = [tool EXCEPT ![c].does = "idle"]
        /\ UNCHANGED <<maceCalls, load, cache, inFlight, taken>>
    BY DEF Mace!ToolEnds, maceCalls, Mace!callVars
  <1>2. Mace!TypeOK' /\ tool'[c].does = "idle" /\ \A d \in Consumer : d # c => tool'[d] = tool[d]
    BY <1>1 DEF MaceInv, Mace!TypeOK, Mace!CallsTypeOK, maceCalls
  <1> QED BY <1>1, <1>2, ToolKept DEF MayLoad

\* A step of the MACE cache keeps the invariant and is a step it promises.
LEMMA NextMace ==
  ASSUME MaceInv, Mace!Next
  PROVE  MaceInv' /\ Mace!NoDoubleLoadStep
  <1>1. ASSUME NEW t \in MaceTask, MaceTaskMove(t)
        PROVE  MaceInv' /\ UNCHANGED tool
    BY <1>1, MaceTaskInv, MaceTaskType
  <1>2. ASSUME NEW c \in Consumer, \/ \E k \in Key : Mace!Need(c, k)
                                  \/ Mace!WaitEnds(c) \/ Mace!TimesOut(c) \/ Mace!ToolEnds(c)
        PROVE  MaceInv' /\ MayLoad(c) /\ \A d \in Consumer : d # c => tool'[d] = tool[d]
    BY <1>2, NeedInv, WaitOverInv, ToolEndsInv DEF Mace!WaitEnds, Mace!TimesOut
  <1>3. MaceInv'
    BY <1>1, <1>2 DEF Mace!Next, MaceTaskMove
  <1>4. CASE UNCHANGED tool
    BY <1>3, <1>4 DEF Mace!NoDoubleLoadStep
  <1>5. CASE \E c \in Consumer : MayLoad(c) /\ \A d \in Consumer : d # c => tool'[d] = tool[d]
    BY <1>3, <1>5 DEF MayLoad, Mace!NoDoubleLoadStep
  <1> QED BY <1>1, <1>2, <1>4, <1>5 DEF Mace!Next, MaceTaskMove

\* A load cancelled while it ran left nothing.
LEMMA MaceLeavesNothing == MaceInv => Mace!CancelledLeavesNothing
  <1> SUFFICES ASSUME MaceInv, NEW t \in MaceTask, withdrawn[t] = "clear"
               PROVE  cache[KeyOf[t]] # t /\ taken[t] = {}
    BY DEF Mace!CancelledLeavesNothing
  <1> QED BY SuiteConstants DEF MaceInv, LoadKept, Unstored

LEMMA MaceConsumedOnce == MaceInv => Mace!ConsumedOnce
  <1> SUFFICES ASSUME MaceInv, NEW t \in MaceTask
               PROVE  Cardinality(taken[t]) <= 1
    BY DEF Mace!ConsumedOnce, Mace!Cardinality, Mace!IsFiniteSet, Cardinality, IsFiniteSet
  <1>1. taken[t] = {} \/ \E c \in Consumer : taken[t] = {c}
    BY DEF MaceInv, LoadKept
  <1> QED BY <1>1, FS_EmptySet, FS_Singleton

-------------------------------------------------------------------------------
(* Page-cache staging.                                                     *)

\* What reading shard n to its end leaves.
WholeShard(n) == IF n \in unreadable THEN 0 ELSE Chunks

\* A reader leaves the shards behind it whole unless it was told to stop, has
\* not touched those before it, and reads one chunk at most after the stop.
ReaderKept(t, i) ==
    LET n == reader[t][i].shard
        pc == reader[t][i].pc
    IN  /\ pc \in {"check", "read"} => n \in Pages!Slice(i) /\ n \notin unreadable
        /\ pc = "next" => n \in Pages!Slice(i) \cup {-1}
        /\ pc = "done" => n = NShards
        /\ \A m \in Pages!Slice(i) : m > n => chunks[t][m] = 0
        /\ \A m \in Pages!Slice(i) :
            m < n \/ (m = n /\ pc = "next") => t \in stop \/ chunks[t][m] = WholeShard(m)
        /\ t \notin stop \/ pc = "read" => extra[t][i] = 0
        /\ extra[t][i] <= 1

\* Every shard was read to its end.
ReadWhole(t) == \A n \in Pages!Shard : chunks[t][n] = WholeShard(n)

\* The status of a staging, the calls on it and its readers: it is only found
\* complete when its readers have read everything, and a cancellation that met
\* no call on the way is followed by no stamp, end or start.
StagingKept(t) ==
    /\ pagesLaunch[t] = "none" <=> pagesStatus[t] = "none"
    /\ pagesSweep[t] # "idle" \/ t \in pagesStamping => pagesLaunch[t] # "none"
    /\ pagesLaunch[t] \in {"none", "registered", "refused"} => future[t] = "none"
    /\ t \in stop => pagesLaunch[t] = "filed"
    /\ future[t] \in {"testing", "settling", "done"} =>
        /\ verdict[t] # "none"
        /\ \A i \in Pages!Reader : reader[t][i].pc \in {"done", "raised"}
    /\ verdict[t] # "none" => future[t] \in {"testing", "settling", "done"}
    /\ verdict[t] = "completed" => ReadWhole(t)
    /\ pagesStatus[t] = "completed" => verdict[t] = "completed"
    /\ pagesWithdrawn[t] = "clear" =>
        /\ pagesLaunch[t] \notin {"none", "registered"} /\ t \notin pagesStamping
        /\ pagesStatus[t] \in {"cancelled", "wasted"} /\ future[t] # "settling"
        /\ pagesSweep[t] \in {"waste", "done"}

PagesType ==
    /\ Pages!TypeOK
    /\ reader \in [LoneTask -> [Pages!Reader ->
                    [shard : Pages!Shard \cup {-1, NShards},
                     pc : {"next", "check", "read", "done", "raised"}]]]
    /\ unreadable \subseteq Pages!Shard

PagesInv ==
    /\ PagesType
    /\ \A t \in LoneTask : StagingKept(t)
    /\ \A t \in LoneTask, i \in Pages!Reader : ReaderKept(t, i)

\* Every shard is in the slice of one reader, the one of its remainder.
LEMMA SliceOwner ==
  ASSUME NEW n \in Pages!Shard
  PROVE  /\ n % Workers \in Pages!Reader /\ n \in Pages!Slice(n % Workers)
         /\ \A i \in Pages!Reader : n \in Pages!Slice(i) => i = n % Workers
  <1> USE SuiteConstants DEF Pages!Shard, Pages!Reader, Pages!Slice
  <1> DEFINE W == Workers
             r == n % W
             q == n \div W
  <1>1. n \in Nat /\ W \in Nat /\ W > 0
    OBVIOUS
  <1>2. r \in 0..(W - 1) /\ q \in Nat /\ n = W * q + r
    BY <1>1
  <1>3. n >= r /\ (n - r) % W = 0
    BY <1>1, <1>2
  <1>4. ASSUME NEW i \in 0..(W - 1), n >= i, (n - i) % W = 0
        PROVE  i = r
    <2> DEFINE p == (n - i) \div W
    <2>1. p \in Int /\ n - i = W * p
      BY <1>1, <1>4
    <2>2. W * (p - q) = r - i
      BY <2>1, <1>2
    <2>3. p - q = 0
      BY <2>1, <2>2, <1>1, <1>2
    <2> QED BY <2>2, <2>3, <1>1, <1>2
  <1> QED BY <1>1, <1>2, <1>3, <1>4

\* A nonempty set of natural numbers has a least element.
LEMMA LeastElement ==
  ASSUME NEW S \in SUBSET Nat, S # {}
  PROVE  \E k \in S : \A j \in S : k <= j
  <1> DEFINE R == OpToRel(<, Nat)
  <1>1. PICK k \in S : \A j \in S : <<j, k>> \notin R
    BY NatLessThanWellFounded, WFMin
  <1>2. \A j \in S : ~(j < k)
    BY <1>1 DEF OpToRel
  <1> QED BY <1>2

\* The next shard of a slice skips none of it.
LEMMA AfterIsNext ==
  ASSUME NEW i \in Pages!Reader, NEW n \in Pages!Slice(i) \cup {-1}
  PROVE  /\ Pages!After(i, n) \in Pages!Slice(i) \cup {NShards}
         /\ Pages!After(i, n) > n
         /\ \A q \in Pages!Slice(i) : q > n => Pages!After(i, n) <= q
  <1> DEFINE S == {m \in Pages!Slice(i) \cup {NShards} : m > n}
  <1>1. Pages!Slice(i) \subseteq 0..(NShards - 1) /\ NShards \in Nat
    BY SuiteConstants DEF Pages!Slice, Pages!Shard
  <1>2. S \in SUBSET Nat /\ NShards \in S
    BY <1>1
  <1> HIDE DEF S
  <1>3. PICK k \in S : \A j \in S : k <= j
    BY <1>2, LeastElement
  <1>4. k \in Pages!Slice(i) \cup {NShards} /\ k > n /\ \A q \in Pages!Slice(i) : q > n => k <= q
    BY <1>3 DEF S
  <1> QED BY <1>4 DEF Pages!After

LEMMA InitPages == Pages!Init => PagesInv
  <1> SUFFICES ASSUME Pages!Init PROVE PagesInv
    OBVIOUS
  <1> USE SuiteConstants DEF Pages!Init
  <1>1. PagesType
    BY DEF PagesType, Pages!TypeOK, Pages!CallsTypeOK, Pages!CallsInit, Pages!Shard
  <1>2. \A t \in LoneTask : StagingKept(t)
    BY DEF StagingKept, Pages!CallsInit
  <1>3. ASSUME NEW t \in LoneTask, NEW i \in Pages!Reader
        PROVE  ReaderKept(t, i)
    BY DEF ReaderKept, Pages!Slice, Pages!Shard
  <1> QED BY <1>1, <1>2, <1>3 DEF PagesInv

LEMMA StillPages == PagesInv /\ UNCHANGED pages => PagesInv'
  BY DEF PagesInv, PagesType, Pages!TypeOK, Pages!CallsTypeOK, StagingKept, ReadWhole, ReaderKept,
         WholeShard, pages

ReaderAt == [shard : Pages!Shard \cup {-1, NShards}, pc : {"next", "check", "read", "done", "raised"}]

\* A move is a move of one reader.
LEMMA MoveIs ==
  ASSUME PagesType, NEW t \in LoneTask, NEW i \in Pages!Reader,
         NEW m \in Pages!Shard \cup {-1, NShards},
         NEW p \in {"next", "check", "read", "done", "raised"}, Pages!Move(t, i, m, p)
  PROVE  /\ reader' \in [LoneTask -> [Pages!Reader -> ReaderAt]]
         /\ reader'[t][i].shard = m /\ reader'[t][i].pc = p
         /\ \A u \in LoneTask, j \in Pages!Reader : u # t \/ j # i => reader'[u][j] = reader[u][j]
  <1>1. reader \in [LoneTask -> [Pages!Reader -> ReaderAt]]
    BY DEF PagesType, ReaderAt
  <1> DEFINE e == [shard |-> m, pc |-> p]
  <1>2. e \in ReaderAt /\ e.shard = m /\ e.pc = p
    BY DEF ReaderAt
  <1> HIDE DEF e
  <1>3. reader' = [reader EXCEPT ![t] = [reader[t] EXCEPT ![i] = e]]
    BY DEF Pages!Move, e
  <1> QED BY <1>1, <1>2, <1>3

\* What a reader's step does to the reader itself.
LEMMA ReaderStep ==
  ASSUME PagesInv, NEW t \in LoneTask, NEW i \in Pages!Reader,
         Pages!OpenShard(t, i) \/ Pages!TestStop(t, i) \/ Pages!ReadChunk(t, i)
  PROVE  /\ UNCHANGED <<Pages!callVars, unreadable, future, verdict, stop>>
         /\ PagesType' /\ ReaderKept(t, i)'
         /\ reader[t][i].pc \in {"next", "check", "read"}
         /\ \A u \in LoneTask, j \in Pages!Reader :
             u # t \/ j # i => reader'[u][j] = reader[u][j] /\ extra'[u][j] = extra[u][j]
         /\ \A u \in LoneTask, n \in Pages!Shard :
             u # t \/ n \notin Pages!Slice(i) => chunks'[u][n] = chunks[u][n]
  <1> DEFINE n == reader[t][i].shard
             pc == reader[t][i].pc
  <1>1. ReaderKept(t, i) /\ PagesType
    BY DEF PagesInv
  <1>2. /\ Pages!Slice(i) \subseteq Pages!Shard /\ Pages!Shard \subseteq 0..NShards
        /\ NShards \notin Pages!Shard /\ -1 \notin Pages!Shard
        /\ NShards \in Nat /\ Chunks \in Nat \ {0}
    BY SuiteConstants DEF Pages!Slice, Pages!Shard
  <1>3. CASE Pages!OpenShard(t, i)
    <2> DEFINE a == Pages!After(i, n)
    <2>1. pc = "next" /\ n \in Pages!Slice(i) \cup {-1}
      BY <1>1, <1>3 DEF Pages!OpenShard, ReaderKept
    <2>2. a \in Pages!Slice(i) \cup {NShards} /\ a > n /\ \A q \in Pages!Slice(i) : q > n => a <= q
      BY <2>1, AfterIsNext
    <2>3. UNCHANGED <<Pages!callVars, unreadable, future, verdict, stop, chunks, extra>>
      BY <1>3 DEF Pages!OpenShard
    <2>4. PICK m \in Pages!Slice(i) \cup {NShards}, p \in {"next", "check", "done"} :
            /\ Pages!Move(t, i, m, p)
            /\ p = "done" => m = NShards /\ (a = NShards \/ t \in stop)
            /\ p = "next" => m = a /\ a \in unreadable /\ a \in Pages!Slice(i)
            /\ p = "check" => m = a /\ a \notin unreadable /\ a \in Pages!Slice(i)
      <3>1. CASE a = NShards \/ t \in stop
        <4>1. Pages!Move(t, i, NShards, "done")
          BY <1>3, <3>1 DEF Pages!OpenShard
        <4> QED BY <4>1, <3>1
      <3>2. CASE ~(a = NShards \/ t \in stop) /\ a \in unreadable
        <4>1. Pages!Move(t, i, a, "next")
          BY <1>3, <3>2 DEF Pages!OpenShard
        <4> QED BY <4>1, <3>2, <2>2
      <3>3. CASE ~(a = NShards \/ t \in stop) /\ a \notin unreadable
        <4>1. Pages!Move(t, i, a, "check")
          BY <1>3, <3>3 DEF Pages!OpenShard
        <4> QED BY <4>1, <3>3, <2>2
      <3> QED BY <3>1, <3>2, <3>3
    <2> HIDE DEF a
    <2>5. /\ reader' \in [LoneTask -> [Pages!Reader -> ReaderAt]]
          /\ reader'[t][i].shard = m /\ reader'[t][i].pc = p
          /\ \A u \in LoneTask, j \in Pages!Reader : u # t \/ j # i => reader'[u][j] = reader[u][j]
      <3>1. m \in Pages!Shard \cup {-1, NShards} /\ p \in {"next", "check", "read", "done", "raised"}
        BY <1>2
      <3> QED BY <1>1, <2>4, <3>1, MoveIs
    <2>6. PagesType'
      BY <1>1, <2>3, <2>5 DEF PagesType, Pages!TypeOK, Pages!CallsTypeOK, Pages!callVars, ReaderAt
    <2>7. ReaderKept(t, i)'
      <3>1. /\ p = "check" => m \in Pages!Slice(i) /\ m \notin unreadable
            /\ p = "next" => m \in Pages!Slice(i)
            /\ p = "done" => m = NShards
        BY <2>4
      <3>2. \A q \in Pages!Slice(i) : q \in Nat /\ q < NShards
        BY SuiteConstants DEF Pages!Slice, Pages!Shard
      <3>3. n \in Int /\ m \in Nat /\ (m > n \/ m = NShards)
        BY <1>2, <2>1, <2>2, <2>4, <3>2
      <3>4. ASSUME NEW q \in Pages!Slice(i), q > m
            PROVE  chunks[t][q] = 0
        <4>1. \A k \in Pages!Slice(i) : k > n => chunks[t][k] = 0
          BY <1>1 DEF ReaderKept
        <4>2. q \in Nat /\ q < NShards /\ NShards \in Int
          BY <1>2, <3>2
        <4>3. q > n
          BY <3>3, <3>4, <4>2
        <4> QED BY <4>1, <4>3
      <3>5. ASSUME NEW q \in Pages!Slice(i), q < m \/ (q = m /\ p = "next"), t \notin stop
            PROVE  chunks[t][q] = WholeShard(q)
        <4>0. \A k \in Pages!Slice(i) : k < n \/ k = n => t \in stop \/ chunks[t][k] = WholeShard(k)
          BY <1>1, <2>1 DEF ReaderKept
        <4>1. q <= n => chunks[t][q] = WholeShard(q)
          <5>1. q < n \/ q = n => chunks[t][q] = WholeShard(q)
            BY <3>5, <4>0
          <5>2. q \in Nat /\ n \in Int
            BY <3>2, <3>3
          <5> QED BY <5>1, <5>2
        <4>2. q > n => a <= q /\ chunks[t][q] = 0
          BY <1>1, <2>2, <3>2, <3>3 DEF ReaderKept
        <4>3. q > n => q \in unreadable
          <5>1. CASE p = "done"
            BY <2>4, <3>2, <3>3, <3>5, <4>2, <5>1
          <5>2. CASE p = "next"
            BY <2>4, <3>2, <3>3, <3>5, <4>2, <5>2
          <5>3. CASE p = "check"
            BY <2>4, <3>2, <3>3, <3>5, <4>2, <5>3
          <5> QED BY <5>1, <5>2, <5>3
        <4>4. q > n => chunks[t][q] = WholeShard(q)
          BY <4>2, <4>3 DEF WholeShard
        <4>5. q \in Nat /\ n \in Int
          BY <3>2, <3>3
        <4>6. q <= n \/ q > n
          <5> HIDE DEF n
          <5> QED BY <4>5
        <4> QED BY <4>1, <4>4, <4>6
      <3>6. t \notin stop => extra[t][i] = 0
        BY <1>1 DEF ReaderKept
      <3>7. extra[t][i] <= 1
        BY <1>1 DEF ReaderKept
      <3> QED BY <2>3, <2>5, <3>1, <3>4, <3>5, <3>6, <3>7 DEF ReaderKept, WholeShard
    <2> QED BY <2>1, <2>3, <2>5, <2>6, <2>7
  <1>4. CASE Pages!TestStop(t, i)
    <2>1. pc = "check" /\ n \in Pages!Slice(i) /\ n \notin unreadable
      BY <1>1, <1>4 DEF Pages!TestStop, ReaderKept
    <2>2. PICK p \in {"next", "read"} :
            /\ Pages!Move(t, i, n, p)
            /\ p = "next" <=> t \in stop
            /\ UNCHANGED <<Pages!callVars, unreadable, future, verdict, stop, chunks, extra>>
      BY <1>4 DEF Pages!TestStop, Pages!Heeds
    <2>3. /\ reader' \in [LoneTask -> [Pages!Reader -> ReaderAt]]
          /\ reader'[t][i].shard = n /\ reader'[t][i].pc = p
          /\ \A u \in LoneTask, j \in Pages!Reader : u # t \/ j # i => reader'[u][j] = reader[u][j]
      BY <1>1, <1>2, <2>1, <2>2, MoveIs
    <2>4. PagesType'
      BY <1>1, <2>2, <2>3 DEF PagesType, Pages!TypeOK, Pages!CallsTypeOK, Pages!callVars, ReaderAt
    <2>5. ReaderKept(t, i)'
      BY <1>1, <1>2, <2>1, <2>2, <2>3 DEF ReaderKept, WholeShard
    <2> QED BY <2>1, <2>2, <2>3, <2>4, <2>5
  <1>5. CASE Pages!ReadChunk(t, i)
    <2>1. pc = "read" /\ n \in Pages!Slice(i) /\ n \notin unreadable /\ n \in Pages!Shard
      BY <1>1, <1>2, <1>5 DEF Pages!ReadChunk, ReaderKept
    <2> DEFINE end == chunks[t][n] = Chunks
    <2>2. PICK p \in {"next", "check", "raised"} :
            /\ Pages!Move(t, i, n, p)
            /\ UNCHANGED <<Pages!callVars, unreadable, future, verdict, stop>>
            /\ p = "next" => end
            /\ p = "check" =>
                /\ ~end /\ chunks' = [chunks EXCEPT ![t][n] = @ + 1]
                /\ extra' = IF t \in stop THEN [extra EXCEPT ![t][i] = @ + 1] ELSE extra
            /\ p # "check" => UNCHANGED <<chunks, extra>>
      BY <1>5 DEF Pages!ReadChunk
    <2>3. /\ reader' \in [LoneTask -> [Pages!Reader -> ReaderAt]]
          /\ reader'[t][i].shard = n /\ reader'[t][i].pc = p
          /\ \A u \in LoneTask, j \in Pages!Reader : u # t \/ j # i => reader'[u][j] = reader[u][j]
      BY <1>1, <1>2, <2>1, <2>2, MoveIs
    <2>4. /\ chunks' \in [LoneTask -> [Pages!Shard -> 0..Chunks]]
          /\ extra' \in [LoneTask -> [Pages!Reader -> Nat]]
          /\ \A u \in LoneTask, j \in Pages!Reader :
              u # t \/ j # i \/ p # "check" \/ t \notin stop => extra'[u][j] = extra[u][j]
          /\ p = "check" /\ t \in stop => extra'[t][i] = extra[t][i] + 1
          /\ \A u \in LoneTask, m \in Pages!Shard : u # t \/ m # n => chunks'[u][m] = chunks[u][m]
      <3> USE <1>2, <2>1 DEF PagesType, Pages!TypeOK
      <3>1. CASE p = "check"
        <4>1. chunks[t][n] \in 0..Chunks /\ chunks[t][n] # Chunks /\ extra[t][i] \in Nat
          <5>1. chunks[t] \in [Pages!Shard -> 0..Chunks] /\ extra[t] \in [Pages!Reader -> Nat]
            BY <1>1
          <5> QED BY <2>2, <3>1, <5>1
        <4>2. chunks' = [chunks EXCEPT ![t] = [chunks[t] EXCEPT ![n] = chunks[t][n] + 1]]
          BY <2>2, <3>1
        <4>3. extra' = IF t \in stop THEN [extra EXCEPT ![t] = [extra[t] EXCEPT ![i] = extra[t][i] + 1]]
                       ELSE extra
          BY <2>2, <3>1
        <4>4. /\ chunks' \in [LoneTask -> [Pages!Shard -> 0..Chunks]]
              /\ \A u \in LoneTask, m \in Pages!Shard : u # t \/ m # n => chunks'[u][m] = chunks[u][m]
          <5> DEFINE row == [chunks[t] EXCEPT ![n] = chunks[t][n] + 1]
          <5>1. chunks \in [LoneTask -> [Pages!Shard -> 0..Chunks]] /\ n \in Pages!Shard
            BY <1>1, <2>1
          <5>2. chunks[t] \in [Pages!Shard -> 0..Chunks] /\ chunks[t][n] + 1 \in 0..Chunks
            BY <1>2, <4>1, <5>1
          <5>3. /\ row \in [Pages!Shard -> 0..Chunks]
                /\ \A m \in Pages!Shard : m # n => row[m] = chunks[t][m]
            BY <5>1, <5>2
          <5>4. chunks' = [chunks EXCEPT ![t] = row]
            BY <4>2
          <5> HIDE DEF row, n
          <5> QED BY <5>1, <5>3, <5>4
        <4>5. /\ extra' \in [LoneTask -> [Pages!Reader -> Nat]]
              /\ \A u \in LoneTask, j \in Pages!Reader :
                  u # t \/ j # i \/ t \notin stop => extra'[u][j] = extra[u][j]
              /\ t \in stop => extra'[t][i] = extra[t][i] + 1
          BY <1>1, <4>1, <4>3
        <4> QED BY <3>1, <4>4, <4>5
      <3>2. CASE p # "check"
        BY <1>1, <2>2, <3>2
      <3> QED BY <3>1, <3>2
    <2>5. PagesType'
      BY <1>1, <2>2, <2>3, <2>4 DEF PagesType, Pages!TypeOK, Pages!CallsTypeOK, Pages!callVars, ReaderAt
    <2>6. ReaderKept(t, i)'
      <3> USE <1>1, <1>2, <2>1, <2>3, <2>4 DEF ReaderKept, WholeShard
      <3>1. CASE p = "check"
        BY <2>2, <3>1
      <3>2. CASE p = "next"
        BY <2>2, <3>2
      <3>3. CASE p = "raised"
        BY <2>2, <3>3
      <3> QED BY <3>1, <3>2, <3>3
    <2> QED BY <2>1, <2>2, <2>3, <2>4, <2>5, <2>6
  <1> QED BY <1>3, <1>4, <1>5

\* A reader's step disturbs no other reader.
LEMMA ReaderInv ==
  ASSUME PagesInv, NEW t \in LoneTask, NEW i \in Pages!Reader,
         Pages!OpenShard(t, i) \/ Pages!TestStop(t, i) \/ Pages!ReadChunk(t, i)
  PROVE  PagesInv'
  <1>1. /\ UNCHANGED <<Pages!callVars, unreadable, future, verdict, stop>>
        /\ PagesType' /\ ReaderKept(t, i)'
        /\ reader[t][i].pc \in {"next", "check", "read"}
        /\ \A u \in LoneTask, j \in Pages!Reader :
            u # t \/ j # i => reader'[u][j] = reader[u][j] /\ extra'[u][j] = extra[u][j]
        /\ \A u \in LoneTask, n \in Pages!Shard :
            u # t \/ n \notin Pages!Slice(i) => chunks'[u][n] = chunks[u][n]
    BY ReaderStep
  <1>2. ASSUME NEW u \in LoneTask, NEW j \in Pages!Reader, u # t \/ j # i
        PROVE  ReaderKept(u, j)'
    <2>1. \A n \in Pages!Slice(j) : chunks'[u][n] = chunks[u][n]
      BY <1>1, <1>2, SliceOwner DEF Pages!Slice
    <2>2. ReaderKept(u, j) /\ reader'[u][j] = reader[u][j] /\ extra'[u][j] = extra[u][j]
      BY <1>1, <1>2 DEF PagesInv
    <2> QED BY <1>1, <2>1, <2>2 DEF ReaderKept, WholeShard
  <1>3. ASSUME NEW u \in LoneTask
        PROVE  StagingKept(u)'
    <2>1. CASE u = t
      BY <1>1, <2>1 DEF PagesInv, StagingKept, Pages!callVars
    <2>2. CASE u # t
      <3>1. ReadWhole(u)' <=> ReadWhole(u)
        BY <1>1, <2>2, SliceOwner DEF ReadWhole, WholeShard
      <3>2. \A j \in Pages!Reader : reader'[u][j] = reader[u][j]
        BY <1>1, <2>2
      <3> QED BY <1>1, <3>1, <3>2 DEF PagesInv, StagingKept, Pages!callVars
    <2> QED BY <2>1, <2>2
  <1> QED BY <1>1, <1>2, <1>3 DEF PagesInv

\* Nothing but a step about it changes what is kept about a task.
PagesStill(u) ==
    /\ pagesStatus'[u] = pagesStatus[u] /\ pagesLaunch'[u] = pagesLaunch[u]
    /\ pagesSweep'[u] = pagesSweep[u] /\ pagesWithdrawn'[u] = pagesWithdrawn[u]
    /\ (u \in pagesStamping' <=> u \in pagesStamping) /\ (u \in stop' <=> u \in stop)
    /\ future'[u] = future[u] /\ verdict'[u] = verdict[u]

\* A call on a task that is not about its readers.
LEMMA PagesCallStep ==
  ASSUME NEW t \in LoneTask, Pages!TypeOK, StagingKept(t), Pages!Hook(t)
  PROVE  Pages!TypeOK' /\ StagingKept(t)' /\ \A u \in LoneTask : u # t => PagesStill(u)
  <1>1. UNCHANGED <<unreadable, future, verdict, stop, reader, chunks, extra>>
    BY DEF Pages!Hook
  <1>2. ReadWhole(t)' <=> ReadWhole(t)
    BY <1>1 DEF ReadWhole, WholeShard
  <1> USE <1>1, <1>2 DEF Pages!TypeOK, Pages!CallsTypeOK, StagingKept, PagesStill
  <1>3. CASE Pages!Register(t)
    BY <1>3 DEF Pages!Register
  <1>4. CASE Pages!SweepTask(t)
    BY <1>4 DEF Pages!SweepTask, Pages!Cancellable, Pages!Unsettled
  <1>5. CASE Pages!SampleCompleted(t)
    BY <1>5 DEF Pages!SampleCompleted
  <1>6. CASE Pages!ChargeWasted(t)
    BY <1>6 DEF Pages!ChargeWasted
  <1>7. CASE Pages!FindConsumed(t)
    BY <1>7 DEF Pages!FindConsumed
  <1>8. CASE Pages!StampUsed(t)
    BY <1>8 DEF Pages!StampUsed
  <1> QED BY <1>3, <1>4, <1>5, <1>6, <1>7, <1>8 DEF Pages!Hook, Pages!HookStep

\* The readers that all read to the end of their slices, and were not stopped,
\* have read everything.
LEMMA VerdictIsTrue ==
  ASSUME PagesInv, NEW t \in LoneTask, Pages!StageEnds(t), Pages!Verdict(t) = "completed"
  PROVE  ReadWhole(t)
  <1> SUFFICES ASSUME NEW n \in Pages!Shard
               PROVE  chunks[t][n] = WholeShard(n)
    BY DEF ReadWhole
  <1>1. t \notin stop /\ \A i \in Pages!Reader : reader[t][i].pc = "done"
    BY DEF Pages!StageEnds, Pages!Verdict
  <1>2. PICK i \in Pages!Reader : n \in Pages!Slice(i)
    BY SliceOwner
  <1>3. ReaderKept(t, i)
    BY DEF PagesInv
  <1>4. n < NShards
    BY SuiteConstants DEF Pages!Shard
  <1> QED BY <1>1, <1>2, <1>3, <1>4 DEF ReaderKept

\* A step about one task as a whole.
PagesTask(t) == \/ Pages!Begin(t) \/ Pages!Cancel(t) \/ Pages!Hook(t)
                \/ Pages!StageEnds(t) \/ Pages!TestsProgress(t) \/ Pages!Settle(t)

LEMMA PagesTaskStep ==
  ASSUME PagesInv, NEW t \in LoneTask, PagesTask(t)
  PROVE  /\ UNCHANGED <<unreadable, reader, chunks, extra>> /\ stop \subseteq stop'
         /\ Pages!TypeOK' /\ StagingKept(t)'
         /\ \A u \in LoneTask : u # t => PagesStill(u)
  <1>1. UNCHANGED <<unreadable, reader, chunks, extra>>
    BY DEF PagesTask, Pages!Begin, Pages!Cancel, Pages!Hook, Pages!StageEnds, Pages!TestsProgress,
           Pages!Settle
  <1>2. ReadWhole(t)' <=> ReadWhole(t)
    BY <1>1 DEF ReadWhole, WholeShard
  <1>3. Pages!TypeOK /\ StagingKept(t)
    BY DEF PagesInv, PagesType
  <1>4. CASE Pages!Hook(t)
    BY <1>1, <1>3, <1>4, PagesCallStep DEF Pages!Hook
  <1>5. CASE Pages!StageEnds(t)
    <2>1. Pages!Verdict(t) = "completed" => ReadWhole(t)
      BY <1>5, VerdictIsTrue
    <2>2. Pages!Verdict(t) \in {"completed", "cancelled", "failed"}
      BY DEF Pages!Verdict
    <2> HIDE DEF Pages!Verdict
    <2> QED BY <1>1, <1>2, <1>3, <1>5, <2>1, <2>2
        DEF Pages!StageEnds, Pages!callVars, Pages!TypeOK, Pages!CallsTypeOK, StagingKept, PagesStill
  <1> USE <1>1, <1>2, <1>3 DEF Pages!TypeOK, Pages!CallsTypeOK, StagingKept, PagesStill
  <1>6. CASE Pages!Begin(t) /\ ~Pages!Files(t)
    <2>1. PICK s \in {"failed", "in_progress"} :
            /\ pagesLaunch[t] = "registered"
            /\ pagesLaunch' = [pagesLaunch EXCEPT ![t] = IF s = "failed" THEN "refused" ELSE "started"]
            /\ pagesStatus' = [pagesStatus EXCEPT ![t] = s]
            /\ future' = IF s = "failed" THEN future ELSE [future EXCEPT ![t] = "reading"]
            /\ UNCHANGED <<pagesSweep, pagesStamping, pagesWithdrawn, verdict, stop>>
      BY <1>6 DEF Pages!Begin, Pages!Starts
    <2>2. Pages!TypeOK'
      BY <2>1
    <2>3. \A u \in LoneTask : u # t => PagesStill(u)
      BY <2>1
    <2>4. StagingKept(t)'
      BY <2>1
    <2> QED BY <2>1, <2>2, <2>3, <2>4
  <1>7. CASE Pages!Begin(t) /\ Pages!Files(t)
    BY <1>7 DEF Pages!Begin, Pages!Starts, Pages!Files
  <1>8. CASE Pages!Cancel(t) /\ Pages!Reaches(t)
    BY <1>8 DEF Pages!Cancel, Pages!Reaches, Pages!Marks
  <1>9. CASE Pages!Cancel(t) /\ ~Pages!Reaches(t)
    BY <1>9 DEF Pages!Cancel, Pages!Marks, Pages!HookUnderWay
  <1>10. CASE Pages!TestsProgress(t)
    BY <1>10 DEF Pages!TestsProgress, Pages!InProgress, Pages!callVars
  <1>11. CASE Pages!Settle(t)
    BY <1>11 DEF Pages!Settle, Pages!Assigns
  <1> QED BY <1>4, <1>5, <1>6, <1>7, <1>8, <1>9, <1>10, <1>11 DEF PagesTask

\* A step of the task as a whole moves no reader.
LEMMA StagingInv ==
  ASSUME PagesInv, Pages!Shutdown \/ \E t \in LoneTask : PagesTask(t)
  PROVE  PagesInv'
  <1>1. /\ UNCHANGED <<unreadable, reader, chunks, extra>> /\ stop \subseteq stop' /\ Pages!TypeOK'
        /\ \A u \in LoneTask : StagingKept(u)'
    <2>1. ASSUME Pages!Shutdown
          PROVE  /\ UNCHANGED <<unreadable, reader, chunks, extra>> /\ stop \subseteq stop'
                 /\ Pages!TypeOK' /\ \A u \in LoneTask : StagingKept(u)'
      <3>1. UNCHANGED <<Pages!callVars, unreadable, future, verdict, reader, chunks, extra>>
        BY <2>1 DEF Pages!Shutdown
      <3>2. stop' = {u \in LoneTask : pagesLaunch[u] = "filed"} /\ stop \subseteq stop'
        BY <2>1 DEF Pages!Shutdown, PagesInv, PagesType, Pages!TypeOK, StagingKept
      <3> QED BY <3>1, <3>2 DEF PagesInv, PagesType, Pages!TypeOK, Pages!CallsTypeOK, Pages!callVars,
                                StagingKept, ReadWhole, WholeShard
    <2>2. ASSUME NEW t \in LoneTask, PagesTask(t)
          PROVE  /\ UNCHANGED <<unreadable, reader, chunks, extra>> /\ stop \subseteq stop'
                 /\ Pages!TypeOK' /\ \A u \in LoneTask : StagingKept(u)'
      <3>1. ASSUME NEW u \in LoneTask, u # t
            PROVE  StagingKept(u)'
        <4>1. PagesStill(u) /\ StagingKept(u) /\ UNCHANGED <<unreadable, reader, chunks>>
          BY <2>2, <3>1, PagesTaskStep DEF PagesInv
        <4> QED BY <4>1 DEF PagesStill, StagingKept, ReadWhole, WholeShard
      <3> QED BY <2>2, <3>1, PagesTaskStep
    <2> QED BY <2>1, <2>2
  <1>2. PagesType'
    BY <1>1 DEF PagesInv, PagesType
  <1>3. ASSUME NEW u \in LoneTask, NEW j \in Pages!Reader
        PROVE  ReaderKept(u, j)'
    BY <1>1 DEF PagesInv, PagesType, Pages!TypeOK, ReaderKept, WholeShard
  <1> QED BY <1>1, <1>2, <1>3 DEF PagesInv

\* A step of page-cache staging keeps its invariant.
LEMMA NextPages == PagesInv /\ Pages!Next => PagesInv'
  BY ReaderInv, StagingInv DEF Pages!Next, Pages!Staging, PagesTask

\* What the page-cache invariant promises of a completed and a stopped staging.
LEMMA PagesSound ==
  PagesInv => /\ Pages!TypeOK /\ Pages!CompletedMeansStaged /\ Pages!StopsAtOnce
              /\ Pages!CancelledForGood
  BY DEF PagesInv, PagesType, StagingKept, ReadWhole, ReaderKept, WholeShard,
         Pages!CompletedMeansStaged, Pages!StopsAtOnce, Pages!CancelledForGood

-------------------------------------------------------------------------------
(* The suite: each step belongs to one executor, and the others stand still. *)

SuiteInv == MaceInv /\ PagesInv /\ MegaInv /\ FilesInv

LEMMA InitSuite == Init => SuiteInv
  BY InitMace, InitPages, InitMega, InitFiles DEF Init, SuiteInv

LEMMA NextSuite ==
  ASSUME SuiteInv, [Next]_vars
  PROVE  SuiteInv' /\ [Mace!NoDoubleLoadStep]_vars
  <1> USE DEF SuiteInv
  <1>1. ASSUME UNCHANGED mace PROVE Mace!NoDoubleLoadStep
    BY <1>1 DEF Mace!NoDoubleLoadStep, mace
  <1>2. CASE MaceStep
    BY <1>2, NextMace, StillPages, StillMega, StillFiles DEF MaceStep
  <1>3. CASE PagesStep
    BY <1>1, <1>3, NextPages, StillMace, StillMega, StillFiles DEF PagesStep
  <1>4. CASE MegaStep
    BY <1>1, <1>4, NextMega, StillMace, StillPages, StillFiles DEF MegaStep
  <1>5. CASE FilesStep
    BY <1>1, <1>5, NextFiles, StillMace, StillPages, StillMega DEF FilesStep
  <1>6. CASE UNCHANGED vars
    BY <1>6, StillMace, StillPages, StillMega, StillFiles DEF vars
  <1> QED BY <1>2, <1>3, <1>4, <1>5, <1>6 DEF Next

\* The invariant of the suite is inductive: types, and for each executor what
\* relates the status of its tasks, the calls on them, their loads and what the
\* loads leave behind (mace_prefetch.py, model_cache_prefetch.py,
\* megammap_stage.py, data_prefetch.py).
THEOREM SuiteInductive == FairSpec => []SuiteInv
  <1>1. SuiteInv /\ [Next]_vars => SuiteInv'
    BY NextSuite
  <1> QED BY <1>1, InitSuite, PTL DEF FairSpec

\* What is reported as staged was staged, and what is stopped stops, for every
\* number of shards, chunks and reader threads: a completed page-cache staging
\* read every readable shard to its end, whichever shutdown or cancellation
\* came in between, and a stopped reader reads one chunk more at most
\* (model_cache_prefetch.py:149-268); a MegaMmap task completes only on exit 0,
\* and no process whose cancellation found it runs on without a signal
\* (megammap_stage.py:138-162).
THEOREM StagingIsSound == FairSpec => []StagingSound
  <1>1. MegaInv => Mega!TypeOK /\ Mega!SuccessNeedsExit /\ Mega!CancelReachesProcess
    BY DEF MegaInv, MegaKept, Mega!SuccessNeedsExit, Mega!CancelReachesProcess
  <1>2. SuiteInv => StagingSound
    BY <1>1, PagesSound DEF SuiteInv, StagingSound, TypesOK, MaceInv, FilesInv
  <1> QED BY <1>2, SuiteInductive, PTL

\* No consumer is redirected to a copy that failed, or that was cancelled
\* before the end of the copy was tested, whatever other hooks of the task come
\* between the steps of the cancellation and whatever the names of the files
\* (data_prefetch.py:126-131).  A cancellation between the test and the
\* assignment (data_prefetch.py:126-127), or one that start() forgets, is
\* outside of it.
THEOREM RedirectedIfWanted == FairSpec => []Files!RedirectedWhenWanted
  <1>1. SuiteInv => Files!RedirectedWhenWanted
    BY DEF SuiteInv, FilesInv, RedirectKept, FileKept, Files!TypeOK, Files!RedirectedWhenWanted
  <1> QED BY <1>1, SuiteInductive, PTL

\* A redirected consumer finds its file, and wanted it, where files of one name
\* are one file: nothing in the executor keeps apart two that share a name
\* (data_prefetch.py:117-129), so this hypothesis is what callers must ensure.
THEOREM RedirectIsSound ==
  ASSUME DistinctNames
  PROVE  FairSpec => []RedirectSound
  <1>1. SuiteInv => Files!RedirectedWhenWanted
    BY DEF SuiteInv, FilesInv, RedirectKept, FileKept, Files!TypeOK, Files!RedirectedWhenWanted
  <1>2. SuiteInv => Files!RedirectedFindsFile
    BY DEF SuiteInv, FilesInv, CopiedFound, Files!TypeOK, Files!RedirectedFindsFile, Files!Copying
  <1> QED BY <1>1, <1>2, SuiteInductive, PTL DEF RedirectSound

\* A cancellation that meets no call between its test and its assignment is for
\* good: a MACE load cancelled while it ran leaves nothing in the cache and
\* nothing a tool took (mace_prefetch.py:287-291), and neither a poll, the end of
\* the readers nor a consumption gives a cancelled MegaMmap or page-cache task
\* another status (megammap_stage.py:156, model_cache_prefetch.py:239-242).
THEOREM CancellationIsForGood == FairSpec => []CancelledForGood
  <1>1. SuiteInv => CancelledForGood
    BY MaceLeavesNothing, PagesSound DEF SuiteInv, MegaInv, MegaKept, CancelledForGood, Mega!CancelledForGood
  <1> QED BY <1>1, SuiteInductive, PTL

\* Each calculator is loaded once and computes for one tool, for every number
\* of tools and keys (mace_prefetch.py:62-97): a tool that was patient enough
\* never loads beside the background load of its key, and no two tools take one
\* instance.
THEOREM CalculatorsAreOnce == FairSpec => CalculatorsOnce
  <1>1. SuiteInv => Mace!ConsumedOnce
    BY MaceConsumedOnce DEF SuiteInv
  <1>2. SuiteInv /\ [Next]_vars => [Mace!NoDoubleLoadStep]_vars
    BY NextSuite
  <1> QED BY <1>1, <1>2, SuiteInductive, PTL DEF CalculatorsOnce, FairSpec

===============================================================================
