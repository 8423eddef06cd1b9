----------------------------- MODULE ExecutorSuite -----------------------------
(***************************************************************************)
(* The loads of the prefetch executors, explored one executor at a time:   *)
(* the MACE cache, page-cache staging, MegaMmap staging and file staging.  *)
(* They share no state; "which" says whose behaviours these are.           *)
(***************************************************************************)
EXTENDS Integers, FiniteSets

CONSTANTS
    Diverging, Consumer, Key, KeyOf, NShards, Workers, Chunks, File, FileOf, NameOf, None,
    MaceTask, FileTask,  \* tasks that share a cache or a directory
    LoneTask             \* tasks of the executors whose tasks share nothing

ASSUME SuiteConstants ==
    /\ KeyOf \in [MaceTask -> Key] /\ None \notin MaceTask
    /\ Key # {} /\ NShards \in Nat /\ Workers \in Nat \ {0} /\ Chunks \in Nat \ {0}
    /\ FileOf \in [FileTask -> File] /\ NameOf \in [File -> Int]

\* Files are staged under their own names in one directory; the executor has
\* nothing to keep two of the same name apart (data_prefetch.py:117-129).
DistinctNames == \A f, g \in File : NameOf[f] = NameOf[g] => f = g

VARIABLES
    which,
    status, launch, sweep, stamping, withdrawn,                       \* MACE
    load, cache, inFlight, tool, taken,
    pagesStatus, pagesLaunch, pagesSweep, pagesStamping, pagesWithdrawn,   \* page cache
    unreadable, future, verdict, stop, reader, chunks, extra,
    megaStatus, megaLaunch, megaSweep, megaStamping, megaWithdrawn,   \* MegaMmap
    process, signals, waiter, report, down, missed,
    filesStatus, filesLaunch, filesSweep, filesStamping, filesWithdrawn,   \* files
    copy, staged, scratch, torn

mace == <<status, launch, sweep, stamping, withdrawn, load, cache, inFlight, tool, taken>>
pages == <<pagesStatus, pagesLaunch, pagesSweep, pagesStamping, pagesWithdrawn,
           unreadable, future, verdict, stop, reader, chunks, extra>>
mega == <<megaStatus, megaLaunch, megaSweep, megaStamping, megaWithdrawn,
          process, signals, waiter, report, down, missed>>
files == <<filesStatus, filesLaunch, filesSweep, filesStamping, filesWithdrawn,
           copy, staged, scratch, torn>>
vars == <<which, mace, pages, mega, files>>

Mace == INSTANCE MaceCache WITH Task <- MaceTask
Pages == INSTANCE PageCacheStaging WITH
    Task <- LoneTask, status <- pagesStatus, launch <- pagesLaunch, sweep <- pagesSweep,
    stamping <- pagesStamping, withdrawn <- pagesWithdrawn
Mega == INSTANCE MegaMmapStaging WITH
    Task <- LoneTask, status <- megaStatus, launch <- megaLaunch, sweep <- megaSweep,
    stamping <- megaStamping, withdrawn <- megaWithdrawn
Files == INSTANCE FileStaging WITH
    Task <- FileTask, status <- filesStatus, launch <- filesLaunch, sweep <- filesSweep,
    stamping <- filesStamping, withdrawn <- filesWithdrawn

Init == /\ which \in {"mace", "pages", "mega", "files"}
        /\ Mace!Init /\ Pages!Init /\ Mega!Init /\ Files!Init
        /\ which # "pages" => unreadable = {}

MaceStep == which = "mace" /\ Mace!Next /\ UNCHANGED <<which, pages, mega, files>>
PagesStep == which = "pages" /\ Pages!Next /\ UNCHANGED <<which, mace, mega, files>>
MegaStep == which = "mega" /\ Mega!Next /\ UNCHANGED <<which, mace, pages, files>>
FilesStep == which = "files" /\ Files!Next /\ UNCHANGED <<which, mace, pages, mega>>

Next == MaceStep \/ PagesStep \/ MegaStep \/ FilesStep

\* Threads run and loads end; a subprocess ends unless it hangs on its pipe.
FairSpec ==
    /\ Init /\ [][Next]_vars
    /\ WF_vars(/\ which = "mace" /\ \E t \in MaceTask : Mace!Loader(t)
               /\ UNCHANGED <<which, pages, mega, files>>)
    /\ \A c \in Consumer :
        WF_vars(which = "mace" /\ Mace!WaitEnds(c) /\ UNCHANGED <<which, pages, mega, files>>)
    /\ \A t \in LoneTask :
        /\ WF_vars(which = "pages" /\ Pages!Staging(t) /\ UNCHANGED <<which, mace, mega, files>>)
        /\ WF_vars(which = "mega" /\ Mega!Begin(t) /\ UNCHANGED <<which, mace, pages, files>>)
        /\ WF_vars(which = "mega" /\ Mega!Waiter(t) /\ UNCHANGED <<which, mace, pages, files>>)
        /\ WF_vars(which = "mega" /\ Mega!Exits(t) /\ UNCHANGED <<which, mace, pages, files>>)

-------------------------------------------------------------------------------
(* The properties of the four modules, each where its executor is explored *)
(* (elsewhere its variables keep their initial values).                    *)

\* Every variable has its type, whichever executor runs.
TypesOK == Mace!TypeOK /\ Pages!TypeOK /\ Mega!TypeOK /\ Files!TypeOK

\* What an executor reports as staged was staged, and what is stopped stops: a
\* completed page-cache staging read every shard to its end, a stopped one reads
\* at most one chunk more (model_cache_prefetch.py:150); only an exit with 0
\* counts for MegaMmap, and no cancelled process runs on without a signal
\* (megammap_stage.py).
StagingSound ==
    /\ TypesOK
    /\ Pages!CompletedMeansStaged /\ Pages!StopsAtOnce
    /\ Mega!SuccessNeedsExit /\ Mega!CancelReachesProcess

\* A consumer that was redirected finds its file, and none is redirected to a
\* copy that failed or was cancelled before its end was tested
\* (data_prefetch.py:117-129).
RedirectSound == Files!RedirectedFindsFile /\ Files!RedirectedWhenWanted

\* A cancellation that meets no call between its test and its assignment is for
\* good: a MACE load cancelled while it ran leaves nothing in the cache
\* (mace_prefetch.py:287-291), no poll gives a cancelled MegaMmap task another
\* status (megammap_stage.py:156), and no end of its readers a cancelled
\* page-cache one (model_cache_prefetch.py:239-242).
CancelledForGood ==
    Mace!CancelledLeavesNothing /\ Mega!CancelledForGood /\ Pages!CancelledForGood

\* Each calculator is loaded once and computes for one tool
\* (mace_prefetch.py:62-97): no tool loads beside the background load of its
\* key, and no two tools take the same instance.
CalculatorsOnce == [][Mace!NoDoubleLoadStep /\ Mace!ConsumedOnce']_vars

\* Nobody waits for ever: tools are released when the load of their calculator
\* ends, stagings end, and the end of a subprocess is noticed.
LoadsEnd == Mace!WaitersReleased /\ Pages!StagingEnds /\ Mega!EndNoticed
================================================================================
