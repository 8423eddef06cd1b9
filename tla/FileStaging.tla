------------------------------ MODULE FileStaging ------------------------------
(***************************************************************************)
(* prefetch/data_prefetch.py, FileStagingExecutor: files are copied to one *)
(* scratch directory under their own names by a pool of threads, and the   *)
(* task's resource is redirected to the copy.                              *)
(***************************************************************************)
EXTENDS TaskCalls

CONSTANTS
    File,     \* source files
    FileOf,   \* FileOf[t]: resource.path of task t
    NameOf,   \* NameOf[f]: Path(f).name
    Workers   \* max_workers

Name == {NameOf[f] : f \in File}

VARIABLES
    copy,     \* _stage of each task
    staged,   \* tasks whose resource.path is the copy
    scratch,  \* per name: what the scratch directory holds
    torn      \* history: names with a copy that failed half-way

vars == <<callVars, copy, staged, scratch, torn>>

\* The destination of a task.
NameIn(t) == NameOf[FileOf[t]]

-------------------------------------------------------------------------------
\* start(): fails without a path; else the copy is submitted, then its future
\* filed.
Begin(t) ==
    \/ Starts(t, "failed") /\ UNCHANGED <<copy, staged, scratch, torn>>
    \/ /\ Starts(t, "in_progress")
       /\ copy' = [copy EXCEPT ![t] = "queued"]
       /\ UNCHANGED <<staged, scratch, torn>>
    \/ Files(t) /\ UNCHANGED <<copy, staged, scratch, torn>>

\* cancel(): a copy that has not begun is withdrawn if its future is known;
\* one that runs goes on.
Cancel(t) ==
    \/ /\ Reaches(t)
       /\ copy' = [copy EXCEPT ![t] = IF @ = "queued" /\ launch[t] = "filed" THEN "dropped" ELSE @]
       /\ UNCHANGED <<staged, scratch, torn>>
    \/ /\ Marks(t, launch[t] = "registered" \/ copy[t] \in {"wanted", "redirecting", "done"})
       /\ UNCHANGED <<copy, staged, scratch, torn>>

Copying == {t \in Task : copy[t] \in {"making", "copying", "ending", "wanted", "redirecting"}}

\* A pool thread takes the task.
StageBegins(t) ==
    /\ copy[t] = "queued" /\ Cardinality(Copying) < Workers
    /\ copy' = [copy EXCEPT ![t] = "making"]
    /\ UNCHANGED <<callVars, staged, scratch, torn>>

\* The scratch directory is created outside the try block: a failure ends the
\* future and leaves the status alone.
MakesScratch(t) ==
    /\ copy[t] = "making"
    /\ \/ /\ copy' = [copy EXCEPT ![t] = "copying"]
          /\ scratch' = [scratch EXCEPT ![NameIn(t)] = {}]
       \/ copy' = [copy EXCEPT ![t] = "raised"] /\ UNCHANGED scratch
    /\ UNCHANGED <<callVars, staged, torn>>

\* copy2() has truncated the destination; it is whole when it returns.
CopyEnds(t) ==
    /\ copy[t] = "copying"
    /\ copy' = [copy EXCEPT ![t] = "ending"]
    /\ scratch' = [scratch EXCEPT ![NameIn(t)] = {FileOf[t]}]
    /\ UNCHANGED <<callVars, staged, torn>>

StillWanted(t) == status[t] = "in_progress"

\* The status is tested, and assigned in a step of its own.
TestsWanted(t) ==
    /\ copy[t] = "ending"
    /\ copy' = [copy EXCEPT ![t] = IF StillWanted(t) THEN "wanted" ELSE "done"]
    /\ UNCHANGED <<callVars, staged, scratch, torn>>

Settle(t) ==
    /\ copy[t] = "wanted"
    /\ copy' = [copy EXCEPT ![t] = "redirecting"]
    /\ Assigns(t, "completed")
    /\ UNCHANGED <<staged, scratch, torn>>

\* The consumer is sent to the copy after the status was set.
Redirect(t) ==
    /\ copy[t] = "redirecting"
    /\ copy' = [copy EXCEPT ![t] = "done"]
    /\ staged' = staged \cup {t}
    /\ UNCHANGED <<callVars, scratch, torn>>

\* A mistaken failure that counts as staged.
AfterFailureRedirect == "redirecting"

AfterFailure == "done"

\* The copy raises: FAILED is assigned without a test, what was written stays.
CopyFails(t) ==
    /\ copy[t] = "copying"
    /\ copy' = [copy EXCEPT ![t] = AfterFailure]
    /\ Assigns(t, "failed")
    /\ torn' = torn \cup {NameIn(t)}
    /\ UNCHANGED <<staged, scratch>>

-------------------------------------------------------------------------------
Init ==
    /\ CallsInit
    /\ copy = [t \in Task |-> "none"]
    /\ staged = {} /\ torn = {} /\ scratch = [n \in Name |-> {}]

Stage(t) == \/ StageBegins(t) \/ MakesScratch(t) \/ CopyEnds(t) \/ TestsWanted(t)
            \/ Settle(t) \/ Redirect(t) \/ CopyFails(t)

Hook(t) == HookStep(t) /\ UNCHANGED <<copy, staged, scratch, torn>>

Next == \E t \in Task : Begin(t) \/ Cancel(t) \/ Hook(t) \/ Stage(t)

Spec == Init /\ [][Next]_vars

-------------------------------------------------------------------------------
(* Properties.                                                             *)

TypeOK ==
    /\ CallsTypeOK
    /\ copy \in [Task -> {"none", "queued", "making", "copying", "ending", "wanted",
                          "redirecting", "done", "raised", "dropped"}]
    /\ staged \subseteq Task /\ torn \subseteq Name
    /\ scratch \in [Name -> SUBSET File]

\* data_prefetch.py:128 "redirect consumer to staged copy": a consumer that
\* was redirected finds its own file, whole, once nobody copies to that name;
\* cancelled copies that run on beside newer ones do not spoil it, failed ones
\* may.  It takes distinct file names.
RedirectedFindsFile ==
    \A t \in staged :
        /\ NameIn(t) \notin torn
        /\ \A u \in Copying : NameIn(u) # NameIn(t)
        => scratch[NameIn(t)] = {FileOf[t]}

\* data_prefetch.py:126-128: no consumer is sent to the copy of a prefetch that
\* failed, or that was cancelled before the end of its copy was tested.  A
\* cancellation that comes after the test finds the consumer redirected, one
\* that comes before start() is forgotten by it.
RedirectedWhenWanted ==
    \A t \in staged : status[t] # "failed" /\ withdrawn[t] # "clear"
================================================================================
