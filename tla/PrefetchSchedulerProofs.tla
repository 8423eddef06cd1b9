------------------------ MODULE PrefetchSchedulerProofs ------------------------
(***************************************************************************)
(* Theorems about PrefetchScheduler, for every number of callers,          *)
(* resources, checkpoints and tasks and every routing of resource types to *)
(* executors.                                                              *)
(***************************************************************************)
EXTENDS PrefetchScheduler, TLAPS

-------------------------------------------------------------------------------
(* Type correctness.                                                       *)

\* The local variables of a caller keep their type under each kind of update
\* the actions make.
LEMMA FrameType ==
  ASSUME NEW p \in PC, NEW r \in Resource \cup {None}, NEW k \in Checkpoint \cup {None},
         NEW t \in 0..MaxTasks, NEW todo \in SUBSET Task
  PROVE  Frame(p, r, k, t, todo) \in CallRecord
  BY DEF Frame, CallRecord

LEMMA IdleType == Idle \in CallRecord
  BY FrameType, ConstantsOK DEF Idle, PC

LEMMA CallNewType ==
  ASSUME NEW f \in [Caller -> CallRecord], NEW c \in Caller, NEW x \in CallRecord,
         NEW g, g = [f EXCEPT ![c] = x]
  PROVE  /\ g \in [Caller -> CallRecord]
         /\ g[c] = x
         /\ \A d \in Caller : d # c => g[d] = f[d]
  BY DEF CallRecord

LEMMA CallPcType ==
  ASSUME NEW f \in [Caller -> CallRecord], NEW c \in Caller, NEW p \in PC,
         NEW g, g = [f EXCEPT ![c].pc = p]
  PROVE  /\ g \in [Caller -> CallRecord]
         /\ g[c].pc = p /\ g[c].task = f[c].task /\ g[c].todo = f[c].todo
         /\ \A d \in Caller : d # c => g[d] = f[d]
  <1>1. f[c] \in CallRecord
    OBVIOUS
  <1>2. g = [f EXCEPT ![c] = [f[c] EXCEPT !.pc = p]]
    OBVIOUS
  <1>3. LET x == [f[c] EXCEPT !.pc = p]
        IN  x \in CallRecord /\ x.pc = p /\ x.task = f[c].task /\ x.todo = f[c].todo
    BY <1>1 DEF CallRecord
  <1> QED BY <1>2, <1>3, CallNewType

LEMMA CallTaskType ==
  ASSUME NEW f \in [Caller -> CallRecord], NEW c \in Caller, NEW t \in 0..MaxTasks,
         NEW g, g = [f EXCEPT ![c].task = t]
  PROVE  /\ g \in [Caller -> CallRecord]
         /\ g[c].pc = f[c].pc /\ g[c].task = t /\ g[c].todo = f[c].todo
         /\ \A d \in Caller : d # c => g[d] = f[d]
  <1> DEFINE x == [f[c] EXCEPT !.task = t]
  <1>1. f[c] \in CallRecord
    OBVIOUS
  <1>2. x \in CallRecord /\ x.pc = f[c].pc /\ x.task = t /\ x.todo = f[c].todo
    BY <1>1 DEF CallRecord
  <1>3. g = [f EXCEPT ![c] = x]
    OBVIOUS
  <1> QED BY <1>2, <1>3, CallNewType

LEMMA CallCompletedType ==
  ASSUME NEW f \in [Caller -> CallRecord], NEW c \in Caller, NEW p \in PC,
         NEW b \in BOOLEAN, NEW g, g = [f EXCEPT ![c].pc = p, ![c].completed = b]
  PROVE  /\ g \in [Caller -> CallRecord]
         /\ g[c].pc = p /\ g[c].task = f[c].task /\ g[c].todo = f[c].todo
         /\ \A d \in Caller : d # c => g[d] = f[d]
  <1> DEFINE x == [f[c] EXCEPT !.pc = p, !.completed = b]
  <1>1. f[c] \in CallRecord
    OBVIOUS
  <1>2. x \in CallRecord /\ x.pc = p /\ x.task = f[c].task /\ x.todo = f[c].todo
    BY <1>1 DEF CallRecord
  <1>3. g = [f EXCEPT ![c] = x]
    OBVIOUS
  <1> QED BY <1>2, <1>3, CallNewType

LEMMA CallFields ==
  ASSUME TypeOK, NEW c \in Caller
  PROVE  /\ call \in [Caller -> CallRecord]
         /\ call[c].res \in Resource \cup {None}
         /\ call[c].ckpt \in Checkpoint \cup {None}
         /\ call[c].task \in 0..MaxTasks
         /\ call[c].todo \in SUBSET Task
  BY DEF TypeOK, CallRecord

LEMMA AdvanceType ==
  ASSUME TypeOK, NEW c \in Caller, NEW t, Advance(c, t)
  PROVE  call' \in [Caller -> CallRecord]
  <1> DEFINE rest == call[c].todo \ {t}
  <1>1. rest \in SUBSET Task
    BY CallFields
  <1>2. Frame("visit", None, None, 0, rest) \in CallRecord
    BY <1>1, FrameType, ConstantsOK DEF PC
  <1> QED BY <1>2, IdleType, CallNewType, CallFields DEF Advance

LEMMA InitTypeOK == Init => TypeOK
  BY ConstantsOK, IdleType DEF Init, TypeOK, Status, Future, Task

LEMMA InitIInv == Init => IInv
  BY InitTypeOK DEF Init, IInv, TaskInHand, Fresh, Unstarted, Begun, Decided,
     SettledWhenDone, ReportingSettled, ReportIsFinal, Idle, Frame, Starting,
     Unsettled, Task

\* A step of caller c that touches nothing but its own local variables and
\* does not enter start().
LEMMA LocalStep ==
  ASSUME IInv, NEW c \in Caller,
         call' \in [Caller -> CallRecord],
         \A d \in Caller : d # c => call'[d] = call[d],
         call'[c].pc \notin Starting,
         call'[c].pc \notin {"idle", "register", "visit"} => call'[c].task \in 1..ntasks,
         call'[c].todo \subseteq 1..ntasks,
         UNCHANGED <<schedVars, taskVars, execVars, traceVars>>
  PROVE  IInv'
  <1> USE DEF schedVars, taskVars, execVars, traceVars
  <1>1. TypeOK'
    BY DEF IInv, TypeOK
  <1>2. TaskInHand'
    BY DEF IInv, TaskInHand
  <1>3. Unstarted'
    BY DEF IInv, Unstarted
  <1>4. Begun'
    BY DEF IInv, Begun, Starting
  <1>5. Fresh' /\ Decided' /\ SettledWhenDone' /\ ReportingSettled' /\ ReportIsFinal'
    BY DEF IInv, Fresh, Decided, SettledWhenDone, ReportingSettled, ReportIsFinal
  <1> QED BY <1>1, <1>2, <1>3, <1>4, <1>5 DEF IInv

LEMMA CallsIInv ==
  ASSUME IInv, NEW c \in Caller,
         \/ \E r \in Resource, k \in Checkpoint : ScheduleCall(c, r, k)
         \/ \E k \in Checkpoint : CancelCall(c, k)
         \/ \E r \in Resource : ConsumeCall(c, r)
  PROVE  IInv'
  <1> USE CallFields DEF IInv
  <1>1. ASSUME NEW r \in Resource, NEW k \in Checkpoint, ScheduleCall(c, r, k)
        PROVE  IInv'
    <2>1. Frame("register", r, k, 0, {}) \in CallRecord
      BY FrameType, ConstantsOK DEF PC
    <2>2. /\ call' \in [Caller -> CallRecord]
          /\ \A d \in Caller : d # c => call'[d] = call[d]
          /\ call'[c].pc = "register" /\ call'[c].todo = {}
      BY <1>1, <2>1, CallNewType DEF ScheduleCall, Frame
    <2> QED BY <1>1, <2>2, LocalStep DEF ScheduleCall, Starting
  <1>2. ASSUME NEW k \in Checkpoint, CancelCall(c, k)
        PROVE  IInv'
    <2> DEFINE mine == {t \in 1..ntasks : ckpt[t] = k}
    <2>1. mine \in SUBSET Task
      BY ConstantsOK DEF TypeOK, Task
    <2>2. Frame("visit", None, None, 0, mine) \in CallRecord
      BY <2>1, FrameType, ConstantsOK DEF PC
    <2>3. /\ call' \in [Caller -> CallRecord]
          /\ \A d \in Caller : d # c => call'[d] = call[d]
          /\ call'[c].pc = "visit" /\ call'[c].todo = mine
      BY <1>2, <2>2, CallNewType DEF CancelCall, Frame
    <2> QED BY <1>2, <2>3, LocalStep DEF CancelCall, Starting
  <1>3. ASSUME NEW r \in Resource, ConsumeCall(c, r)
        PROVE  IInv'
    <2>1. Frame("judge", None, None, taskOf[r], {}) \in CallRecord
      BY FrameType, ConstantsOK DEF PC, TypeOK
    <2>2. /\ call' \in [Caller -> CallRecord]
          /\ \A d \in Caller : d # c => call'[d] = call[d]
          /\ call'[c].pc = "judge" /\ call'[c].todo = {} /\ call'[c].task = taskOf[r]
      BY <1>3, <2>1, CallNewType DEF ConsumeCall, Frame
    <2>3. taskOf[r] \in 1..ntasks
      BY <1>3 DEF ConsumeCall, TaskInHand, TypeOK
    <2> QED BY <1>3, <2>2, <2>3, LocalStep DEF ConsumeCall, Starting
  <1> QED BY <1>1, <1>2, <1>3

\* The steps of a call that read a status and decide where to go next.
LEMMA ReadsIInv ==
  ASSUME IInv, NEW c \in Caller, Visit(c) \/ Sample(c) \/ Judge(c)
  PROVE  IInv'
  <1> USE CallFields DEF IInv
  <1>1. CASE Visit(c)
    <2>1. PICK t \in call[c].todo :
            IF status[t] \in Cancellable
            THEN call' = [call EXCEPT ![c].task = t, ![c].pc = "sample"]
            ELSE Advance(c, t)
      BY <1>1 DEF Visit
    <2>2. t \in 1..ntasks /\ t \in 0..MaxTasks
      BY ConstantsOK DEF TaskInHand, TypeOK, Task
    <2>3. CASE status[t] \in Cancellable
      <3>1. /\ call' \in [Caller -> CallRecord]
            /\ \A d \in Caller : d # c => call'[d] = call[d]
            /\ call'[c].pc = "sample" /\ call'[c].task = t /\ call'[c].todo = call[c].todo
        <4>1. call' = [call EXCEPT ![c].task = t, ![c].pc = "sample"]
          BY <2>1, <2>3
        <4> DEFINE h == [call EXCEPT ![c].task = t]
        <4>2. call' = [h EXCEPT ![c].pc = "sample"]
          BY <4>1
        <4>3. call \in [Caller -> CallRecord] /\ t \in 0..MaxTasks
          BY <2>2
        <4>4. h \in [Caller -> CallRecord] /\ \A d \in Caller : d # c => h[d] = call[d]
          BY <4>3, CallTaskType
        <4>5. h[c].task = t /\ h[c].todo = call[c].todo
          BY <4>3, CallTaskType
        <4>6. "sample" \in PC
          BY DEF PC
        <4> HIDE DEF h
        <4>7. call' \in [Caller -> CallRecord] /\ \A d \in Caller : d # c => call'[d] = call[d]
          BY <4>2, <4>4, <4>6, CallPcType
        <4>8. call'[c].pc = "sample" /\ call'[c].task = t /\ call'[c].todo = call[c].todo
          BY <4>2, <4>4, <4>5, <4>6, CallPcType
        <4> QED BY <4>7, <4>8
      <3> QED BY <1>1, <2>2, <3>1, LocalStep DEF Visit, Starting, TaskInHand
    <2>4. CASE status[t] \notin Cancellable
      <3>1. call' \in [Caller -> CallRecord]
        BY <2>1, <2>4, AdvanceType
      <3>2. /\ \A d \in Caller : d # c => call'[d] = call[d]
            /\ call'[c].pc \in {"idle", "visit"} /\ call'[c].todo \subseteq 1..ntasks
        BY <2>1, <2>4 DEF Advance, Idle, Frame, TaskInHand
      <3> QED BY <1>1, <3>1, <3>2, LocalStep DEF Visit, Starting
    <2> QED BY <2>3, <2>4
  <1>2. CASE Sample(c)
    <2>1. /\ call' \in [Caller -> CallRecord]
          /\ \A d \in Caller : d # c => call'[d] = call[d]
          /\ call'[c].pc = "cancel" /\ call'[c].task = call[c].task
          /\ call'[c].todo = call[c].todo
      <3> DEFINE b == status[call[c].task] = "completed"
      <3>1. call' = [call EXCEPT ![c].pc = "cancel", ![c].completed = b]
        BY <1>2 DEF Sample
      <3>2. b \in BOOLEAN /\ "cancel" \in PC
        BY DEF PC
      <3> HIDE DEF b
      <3> QED BY <3>1, <3>2, CallCompletedType
    <2> QED BY <1>2, <2>1, LocalStep DEF Sample, At, Starting, TaskInHand
  <1>3. CASE Judge(c)
    <2>1. CASE status[call[c].task] \in NoPrefetch
      <3>1. /\ call' \in [Caller -> CallRecord]
            /\ \A d \in Caller : d # c => call'[d] = call[d]
            /\ call'[c].pc = "idle" /\ call'[c].todo = {}
        <4>1. call' = [call EXCEPT ![c] = Idle]
          BY <1>3, <2>1 DEF Judge, Return
        <4>2. Idle.pc = "idle" /\ Idle.todo = {}
          BY DEF Idle, Frame
        <4> QED BY <4>1, <4>2, IdleType, CallNewType
      <3> QED BY <1>3, <3>1, LocalStep DEF Judge, Starting
    <2>2. CASE status[call[c].task] \notin NoPrefetch
      <3>1. /\ call' \in [Caller -> CallRecord]
            /\ \A d \in Caller : d # c => call'[d] = call[d]
            /\ call'[c].pc = "use" /\ call'[c].task = call[c].task
            /\ call'[c].todo = call[c].todo
        BY <1>3, <2>2, CallPcType DEF Judge, Goto, PC
      <3> QED BY <1>3, <3>1, LocalStep DEF Judge, At, Starting, TaskInHand
    <2> QED BY <2>1, <2>2
  <1> QED BY <1>1, <1>2, <1>3

\* schedule() from the registration of the task to the start of its waiter.
LEMMA RegisterIInv ==
  ASSUME IInv, NEW c \in Caller, Register(c)
  PROVE  IInv'
  <1> USE CallFields DEF IInv, Register, At, execVars, traceVars
  <1> DEFINE n == ntasks + 1
  <1>1. n \in Task /\ n \in 0..MaxTasks /\ n > ntasks /\ n \in Nat
    BY ConstantsOK DEF Task, TypeOK
  <1>2. /\ call' \in [Caller -> CallRecord]
        /\ \A d \in Caller : d # c => call'[d] = call[d]
        /\ call'[c].pc \in {"route", "begin"} /\ call'[c].task = n
        /\ call'[c].todo = call[c].todo
    <2> DEFINE h == [call EXCEPT ![c].task = n]
    <2>1. PICK p \in {"route", "begin"} : call' = [h EXCEPT ![c].pc = p]
      OBVIOUS
    <2>2. p \in PC
      BY DEF PC
    <2>3. h \in [Caller -> CallRecord] /\ \A d \in Caller : d # c => h[d] = call[d]
      BY <1>1, CallTaskType
    <2>4. h[c].task = n /\ h[c].todo = call[c].todo
      BY <1>1, CallTaskType
    <2>5. c \in Caller /\ p \in {"route", "begin"}
      OBVIOUS
    <2> HIDE DEF h, n
    <2>6. call' \in [Caller -> CallRecord] /\ \A d \in Caller : d # c => call'[d] = call[d]
      BY ONLY <2>1, <2>2, <2>3, <2>5, CallPcType
    <2>7. call'[c].pc = p /\ call'[c].task = n /\ call'[c].todo = call[c].todo
      BY ONLY <2>1, <2>2, <2>3, <2>4, <2>5, CallPcType
    <2> QED BY <2>6, <2>7
  <1>3. /\ ntasks' = n
        /\ status' = [status EXCEPT ![n] = "pending"]
        /\ UNCHANGED <<execVars, traceVars>>
    BY DEF SetStatus
  <1>4. TypeOK'
    BY <1>1, <1>2, <1>3 DEF TypeOK, Status
  <1>5. TaskInHand'
    BY <1>1, <1>2, <1>3 DEF TaskInHand, TypeOK
  <1>6. Fresh'
    BY <1>1, <1>3 DEF Fresh, TypeOK, Task
  <1>7. status[n] = "none" /\ future[n] = "none" /\ waiter[n] = "none"
    BY <1>1 DEF Fresh
  <1>8. \A d \in Caller : call[d].pc \in Starting => call[d].task # n
    BY <1>1 DEF TaskInHand, Starting, TypeOK
  <1>9. Unstarted'
    BY <1>2, <1>3, <1>7, <1>8 DEF Unstarted, Starting
  <1>10. Begun'
    BY <1>1, <1>2, <1>3, <1>7, <1>8 DEF Begun, Starting, TypeOK
  <1>11. Decided' /\ SettledWhenDone' /\ ReportingSettled' /\ ReportIsFinal'
    BY <1>1, <1>3, <1>7 DEF Decided, SettledWhenDone, ReportingSettled, ReportIsFinal, TypeOK
  <1> QED BY <1>4, <1>5, <1>6, <1>9, <1>10, <1>11

LEMMA StartIInv ==
  ASSUME IInv, NEW c \in Caller, Route(c) \/ Begin(c) \/ Submit(c) \/ Track(c)
  PROVE  IInv'
  <1> USE CallFields DEF IInv, At, schedVars, taskVars, execVars, traceVars
  <1> DEFINE t == call[c].task
  <1>a. call[c].pc \in Starting
    BY DEF Route, Begin, Submit, Track, Starting
  <1>b. t \in 1..ntasks
    BY <1>a DEF TaskInHand, Starting
  <1>1. t \in 1..ntasks /\ t \in Task /\ waiter[t] = "none" /\ call[c].pc \in Starting
    BY <1>a, <1>b, ConstantsOK DEF Unstarted, TypeOK, Task
  <1>2. CASE Route(c)
    <2>1. /\ call' \in [Caller -> CallRecord]
          /\ \A d \in Caller : d # c => call'[d] = call[d]
          /\ call'[c].pc = "begin" /\ call'[c].task = t /\ call'[c].todo = call[c].todo
      BY <1>2, CallPcType DEF Route, Goto, PC
    <2>2. TypeOK'
      BY <1>1, <1>2, <2>1 DEF Route, TypeOK
    <2>3. TaskInHand'
      BY <1>1, <1>2, <2>1 DEF Route, TaskInHand
    <2>4. Unstarted' /\ Begun'
      BY <1>1, <1>2, <2>1 DEF Route, Unstarted, Begun, Starting
    <2>5. Fresh' /\ Decided' /\ SettledWhenDone' /\ ReportingSettled' /\ ReportIsFinal'
      BY <1>2 DEF Route, Fresh, Decided, SettledWhenDone, ReportingSettled, ReportIsFinal
    <2> QED BY <2>2, <2>3, <2>4, <2>5
  <1>3. CASE Begin(c)
    <2>1. /\ call' \in [Caller -> CallRecord]
          /\ \A d \in Caller : d # c => call'[d] = call[d]
          /\ call'[c].pc \in {"submit", "track"}
          /\ call'[c].task = t /\ call'[c].todo = call[c].todo
      BY <1>3, CallPcType DEF Begin, Goto, PC
    <2>2. /\ future[t] = "none"
          /\ \E s \in {"in_progress", "failed"} : status' = [status EXCEPT ![t] = s]
      BY <1>3 DEF Begin, SetStatus, Unstarted, Starting
    <2>3. TypeOK'
      BY <1>1, <1>3, <2>1, <2>2 DEF Begin, TypeOK, Status
    <2>4. TaskInHand'
      BY <1>1, <1>3, <2>1 DEF Begin, TaskInHand
    <2>5. Unstarted'
      BY <1>1, <1>3, <2>1 DEF Begin, Unstarted, Starting
    <2>6. Begun'
      BY <1>1, <1>3, <2>1, <2>2 DEF Begin, Begun, TypeOK, Unstarted, Starting
    <2>7. Fresh' /\ Decided' /\ SettledWhenDone'
      BY <1>1, <1>3, <2>2 DEF Begin, Fresh, Decided, SettledWhenDone, TypeOK, Task
    <2>8. ReportingSettled' /\ ReportIsFinal'
      BY <1>1, <1>3, <2>2 DEF Begin, ReportingSettled, ReportIsFinal, TypeOK
    <2> QED BY <2>3, <2>4, <2>5, <2>6, <2>7, <2>8
  <1>4. CASE Submit(c)
    <2>1. /\ call' \in [Caller -> CallRecord]
          /\ \A d \in Caller : d # c => call'[d] = call[d]
          /\ call'[c].pc = "track" /\ call'[c].task = t /\ call'[c].todo = call[c].todo
      BY <1>4, CallPcType DEF Submit, Goto, PC
    <2>2. status[t] # "pending" /\ future' = [future EXCEPT ![t] = "queued"]
      BY <1>4 DEF Submit, Begun
    <2>3. TypeOK'
      BY <1>1, <1>4, <2>1, <2>2 DEF Submit, TypeOK, Future
    <2>4. TaskInHand'
      BY <1>1, <1>4, <2>1 DEF Submit, TaskInHand
    <2>5. Unstarted'
      <3>a. /\ ntasks \in 0..MaxTasks
            /\ \A d \in Caller : call[d].pc \in Starting => call[d].task \in 1..ntasks
        BY DEF TaskInHand, Starting, TypeOK
      <3>1. \A d \in Caller : d # c /\ call[d].pc \in Starting => call[d].task # t
        BY <1>1 DEF Unstarted
      <3>2. \A d \in Caller : /\ call'[d].pc \in Starting => call[d].pc \in Starting
                             /\ call'[d].task = call[d].task
        BY <1>1, <2>1
      <3>3. \A u \in Task : u # t => future'[u] = future[u]
        BY <2>2 DEF TypeOK
      <3>4. \A d \in Caller : call[d].pc \in Starting => call[d].task \in Task
        BY <3>a DEF Task
      <3>5. waiter' = waiter
        BY <1>4 DEF Submit
      <3>6. ASSUME NEW d \in Caller, call'[d].pc \in Starting
            PROVE  /\ call'[d].pc # "track" => future'[call'[d].task] = "none"
                   /\ waiter'[call'[d].task] = "none"
        <4>1. call[d].pc \in Starting /\ call'[d].task = call[d].task
          BY <3>2, <3>6
        <4>2. waiter'[call'[d].task] = "none"
          BY <3>5, <4>1 DEF Unstarted
        <4>3. ASSUME call'[d].pc # "track"
              PROVE  future'[call'[d].task] = "none"
          <5>1. d # c /\ call[d].pc # "track"
            BY <2>1, <4>3
          <5> QED BY <3>1, <3>3, <3>4, <4>1, <5>1 DEF Unstarted
        <4> QED BY <4>2, <4>3
      <3> QED BY <3>2, <3>6 DEF Unstarted
    <2>6. Begun'
      BY <1>1, <1>4, <2>1, <2>2 DEF Submit, Begun, TypeOK
    <2>8. Fresh'
      BY <1>1, <1>4, <2>2 DEF Submit, Fresh, TypeOK, Task
    <2>7. Decided' /\ SettledWhenDone' /\ ReportingSettled' /\ ReportIsFinal'
      BY <1>1, <1>4, <2>2 DEF Submit, Decided, SettledWhenDone, ReportingSettled,
                              ReportIsFinal, TypeOK
    <2> QED BY <2>3, <2>4, <2>5, <2>6, <2>7, <2>8
  <1>5. CASE Track(c)
    <2>1. /\ call' \in [Caller -> CallRecord]
          /\ \A d \in Caller : d # c => call'[d] = call[d]
          /\ call'[c].pc = "idle" /\ call'[c].todo = {}
      BY <1>5, IdleType, CallNewType DEF Track, Return, Idle, Frame
    <2>2. waiter' = [waiter EXCEPT ![t] = "polling"]
      BY <1>5 DEF Track
    <2>3. TypeOK'
      BY <1>1, <1>5, <2>1, <2>2 DEF Track, TypeOK, Note
    <2>4. TaskInHand'
      BY <1>1, <1>5, <2>1 DEF Track, TaskInHand
    <2>5. Unstarted'
      BY <1>1, <1>5, <2>1, <2>2 DEF Track, Unstarted, Starting, TypeOK
    <2>6. Begun'
      BY <1>5, <2>1 DEF Track, Begun
    <2>8. Fresh'
      BY <1>1, <1>5, <2>2 DEF Track, Fresh, TypeOK
    <2>9. Decided' /\ SettledWhenDone'
      BY <1>5 DEF Track, Decided, SettledWhenDone
    <2>7. ReportingSettled' /\ ReportIsFinal'
      BY <1>1, <1>5, <2>2 DEF Track, ReportingSettled, ReportIsFinal, TypeOK
    <2> QED BY <2>3, <2>4, <2>5, <2>6, <2>7, <2>8, <2>9
  <1> QED BY <1>2, <1>3, <1>4, <1>5

-------------------------------------------------------------------------------
(* cancel_all_pending(), on_resource_consumed().                           *)

\* The task a caller works on is a registered one.
LEMMA InHand ==
  ASSUME IInv, NEW c \in Caller
  PROVE  call[c].pc \notin {"idle", "register", "visit"} =>
            call[c].task \in 1..ntasks /\ call[c].task \in Task
  <1>1. 1..ntasks \subseteq Task
    BY ConstantsOK DEF IInv, TypeOK, Task
  <1>2. call[c].pc \notin {"idle", "register", "visit"} => call[c].task \in 1..ntasks
    BY DEF IInv, TaskInHand
  <1> QED BY <1>1, <1>2

\* A step of caller c, outside start(), that gives a registered task a settled
\* status, or leaves the statuses alone, and writes events.
LEMMA SettlingStep ==
  ASSUME IInv, NEW c \in Caller, NEW t \in 1..ntasks,
         NEW s \in {"cancelled", "wasted", "used"},
         call' \in [Caller -> CallRecord],
         \A d \in Caller : d # c => call'[d] = call[d],
         call'[c].pc \notin Starting,
         call'[c].pc \notin {"idle", "register", "visit"} => call'[c].task \in 1..ntasks,
         call'[c].todo \subseteq 1..ntasks,
         status' = [status EXCEPT ![t] = s] \/ UNCHANGED status,
         ledger' \in [Task -> SUBSET {"started", "used", "used_late",
                                      "cancelled", "cancelled_wasted"}],
         landed' \subseteq Task,
         UNCHANGED <<schedVars, res, ckpt, execVars, waiter, report>>
  PROVE  IInv'
  <1> USE DEF IInv, schedVars, execVars
  <1>1. t \in Task /\ ntasks \in Nat
    BY ConstantsOK DEF TypeOK, Task
  <1>2. \A u \in Task : status'[u] = status[u] \/ (u = t /\ status'[u] = s)
    BY <1>1 DEF TypeOK
  <1>3. status' \in [Task -> Status]
    BY <1>1 DEF TypeOK, Status
  <1>4. TypeOK'
    BY <1>3 DEF TypeOK
  <1>5. TaskInHand'
    BY DEF TaskInHand
  <1>6. Fresh'
    BY <1>1, <1>2 DEF Fresh
  <1>7. Unstarted'
    BY DEF Unstarted
  <1>8. \A u \in Task : status[u] # "pending" => status'[u] # "pending"
    BY <1>2
  <1>9. \A d \in Caller : call[d].pc = "submit" => call[d].task \in Task
    <2>1. \A d \in Caller : call[d].pc = "submit" =>
            call[d].pc \notin {"idle", "register", "visit"}
      OBVIOUS
    <2> HIDE DEF IInv
    <2> QED BY <2>1, InHand
  <1>10. Begun'
    BY <1>8, <1>9 DEF Begun, Starting
  <1>11. \A u \in Task : status[u] \notin Unsettled => status'[u] \notin Unsettled
    BY <1>2 DEF Unsettled
  <1>12. Decided' /\ SettledWhenDone' /\ ReportingSettled' /\ ReportIsFinal'
    BY <1>11 DEF Decided, SettledWhenDone, ReportingSettled, ReportIsFinal
  <1> QED BY <1>4, <1>5, <1>6, <1>7, <1>10, <1>12

LEMMA CancelIInv ==
  ASSUME IInv, NEW c \in Caller, ExecCancel(c)
  PROVE  IInv'
  <1> USE DEF IInv, At, ExecCancel, schedVars, taskVars
  <1> DEFINE t == call[c].task
  <1>1. t \in 1..ntasks /\ t \in Task
    <2>1. call[c].pc \notin {"idle", "register", "visit"}
      OBVIOUS
    <2> HIDE DEF IInv
    <2> QED BY <2>1, InHand
  <1>2. PICK p \in {"annul", "mark"} : call' = [call EXCEPT ![c].pc = p]
    BY DEF Goto
  <1>3. p \in PC /\ p \notin Starting /\ call \in [Caller -> CallRecord]
    BY CallFields DEF PC, Starting
  <1>4. call' \in [Caller -> CallRecord] /\ \A d \in Caller : d # c => call'[d] = call[d]
    <2>1. c \in Caller
      OBVIOUS
    <2> QED BY ONLY <1>2, <1>3, <2>1, CallPcType
  <1>5. call'[c].pc = p /\ call'[c].task = t /\ call'[c].todo = call[c].todo
    <2>1. c \in Caller
      OBVIOUS
    <2> QED BY ONLY <1>2, <1>3, <2>1, CallPcType
  <1>6. /\ future' \in [Task -> Future]
        /\ \A u \in Task : future'[u] = future[u]
                             \/ (u = t /\ future[u] = "queued" /\ future'[u] = "dropped")
    BY <1>1 DEF TypeOK, Future
  <1>7. told' \subseteq Task /\ landed' \subseteq Task
    BY <1>1 DEF TypeOK
  <1>8. TypeOK'
    BY <1>4, <1>6, <1>7 DEF TypeOK
  <1>9. TaskInHand'
    BY <1>1, <1>4, <1>5 DEF TaskInHand
  <1>10. \A d \in Caller : call[d].pc \in Starting => call[d].task \in Task
    <2>1. \A d \in Caller : call[d].pc \in Starting =>
            call[d].pc \notin {"idle", "register", "visit"}
      BY DEF Starting
    <2> HIDE DEF IInv
    <2> QED BY <2>1, InHand
  <1>11. Unstarted'
    BY <1>3, <1>4, <1>5, <1>6, <1>10 DEF Unstarted
  <1>12. Begun'
    BY <1>3, <1>4, <1>5, <1>6 DEF Begun, Starting
  <1>13. Fresh' /\ Decided' /\ SettledWhenDone' /\ ReportingSettled' /\ ReportIsFinal'
    BY <1>6 DEF Fresh, Decided, SettledWhenDone, ReportingSettled, ReportIsFinal
  <1> QED BY <1>8, <1>9, <1>11, <1>12, <1>13

LEMMA SettlesIInv ==
  ASSUME IInv, NEW c \in Caller, Annul(c) \/ Mark(c) \/ Use(c)
  PROVE  IInv'
  <1> USE CallFields DEF IInv
  <1> DEFINE t == call[c].task
  <1>1. t \in 1..ntasks /\ t \in Task /\ call[c].todo \subseteq 1..ntasks
    <2>1. call[c].pc \notin {"idle", "register", "visit"}
      BY DEF Annul, Mark, Use, At
    <2>2. call[c].todo \subseteq 1..ntasks
      BY DEF TaskInHand
    <2> HIDE DEF IInv
    <2> QED BY <2>1, <2>2, InHand
  <1>2. CASE Annul(c)
    <2>1. call' \in [Caller -> CallRecord] /\ \A d \in Caller : d # c => call'[d] = call[d]
      BY <1>2, CallPcType DEF Annul, Goto, PC
    <2>2. call'[c].pc = "mark" /\ call'[c].task = t /\ call'[c].todo = call[c].todo
      BY <1>2, CallPcType DEF Annul, Goto, PC
    <2>3. /\ status' = [status EXCEPT ![t] = "cancelled"]
          /\ landed' \subseteq Task
          /\ ledger' \in [Task -> SUBSET {"started", "used", "used_late",
                                          "cancelled", "cancelled_wasted"}]
          /\ UNCHANGED <<schedVars, res, ckpt, execVars, waiter, report>>
      BY <1>1, <1>2 DEF Annul, SetStatus, TypeOK
    <2> HIDE DEF t, IInv
    <2> QED BY <1>1, <2>1, <2>2, <2>3, SettlingStep DEF Starting
  <1>3. CASE Mark(c)
    <2>1. Advance(c, t)
      BY <1>3 DEF Mark
    <2>2. call' \in [Caller -> CallRecord]
      BY <2>1, AdvanceType
    <2>3. /\ \A d \in Caller : d # c => call'[d] = call[d]
          /\ call'[c].pc \in {"idle", "visit"} /\ call'[c].todo \subseteq 1..ntasks
      BY <1>1, <2>1 DEF Advance, Idle, Frame
    <2>4. status' = [status EXCEPT ![t] = "wasted"] \/ UNCHANGED status
      BY <1>3 DEF Mark, SetStatus
    <2>5. /\ landed' \subseteq Task
          /\ ledger' \in [Task -> SUBSET {"started", "used", "used_late",
                                          "cancelled", "cancelled_wasted"}]
          /\ UNCHANGED <<schedVars, res, ckpt, execVars, waiter, report>>
      BY <1>1, <1>3 DEF Mark, Note, TypeOK
    <2> HIDE DEF t, IInv
    <2> QED BY <1>1, <2>2, <2>3, <2>4, <2>5, SettlingStep DEF Starting
  <1>4. CASE Use(c)
    <2>1. call' = [call EXCEPT ![c] = Idle] /\ Idle.pc = "idle" /\ Idle.todo = {}
      BY <1>4 DEF Use, Return, Idle, Frame
    <2>2. call' \in [Caller -> CallRecord] /\ \A d \in Caller : d # c => call'[d] = call[d]
      BY <2>1, IdleType, CallNewType
    <2>3. call'[c].pc = "idle" /\ call'[c].todo = {}
      BY <2>1, IdleType, CallNewType
    <2>4. status' = [status EXCEPT ![t] = "used"]
      BY <1>4 DEF Use, SetStatus
    <2>5. /\ landed' \subseteq Task
          /\ ledger' \in [Task -> SUBSET {"started", "used", "used_late",
                                          "cancelled", "cancelled_wasted"}]
          /\ UNCHANGED <<schedVars, res, ckpt, execVars, waiter, report>>
      BY <1>1, <1>4 DEF Use, Note, TypeOK
    <2> HIDE DEF t, IInv
    <2> QED BY <1>1, <2>2, <2>3, <2>4, <2>5, SettlingStep DEF Starting
  <1> QED BY <1>2, <1>3, <1>4

-------------------------------------------------------------------------------
(* Pool and waiter threads.                                                *)

\* A future that a load or the pool moves belongs to a registered task that
\* has left PENDING behind and is no longer being submitted.
LEMMA Loading ==
  ASSUME IInv, NEW t \in Task, future[t] # "none"
  PROVE  /\ t \in 1..ntasks /\ status[t] # "pending"
         /\ \A c \in Caller : call[c].pc \in Starting /\ call[c].task = t
                                 => call[c].pc = "track"
  <1> USE DEF IInv
  <1>1. t \in 1..ntasks
    BY DEF Fresh, TypeOK, Task
  <1>2. status[t] # "pending"
    BY DEF Begun
  <1>3. ASSUME NEW c \in Caller, call[c].pc \in Starting, call[c].task = t
        PROVE  call[c].pc = "track"
    BY <1>3 DEF Unstarted
  <1> QED BY <1>1, <1>2, <1>3

\* A load moves its future and, in its last step, assigns its verdict.
LEMMA LoadStep ==
  ASSUME IInv, NEW t \in Task, future[t] # "none",
         future' \in [Task -> Future],
         verdict' \in [Task -> {"none", "completed", "failed", "wasted", "cancelled"}],
         status' \in [Task -> Status],
         \A u \in Task : u # t => /\ future'[u] = future[u]
                                  /\ verdict'[u] = verdict[u]
                                  /\ status'[u] = status[u],
         future'[t] \in {"loading", "check", "write", "done", "raised"},
         future'[t] \in {"check", "write"} => verdict'[t] # "none",
         future'[t] = "done" => status'[t] \notin Unsettled,
         status'[t] = status[t] \/ status'[t] \notin Unsettled,
         UNCHANGED <<schedVars, res, ckpt, call, routed, tracked, told, traceVars>>
  PROVE  IInv'
  <1> USE DEF schedVars, traceVars
  <1>1. /\ t \in 1..ntasks /\ status[t] # "pending"
        /\ \A c \in Caller : call[c].pc \in Starting /\ call[c].task = t
                                => call[c].pc = "track"
    BY Loading
  <1> USE DEF IInv
  <1>2. TypeOK'
    BY DEF TypeOK
  <1>3. TaskInHand'
    BY DEF TaskInHand
  <1>4. Fresh'
    BY <1>1 DEF Fresh, TypeOK
  <1>5. \A c \in Caller : call[c].pc \in Starting => call[c].task \in Task
    <2>1. \A c \in Caller : call[c].pc \in Starting =>
            call[c].pc \notin {"idle", "register", "visit"}
      BY DEF Starting
    <2> HIDE DEF IInv
    <2> QED BY <2>1, InHand
  <1>6. Unstarted'
    BY <1>1, <1>5 DEF Unstarted
  <1>7. \A u \in Task : status'[u] = "pending" => status[u] = "pending"
    BY <1>1 DEF Unsettled
  <1>8. Begun'
    BY <1>1, <1>5, <1>7 DEF Begun, Starting
  <1>9. Decided'
    BY DEF Decided
  <1>10. SettledWhenDone'
    BY DEF SettledWhenDone
  <1>11. ReportingSettled' /\ ReportIsFinal'
    BY DEF ReportingSettled, ReportIsFinal
  <1> QED BY <1>2, <1>3, <1>4, <1>6, <1>8, <1>9, <1>10, <1>11

LEMMA PoolIInv ==
  ASSUME IInv, NEW t \in Task, Pool(t)
  PROVE  IInv'
  <1> DEFINE Verdicts == {"none", "completed", "failed", "wasted", "cancelled"}
  <1> DEFINE others == \A u \in Task : u # t => /\ future'[u] = future[u]
                                                /\ verdict'[u] = verdict[u]
                                                /\ status'[u] = status[u]
  <1>1. /\ status \in [Task -> Status] /\ future \in [Task -> Future]
        /\ verdict \in [Task -> Verdicts]
    BY DEF IInv, TypeOK
  <1>2. CASE LoadBegins(t)
    <2>1. /\ future' \in [Task -> Future] /\ verdict' \in [Task -> Verdicts]
          /\ status' \in [Task -> Status] /\ others
      BY <1>1, <1>2 DEF LoadBegins, taskVars, Future
    <2>2. future[t] = "queued" /\ future'[t] = "loading" /\ status'[t] = status[t]
      BY <1>1, <1>2 DEF LoadBegins, taskVars
    <2> QED BY <1>2, <2>1, <2>2, LoadStep DEF LoadBegins, taskVars
  <1>3. CASE LoadEnds(t)
    <2>1. EndVerdict(t) \in {"completed", "wasted", "cancelled"}
      BY DEF EndVerdict
    <2>2. /\ future' \in [Task -> Future] /\ verdict' \in [Task -> Verdicts]
          /\ status' \in [Task -> Status] /\ others
      BY <1>1, <1>3, <2>1 DEF LoadEnds, taskVars, Future
    <2>3. /\ future[t] = "loading" /\ future'[t] \in {"check", "write"}
          /\ verdict'[t] # "none" /\ status'[t] = status[t]
      BY <1>1, <1>3, <2>1 DEF LoadEnds, taskVars
    <2> QED BY <1>3, <2>2, <2>3, LoadStep DEF LoadEnds, taskVars
  <1>4. CASE LoadFails(t)
    <2>1. /\ future' \in [Task -> Future] /\ verdict' \in [Task -> Verdicts]
          /\ status' \in [Task -> Status] /\ others
      BY <1>1, <1>4 DEF LoadFails, FailVerdict, taskVars, Future
    <2>2. /\ future[t] = "loading" /\ future'[t] \in {"check", "write"}
          /\ verdict'[t] # "none" /\ status'[t] = status[t]
      BY <1>1, <1>4 DEF LoadFails, FailVerdict, taskVars
    <2> QED BY <1>4, <2>1, <2>2, LoadStep DEF LoadFails, taskVars
  <1>7. CASE LoadRaises(t)
    <2>1. /\ future' \in [Task -> Future] /\ verdict' \in [Task -> Verdicts]
          /\ status' \in [Task -> Status] /\ others
      BY <1>1, <1>7 DEF LoadRaises, taskVars, Future
    <2>2. future[t] = "loading" /\ future'[t] = "raised" /\ status'[t] = status[t]
      BY <1>1, <1>7 DEF LoadRaises, taskVars
    <2> QED BY <1>7, <2>1, <2>2, LoadStep DEF LoadRaises, taskVars
  <1>5. CASE Check(t)
    <2>1. /\ future' \in [Task -> Future] /\ verdict' \in [Task -> Verdicts]
          /\ status' \in [Task -> Status] /\ others
      BY <1>1, <1>5 DEF Check, taskVars, Future
    <2>2. future[t] = "check" /\ status'[t] = status[t]
      BY <1>5 DEF Check, taskVars
    <2>3. MaySettle(t) => future'[t] = "write" /\ verdict'[t] # "none"
      BY <1>1, <1>5 DEF Check, IInv, Decided
    <2>4. ~MaySettle(t) => future'[t] = "done" /\ status[t] \notin Unsettled
      BY <1>1, <1>5, <2>2, Loading DEF Check, MaySettle, Unsettled
    <2> QED BY <1>5, <2>1, <2>2, <2>3, <2>4, LoadStep DEF Check, taskVars
  <1>6. CASE Write(t)
    <2>1. /\ future[t] = "write" /\ verdict[t] \in {"completed", "failed", "wasted", "cancelled"}
      BY <1>6 DEF Write, IInv, Decided
    <2>2. /\ future' \in [Task -> Future] /\ verdict' \in [Task -> Verdicts]
          /\ status' \in [Task -> Status] /\ others
      BY <1>1, <1>6, <2>1 DEF Write, SetStatus, Future, Status
    <2>3. future'[t] = "done" /\ status'[t] \notin Unsettled
      BY <1>1, <1>6, <2>1 DEF Write, SetStatus, Unsettled
    <2> QED BY <1>6, <2>1, <2>2, <2>3, LoadStep DEF Write
  <1> QED BY <1>2, <1>3, <1>4, <1>5, <1>6, <1>7 DEF Pool

LEMMA WaiterIInv ==
  ASSUME IInv, NEW t \in Task, Waiter(t)
  PROVE  IInv'
  <1> USE DEF IInv, schedVars, taskVars, execVars
  <1>0. \A c \in Caller : call[c].pc \in Starting =>
            call[c].task \in Task /\ call[c].task # t
    <2>1. waiter[t] # "none"
      BY DEF Waiter, StopPolling, Report
    <2>2. \A c \in Caller : call[c].pc \in Starting => waiter[call[c].task] = "none"
      BY DEF Unstarted
    <2>3. \A c \in Caller : call[c].pc \in Starting => call[c].task \in Task
      <3> HIDE DEF IInv
      <3> QED BY InHand DEF Starting
    <2> QED BY <2>1, <2>2, <2>3
  <1>1. CASE StopPolling(t)
    <2>1. PICK w \in {"reporting", "done"} :
            waiter' = [waiter EXCEPT ![t] = w] /\ (w = "reporting" => status[t] \notin Unsettled)
      BY <1>1 DEF StopPolling, Reportable
    <2>2. waiter[t] # "none" /\ UNCHANGED <<schedVars, taskVars, call, execVars, report, ledger, landed>>
      BY <1>1 DEF StopPolling
    <2>3. TypeOK' /\ TaskInHand'
      BY <2>1, <2>2 DEF TypeOK, TaskInHand
    <2>4. Fresh'
      BY <2>1, <2>2 DEF Fresh, TypeOK
    <2>5. Unstarted'
      BY <1>0, <2>1, <2>2 DEF Unstarted, TypeOK
    <2>6. Begun' /\ Decided' /\ SettledWhenDone'
      BY <2>2 DEF Begun, Decided, SettledWhenDone
    <2>7. ReportingSettled' /\ ReportIsFinal'
      BY <2>1, <2>2 DEF ReportingSettled, ReportIsFinal, TypeOK
    <2> QED BY <2>3, <2>4, <2>5, <2>6, <2>7
  <1>2. CASE Report(t)
    <2>1. PICK s \in Status :
            /\ s = "failed" \/ s = status[t]
            /\ status' = [status EXCEPT ![t] = s]
            /\ report' = [report EXCEPT ![t] = s]
      <3>1. status[t] \in Status /\ "failed" \in Status
        BY DEF TypeOK, Status
      <3>2. CASE KindOf(t) = "simulated" /\ future[t] = "dropped"
        BY <1>2, <3>1, <3>2 DEF Report, SetStatus
      <3>3. CASE ~(KindOf(t) = "simulated" /\ future[t] = "dropped")
        BY <1>2, <3>1, <3>3 DEF Report, SetStatus
      <3> QED BY <3>2, <3>3
    <2>2. /\ waiter[t] = "reporting" /\ waiter' = [waiter EXCEPT ![t] = "done"]
          /\ UNCHANGED <<schedVars, res, ckpt, call, execVars, ledger, landed>>
      BY <1>2 DEF Report
    <2>3. s \notin Unsettled /\ s # "pending"
      BY <2>1, <2>2 DEF ReportingSettled, Unsettled
    <2>4. TypeOK' /\ TaskInHand'
      BY <2>1, <2>2 DEF TypeOK, TaskInHand
    <2>5. Fresh'
      BY <2>1, <2>2 DEF Fresh, TypeOK
    <2>6. Unstarted'
      BY <1>0, <2>2 DEF Unstarted, TypeOK
    <2>7. Begun'
      BY <1>0, <2>1, <2>2, <2>3 DEF Begun, Starting, TypeOK
    <2>8. Decided' /\ SettledWhenDone'
      BY <2>1, <2>2, <2>3 DEF Decided, SettledWhenDone, TypeOK
    <2>9. ReportingSettled' /\ ReportIsFinal'
      BY <2>1, <2>2, <2>3 DEF ReportingSettled, ReportIsFinal, TypeOK
    <2> QED BY <2>4, <2>5, <2>6, <2>7, <2>8, <2>9
  <1> QED BY <1>1, <1>2 DEF Waiter

-------------------------------------------------------------------------------
(* The inductive invariant and its consequences.                           *)

LEMMA StutterIInv == IInv /\ UNCHANGED vars => IInv'
  BY DEF IInv, TypeOK, TaskInHand, Fresh, Unstarted, Begun, Decided, SettledWhenDone,
     ReportingSettled, ReportIsFinal, vars, schedVars, taskVars, execVars, traceVars

LEMMA NextIInv == IInv /\ [Next]_vars => IInv'
  <1> SUFFICES ASSUME IInv, [Next]_vars
               PROVE  IInv'
    OBVIOUS
  <1>1. ASSUME NEW c \in Caller,
               \/ \E r \in Resource, k \in Checkpoint : ScheduleCall(c, r, k)
               \/ \E k \in Checkpoint : CancelCall(c, k)
               \/ \E r \in Resource : ConsumeCall(c, r)
        PROVE  IInv'
    BY <1>1, CallsIInv
  <1>2. ASSUME NEW c \in Caller, CallerStep(c)
        PROVE  IInv'
    BY <1>2, RegisterIInv, StartIInv, ReadsIInv, CancelIInv, SettlesIInv DEF CallerStep
  <1>3. ASSUME NEW t \in Task, Pool(t) \/ Waiter(t)
        PROVE  IInv'
    BY <1>3, PoolIInv, WaiterIInv
  <1>4. CASE Next
    BY <1>1, <1>2, <1>3, <1>4 DEF Next
  <1> QED BY <1>4, StutterIInv

\* Every reachable state of the scheduler satisfies the inductive invariant.
THEOREM Inductive == Spec => []IInv
  <1> QED BY InitIInv, NextIInv, PTL DEF Spec

\* The variables of scheduler, executors, callers and waiters keep their types,
\* whatever the number of threads and tasks.
THEOREM TypeCorrect == Spec => []TypeOK
  <1>1. IInv => TypeOK
    BY DEF IInv
  <1> QED BY <1>1, Inductive, PTL

\* When a load function has returned, its task is neither PENDING nor
\* IN_PROGRESS, although caller, load and waiter write the status without a
\* lock: _wait_for_completion (scheduler.py:135-140) does report it.
THEOREM Settled == Spec => []SettledWhenDone
  <1>1. IInv => SettledWhenDone
    BY DEF IInv
  <1> QED BY <1>1, Inductive, PTL

\* prefetch_completed never carries the status of an unfinished prefetch, even
\* when the waiter gives up after its deadline.
THEOREM ReportFinal == Spec => []ReportIsFinal
  <1>1. IInv => ReportIsFinal
    BY DEF IInv
  <1> QED BY <1>1, Inductive, PTL

-------------------------------------------------------------------------------
(* What a cancellation achieves, for every number of callers; and what the *)
(* scheduler promises an adapter that calls it from one thread at a time:  *)
(* the deduplication, the accounting of used and wasted prefetches, and    *)
(* the contract of ResourceSlots.                                          *)

-------------------------------------------------------------------------------
(* Every number of callers.                                                *)

\* A registered task is about a resource.
Registered ==
    /\ \A t \in 1..ntasks : res[t] \in Resource
    /\ \A c \in Caller : call[c].pc = "register" => call[c].res \in Resource

\* A status COMPLETED is the work of a load function that has returned.
CompletedDone == \A t \in Task : status[t] = "completed" => future[t] = "done"

\* The model executor never assigns CANCELLED in cancel().
AnnulNotModel == \A c \in Caller : call[c].pc = "annul" => KindOf(call[c].task) # "model"

\* What a cancellation that landed leaves behind, until the load is over: the
\* model executor is told and decides on WASTED or FAILED; the test before the
\* others assign COMPLETED fails, as nothing puts the task back in progress.
Revoked(t) ==
    /\ future[t] # "none"
    /\ KindOf(t) = "model" => /\ t \in told
                              /\ future[t] \in {"check", "write"} => verdict[t] # "completed"
    /\ KindOf(t) \notin {"model", "mace"} => /\ status[t] # "in_progress"
                                             /\ future[t] = "write" => verdict[t] # "completed"
    /\ KindOf(t) # "mace" => status[t] # "completed"

LandedKept == \A t \in landed : Revoked(t)

RInv == IInv /\ Registered /\ CompletedDone /\ AnnulNotModel /\ LandedKept

\* A task that a step does not bring back stays revoked.
LEMMA StillRevoked ==
  ASSUME NEW CONSTANT t, Revoked(t),
         res'[t] = res[t], t \in told => t \in told',
         future'[t] = future[t], verdict'[t] = verdict[t],
         status'[t] = status[t] \/ status'[t] \notin {"completed", "in_progress"}
  PROVE  Revoked(t)'
  BY DEF Revoked, KindOf, Kind

\* The fields of a caller that goes on to program counter p.
LEMMA PcStep ==
  ASSUME TypeOK, NEW c \in Caller, NEW p \in PC, Goto(c, p)
  PROVE  /\ call'[c].pc = p /\ call'[c].task = call[c].task /\ call'[c].res = call[c].res
         /\ call'[c].completed = call[c].completed
         /\ \A d \in Caller : d # c => call'[d] = call[d]
  <1> DEFINE x == [call[c] EXCEPT !.pc = p]
  <1>1. call[c] \in CallRecord
    BY DEF TypeOK
  <1>2. x \in CallRecord /\ x.pc = p /\ x.task = call[c].task /\ x.res = call[c].res
        /\ x.completed = call[c].completed
    BY <1>1 DEF CallRecord
  <1>3. call' = [call EXCEPT ![c] = x]
    BY DEF Goto
  <1> HIDE DEF x
  <1>4. call \in [Caller -> CallRecord]
    BY DEF TypeOK
  <1> QED BY <1>2, <1>3, <1>4, CallNewType

LEMMA ReturnStep ==
  ASSUME TypeOK, NEW c \in Caller, Return(c)
  PROVE  call'[c].pc = "idle" /\ \A d \in Caller : d # c => call'[d] = call[d]
  BY IdleType, CallNewType DEF TypeOK, Return, Idle, Frame

\* Steps that change nothing but the local variables of a caller.
Reads(c) ==
    \/ \E r \in Resource, k \in Checkpoint : ScheduleCall(c, r, k)
    \/ \E k \in Checkpoint : CancelCall(c, k)
    \/ \E r \in Resource : ConsumeCall(c, r)
    \/ Visit(c) \/ Sample(c) \/ Judge(c)

\* What such a step does to the caller.
LEMMA ReadsStep ==
  ASSUME IInv, NEW c \in Caller, Reads(c)
  PROVE  /\ UNCHANGED <<schedVars, taskVars, execVars, traceVars>>
         /\ \A d \in Caller : d # c => call'[d] = call[d]
         /\ \/ \E r \in Resource : /\ call'[c].pc = "register" /\ call'[c].res = r
                                   /\ call[c].pc = "idle" /\ ~Duplicate(r)
            \/ call'[c].pc \in {"idle", "visit", "judge"}
            \/ /\ call'[c].pc = "sample" /\ call[c].pc = "visit"
               /\ call'[c].task \in Task /\ status[call'[c].task] \in Cancellable
            \/ /\ call'[c].pc = "cancel" /\ call[c].pc = "sample"
               /\ call'[c].task = call[c].task
               /\ call'[c].completed => status[call[c].task] = "completed"
            \/ /\ call'[c].pc = "use" /\ call[c].pc = "judge"
               /\ call'[c].task = call[c].task
               /\ status[call[c].task] \notin NoPrefetch
         /\ call[c].pc \in {"idle", "visit", "sample", "judge"}
  <1> USE CallFields DEF IInv
  <1>1. ASSUME NEW r \in Resource, NEW k \in Checkpoint, ScheduleCall(c, r, k)
        PROVE  /\ call'[c].pc = "register" /\ call'[c].res = r
               /\ \A d \in Caller : d # c => call'[d] = call[d]
    <2>1. Frame("register", r, k, 0, {}) \in CallRecord
      BY FrameType, ConstantsOK DEF PC
    <2> QED BY <1>1, <2>1, CallNewType DEF ScheduleCall, Frame
  <1>2. ASSUME NEW k \in Checkpoint, CancelCall(c, k)
        PROVE  call'[c].pc = "visit" /\ \A d \in Caller : d # c => call'[d] = call[d]
    <2>1. call' = [call EXCEPT ![c] = Frame("visit", None, None, 0, {t \in 1..ntasks : ckpt[t] = k})]
      BY <1>2 DEF CancelCall
    <2> QED BY <2>1 DEF Frame, TypeOK
  <1>3. ASSUME NEW r \in Resource, ConsumeCall(c, r)
        PROVE  call'[c].pc = "judge" /\ \A d \in Caller : d # c => call'[d] = call[d]
    BY <1>3 DEF ConsumeCall, Frame, TypeOK
  <1>4. CASE Visit(c)
    <2>1. PICK t \in call[c].todo :
            IF status[t] \in Cancellable
            THEN call' = [call EXCEPT ![c].task = t, ![c].pc = "sample"]
            ELSE Advance(c, t)
      BY <1>4 DEF Visit
    <2>2. t \in Task
      BY <1>4 DEF Visit
    <2>3. CASE status[t] \in Cancellable
      <3>1. call'[c].pc = "sample" /\ call'[c].task = t /\ \A d \in Caller : d # c => call'[d] = call[d]
        BY <2>1, <2>3 DEF TypeOK, CallRecord
      <3> QED BY <1>4, <2>2, <2>3, <3>1 DEF Visit, At
    <2>4. CASE status[t] \notin Cancellable
      <3>1. call'[c].pc \in {"idle", "visit"} /\ \A d \in Caller : d # c => call'[d] = call[d]
        BY <2>1, <2>4 DEF Advance, Idle, Frame, TypeOK
      <3> QED BY <1>4, <3>1 DEF Visit, At
    <2> QED BY <2>3, <2>4
  <1>5. CASE Sample(c)
    <2> DEFINE b == status[call[c].task] = "completed"
    <2>1. call' = [call EXCEPT ![c].pc = "cancel", ![c].completed = b]
      BY <1>5 DEF Sample
    <2>2. /\ call'[c].pc = "cancel" /\ call'[c].task = call[c].task /\ call'[c].completed = b
          /\ \A d \in Caller : d # c => call'[d] = call[d]
      <3> HIDE DEF b
      <3> QED BY <2>1 DEF TypeOK, CallRecord
    <2> QED BY <1>5, <2>2 DEF Sample, At
  <1>6. CASE Judge(c)
    <2>1. CASE status[call[c].task] \in NoPrefetch
      BY <1>6, <2>1, ReturnStep DEF Judge, At
    <2>2. CASE status[call[c].task] \notin NoPrefetch
      BY <1>6, <2>2, PcStep DEF Judge, At, PC
    <2> QED BY <2>1, <2>2
  <1>7. ASSUME NEW r \in Resource, NEW k \in Checkpoint, ScheduleCall(c, r, k)
        PROVE  /\ UNCHANGED <<schedVars, taskVars, execVars, traceVars>>
               /\ call[c].pc = "idle" /\ ~Duplicate(r)
    BY <1>7 DEF ScheduleCall, At
  <1>8. ASSUME (\E k \in Checkpoint : CancelCall(c, k)) \/ (\E r \in Resource : ConsumeCall(c, r))
        PROVE  UNCHANGED <<schedVars, taskVars, execVars, traceVars>> /\ call[c].pc = "idle"
    BY <1>8 DEF CancelCall, ConsumeCall, At
  <1> QED BY <1>1, <1>2, <1>3, <1>4, <1>5, <1>6, <1>7, <1>8 DEF Reads

LEMMA InitRInv == Init => RInv
  <1> SUFFICES ASSUME Init
               PROVE  RInv
    OBVIOUS
  <1>1. IInv
    BY InitIInv
  <1>2. \A c \in Caller : call[c].pc = "idle"
    BY DEF Init, Idle, Frame
  <1>3. Registered /\ CompletedDone /\ AnnulNotModel /\ LandedKept
    BY <1>2 DEF Init, Registered, CompletedDone, AnnulNotModel, LandedKept
  <1> QED BY <1>1, <1>3 DEF RInv

\* Nothing landed on a task without a future.
LEMMA NotLanded ==
  ASSUME RInv, NEW t \in Task, future[t] = "none"
  PROVE  t \notin landed /\ status[t] # "completed"
  BY DEF RInv, LandedKept, Revoked, CompletedDone

\* A step that touches task t and no other, in its status, future and verdict.
LEMMA RevokeStep ==
  ASSUME RInv, IInv', NEW CONSTANT t \in Task,
         UNCHANGED schedVars, UNCHANGED res, told \subseteq told', landed' \subseteq landed \cup {t},
         \A u \in Task : u # t => /\ status'[u] = status[u] /\ future'[u] = future[u]
                                  /\ verdict'[u] = verdict[u],
         status'[t] = "completed" => future'[t] = "done",
         t \in landed' => Revoked(t)',
         \A c \in Caller : call'[c].pc = "register" => call[c] = call'[c],
         \A c \in Caller : call'[c].pc = "annul" => KindOf(call'[c].task) # "model"
  PROVE  RInv'
  <1> USE DEF schedVars
  <1>1. Registered'
    BY DEF RInv, Registered
  <1>2. CompletedDone'
    BY DEF RInv, CompletedDone
  <1>3. AnnulNotModel'
    BY DEF AnnulNotModel, KindOf, Kind
  <1>4. LandedKept'
    <2> SUFFICES ASSUME NEW u \in landed', u # t
                 PROVE  Revoked(u)'
      BY DEF LandedKept
    <2>1. u \in landed /\ u \in Task /\ Revoked(u)
      BY DEF RInv, LandedKept, IInv, TypeOK
    <2> QED BY <2>1, StillRevoked
  <1> QED BY <1>1, <1>2, <1>3, <1>4 DEF RInv

LEMMA ReadsRInv ==
  ASSUME RInv, NEW c \in Caller, Reads(c)
  PROVE  RInv'
  <1>1. IInv'
    BY CallsIInv, ReadsIInv DEF RInv, Reads
  <1>2. /\ UNCHANGED <<schedVars, taskVars, execVars, traceVars>>
        /\ \A d \in Caller : d # c => call'[d] = call[d]
        /\ call'[c].pc # "annul" /\ (call'[c].pc = "register" => call'[c].res \in Resource)
    BY ReadsStep DEF RInv
  <1>3. Registered' /\ CompletedDone'
    BY <1>2 DEF RInv, Registered, CompletedDone, schedVars, taskVars, execVars
  <1>4. AnnulNotModel'
    BY <1>2 DEF RInv, AnnulNotModel, KindOf, Kind, taskVars
  <1>5. LandedKept'
    BY <1>2 DEF RInv, LandedKept, Revoked, KindOf, Kind, taskVars, execVars, traceVars
  <1> QED BY <1>1, <1>3, <1>4, <1>5 DEF RInv

\* The new task is the first that nothing has happened to.
LEMMA RegisterStep ==
  ASSUME IInv, NEW c \in Caller, Register(c)
  PROVE  LET n == ntasks + 1
             r == call[c].res
         IN  /\ n \in Task /\ ntasks' = n /\ future[n] = "none" /\ status[n] = "none"
             /\ \A u \in 1..ntasks : u # n
             /\ \A u \in 1..n : u # n => u \in 1..ntasks
             /\ taskOf' = [taskOf EXCEPT ![r] = n]
             /\ status' = [status EXCEPT ![n] = "pending"] /\ res' = [res EXCEPT ![n] = r]
             /\ call'[c].pc \in {"route", "begin"} /\ call'[c].task = n /\ call'[c].res = r
             /\ \A d \in Caller : d # c => call'[d] = call[d]
             /\ call[c].pc = "register"
             /\ UNCHANGED <<execVars, traceVars>>
  <1> DEFINE n == ntasks + 1
  <1>1. n \in Task /\ ntasks < n /\ ntasks \in Nat
    BY ConstantsOK DEF IInv, TypeOK, Register, Task
  <1>2. future[n] = "none" /\ status[n] = "none"
    BY <1>1 DEF IInv, Fresh
  <1>3. /\ call'[c].pc \in {"route", "begin"} /\ call'[c].task = n /\ call'[c].res = call[c].res
        /\ \A d \in Caller : d # c => call'[d] = call[d]
    <2>1. PICK p \in {"route", "begin"} : call' = [call EXCEPT ![c].task = n, ![c].pc = p]
      BY DEF Register
    <2> HIDE DEF n
    <2> QED BY <2>1 DEF IInv, TypeOK, CallRecord
  <1>4. /\ ntasks' = n /\ taskOf' = [taskOf EXCEPT ![call[c].res] = n]
        /\ status' = [status EXCEPT ![n] = "pending"] /\ res' = [res EXCEPT ![n] = call[c].res]
        /\ call[c].pc = "register" /\ UNCHANGED <<execVars, traceVars>>
    BY DEF Register, SetStatus, At
  <1>5. (\A u \in 1..ntasks : u # n) /\ (\A u \in 1..n : u # n => u \in 1..ntasks)
    BY <1>1
  <1> QED BY <1>1, <1>2, <1>3, <1>4, <1>5

LEMMA RegisterRInv ==
  ASSUME RInv, NEW c \in Caller, Register(c)
  PROVE  RInv'
  <1>1. IInv'
    BY RegisterIInv DEF RInv
  <1>2. PICK n \in Task : n = ntasks + 1
    BY RegisterStep DEF RInv
  <1> DEFINE r == call[c].res
  <1>3. /\ ntasks' = n /\ future[n] = "none"
        /\ \A u \in 1..n : u # n => u \in 1..ntasks
        /\ status' = [status EXCEPT ![n] = "pending"] /\ res' = [res EXCEPT ![n] = r]
        /\ call'[c].pc \in {"route", "begin"} /\ \A d \in Caller : d # c => call'[d] = call[d]
        /\ UNCHANGED <<execVars, traceVars>> /\ r \in Resource
    BY <1>2, RegisterStep DEF RInv, Registered
  <1>4. status \in [Task -> Status] /\ res \in [Task -> Resource \cup {None}] /\ 1..ntasks \subseteq Task
    BY ConstantsOK DEF RInv, IInv, TypeOK, Task
  <1>5. \A u \in Task : u # n => status'[u] = status[u] /\ res'[u] = res[u]
    BY <1>3, <1>4
  <1>6. status'[n] = "pending" /\ res'[n] = r
    BY <1>3, <1>4
  <1> HIDE DEF r
  <1>7. Registered'
    BY <1>3, <1>4, <1>5, <1>6 DEF RInv, Registered
  <1>8. CompletedDone'
    BY <1>3, <1>5, <1>6 DEF RInv, CompletedDone, execVars
  <1>9. AnnulNotModel'
    <2> SUFFICES ASSUME NEW d \in Caller, call'[d].pc = "annul"
                 PROVE  KindOf(call[d].task)' # "model"
      BY <1>3 DEF AnnulNotModel
    <2>1. d # c /\ call'[d] = call[d] /\ call[d].pc = "annul"
      BY <1>3
    <2>2. call[d].task \in 1..ntasks /\ call[d].task \in Task
      BY <2>1, InHand DEF RInv
    <2>3. call[d].task # n
      BY <1>2, RegisterStep, <2>2 DEF RInv
    <2> QED BY <1>5, <2>1, <2>2, <2>3 DEF RInv, AnnulNotModel, KindOf, Kind
  <1>10. LandedKept'
    <2> SUFFICES ASSUME NEW u \in landed
                 PROVE  Revoked(u)'
      BY <1>3 DEF LandedKept, traceVars
    <2>1. u \in Task /\ Revoked(u) /\ u # n
      BY <1>3, NotLanded DEF RInv, LandedKept, IInv, TypeOK
    <2> QED BY <1>3, <1>5, <2>1, StillRevoked DEF execVars
  <1> QED BY <1>1, <1>7, <1>8, <1>9, <1>10 DEF RInv

\* What start() does after the registration, to the task in hand.
LEMMA StartStep ==
  ASSUME IInv, NEW c \in Caller, Route(c) \/ Begin(c) \/ Submit(c) \/ Track(c)
  PROVE  LET t == call[c].task
         IN  /\ t \in Task /\ t \in 1..ntasks
             /\ call[c].pc \in Starting /\ (~Track(c) => future[t] = "none")
             /\ UNCHANGED <<schedVars, res, ckpt, told, verdict, report, landed>>
             /\ \/ UNCHANGED status
                \/ /\ call[c].pc = "begin"
                   /\ \E s \in {"in_progress", "failed"} : status' = [status EXCEPT ![t] = s]
             /\ (Route(c) \/ Submit(c) \/ Track(c)) => UNCHANGED status
             /\ Begin(c) => \E s \in {"in_progress", "failed"} : status' = [status EXCEPT ![t] = s]
             /\ \/ UNCHANGED future
                \/ call[c].pc = "submit" /\ future' = [future EXCEPT ![t] = "queued"]
             /\ \/ UNCHANGED ledger
                \/ call'[c].pc = "idle" /\ ledger' = [ledger EXCEPT ![t] = @ \cup {"started"}]
             /\ \A d \in Caller : d # c => call'[d] = call[d]
             /\ \/ call'[c].pc = "idle"
                \/ /\ call'[c].pc \in Starting /\ call'[c].task = t /\ call'[c].res = call[c].res
                   /\ \/ call'[c].pc = "begin" /\ call[c].pc = "route" /\ UNCHANGED status
                      \/ call'[c].pc \in {"submit", "track"}
  <1> USE DEF schedVars, taskVars
  <1> DEFINE t == call[c].task
  <1>1. TypeOK
    BY DEF IInv
  <1>2. call[c].pc \in Starting
    BY DEF Route, Begin, Submit, Track, At, Starting
  <1>3. t \in Task /\ t \in 1..ntasks
    BY <1>2, InHand DEF Starting
  <1>4. ~Track(c) => future[t] = "none"
    BY <1>2 DEF Route, Begin, Submit, Track, At, IInv, Unstarted
  <1>5. CASE Route(c)
    <2>1. /\ UNCHANGED <<schedVars, taskVars, future, told, verdict, traceVars>>
          /\ call[c].pc = "route" /\ Goto(c, "begin")
      BY <1>5 DEF Route, At
    <2>2. ~Begin(c)
      BY <2>1 DEF Begin, At
    <2> QED BY <1>1, <1>2, <1>3, <1>4, <2>1, <2>2, PcStep DEF PC, Starting, traceVars
  <1>6. CASE Begin(c)
    <2>1. \E s \in {"in_progress", "failed"} : status' = [status EXCEPT ![t] = s]
      BY <1>6 DEF Begin, SetStatus
    <2>2. \E p \in {"submit", "track"} : Goto(c, p)
      BY <1>6 DEF Begin
    <2>3. /\ UNCHANGED <<schedVars, res, ckpt, execVars, traceVars>> /\ call[c].pc = "begin"
      BY <1>6 DEF Begin, At
    <2>4. ~Route(c) /\ ~Submit(c) /\ ~Track(c)
      BY <2>3 DEF Route, Submit, Track, At
    <2> QED BY <1>1, <1>2, <1>3, <1>4, <2>1, <2>2, <2>3, <2>4, PcStep DEF PC, Starting, execVars, traceVars
  <1>7. CASE Submit(c)
    <2>1. /\ UNCHANGED <<schedVars, taskVars, told, verdict, traceVars>>
          /\ call[c].pc = "submit" /\ Goto(c, "track")
          /\ future' = [future EXCEPT ![t] = "queued"]
      BY <1>7 DEF Submit, At
    <2>2. ~Begin(c)
      BY <2>1 DEF Begin, At
    <2> QED BY <1>1, <1>2, <1>3, <1>4, <2>1, <2>2, PcStep DEF PC, Starting, traceVars
  <1>8. CASE Track(c)
    <2>1. /\ UNCHANGED <<schedVars, taskVars, future, told, verdict, report, landed>>
          /\ call[c].pc = "track" /\ Return(c)
          /\ ledger' = [ledger EXCEPT ![t] = @ \cup {"started"}]
      BY <1>8 DEF Track, At, Note
    <2>2. ~Begin(c)
      BY <2>1 DEF Begin, At
    <2> QED BY <1>1, <1>2, <1>3, <1>4, <2>1, <2>2, ReturnStep
  <1> QED BY <1>5, <1>6, <1>7, <1>8

LEMMA StartRInv ==
  ASSUME RInv, NEW c \in Caller, Route(c) \/ Begin(c) \/ Submit(c) \/ Track(c)
  PROVE  RInv'
  <1>1. IInv'
    BY StartIInv DEF RInv
  <1>2. PICK t \in Task : t = call[c].task
    BY StartStep DEF RInv
  <1>3. /\ UNCHANGED <<schedVars, res, told, verdict, landed>>
        /\ UNCHANGED status \/ \E s \in {"in_progress", "failed"} : status' = [status EXCEPT ![t] = s]
        /\ UNCHANGED future \/ future' = [future EXCEPT ![t] = "queued"]
        /\ \A d \in Caller : d # c => call'[d] = call[d]
        /\ call'[c].pc \notin {"annul", "register"}
    BY <1>2, StartStep DEF RInv, Starting
  <1>4. /\ future \in [Task -> Future] /\ status \in [Task -> Status]
    BY DEF RInv, IInv, TypeOK
  <1>5. CASE Track(c)
    <2>1. UNCHANGED <<status, future>>
      BY <1>5 DEF Track, taskVars
    <2> QED BY <1>1, <1>2, <1>3, <2>1, RevokeStep DEF RInv, AnnulNotModel, CompletedDone, LandedKept, Revoked, KindOf, Kind
  <1>6. CASE ~Track(c)
    <2>1. future[t] = "none"
      BY <1>2, <1>6, StartStep DEF RInv
    <2>2. t \notin landed /\ status[t] # "completed"
      BY <2>1, NotLanded
    <2>3. status'[t] # "completed" /\ \A u \in Task : u # t => status'[u] = status[u] /\ future'[u] = future[u]
      BY <1>3, <1>4, <2>2
    <2>4. \A d \in Caller : call'[d].pc = "annul" => KindOf(call'[d].task) # "model"
      BY <1>3 DEF RInv, AnnulNotModel
    <2>5. \A d \in Caller : call'[d].pc = "register" => call'[d] = call[d]
      BY <1>3
    <2> QED BY <1>1, <1>3, <2>2, <2>3, <2>4, <2>5, RevokeStep
  <1> QED BY <1>5, <1>6

\* What executor.cancel() does to the task in hand before it assigns a status.
LEMMA CancelStep ==
  ASSUME IInv, NEW c \in Caller, ExecCancel(c)
  PROVE  LET t == call[c].task
         IN  /\ t \in Task /\ t \in 1..ntasks /\ call[c].pc = "cancel"
             /\ UNCHANGED <<schedVars, taskVars, verdict, ledger>>
             /\ \/ UNCHANGED future
                \/ /\ KindOf(t) # "model" /\ future[t] = "queued"
                   /\ future' = [future EXCEPT ![t] = "dropped"]
             /\ told \subseteq told'
             /\ \/ UNCHANGED landed
                \/ /\ KindOf(t) = "model" /\ future[t] \in {"queued", "loading"}
                   /\ t \in told' /\ landed' = landed \cup {t}
             /\ call'[c].pc \in {"annul", "mark"} /\ call'[c].task = t
             /\ call'[c].pc = "annul" => KindOf(t) # "model"
             /\ call'[c].completed = call[c].completed
             /\ \A d \in Caller : d # c => call'[d] = call[d]
  <1> DEFINE t == call[c].task
  <1>1. call[c].pc = "cancel" /\ TypeOK
    BY DEF ExecCancel, At, IInv
  <1>2. t \in Task /\ t \in 1..ntasks
    BY <1>1, InHand
  <1>3. PICK p \in {"annul", "mark"} : Goto(c, p) /\ (p = "annul" => KindOf(t) # "model")
    BY DEF ExecCancel
  <1>4. /\ call'[c].pc = p /\ call'[c].task = t /\ call'[c].completed = call[c].completed
        /\ \A d \in Caller : d # c => call'[d] = call[d]
    BY <1>1, <1>3, PcStep DEF PC
  <1>5. UNCHANGED <<schedVars, taskVars, verdict, ledger>> /\ told \subseteq told'
    BY DEF ExecCancel
  <1>6. \/ UNCHANGED future
        \/ /\ KindOf(t) # "model" /\ future[t] = "queued"
           /\ future' = [future EXCEPT ![t] = "dropped"]
    BY DEF ExecCancel
  <1>7. \/ UNCHANGED landed
        \/ /\ KindOf(t) = "model" /\ future[t] \in {"queued", "loading"}
           /\ t \in told' /\ landed' = landed \cup {t}
    BY DEF ExecCancel
  <1> QED BY <1>1, <1>2, <1>3, <1>4, <1>5, <1>6, <1>7

LEMMA CancelRInv ==
  ASSUME RInv, NEW c \in Caller, ExecCancel(c)
  PROVE  RInv'
  <1>1. IInv'
    BY CancelIInv DEF RInv
  <1>2. PICK t \in Task : t = call[c].task
    BY CancelStep DEF RInv
  <1>3. /\ UNCHANGED <<schedVars, taskVars, verdict>> /\ told \subseteq told'
        /\ call'[c].pc \in {"annul", "mark"} /\ call'[c].task = t
        /\ call'[c].pc = "annul" => KindOf(t) # "model"
        /\ \A d \in Caller : d # c => call'[d] = call[d]
    BY <1>2, CancelStep DEF RInv
  <1>4. \/ UNCHANGED future
        \/ /\ KindOf(t) # "model" /\ future[t] = "queued"
           /\ future' = [future EXCEPT ![t] = "dropped"]
    BY <1>2, CancelStep DEF RInv
  <1>5. \/ UNCHANGED landed
        \/ /\ KindOf(t) = "model" /\ future[t] \in {"queued", "loading"}
           /\ t \in told' /\ landed' = landed \cup {t}
    BY <1>2, CancelStep DEF RInv
  <1>6. future \in [Task -> Future]
    BY DEF RInv, IInv, TypeOK
  <1>7. \A u \in Task : u # t => future'[u] = future[u]
    BY <1>4, <1>6
  <1>8. future'[t] = future[t] \/ (KindOf(t) # "model" /\ future[t] = "queued" /\ future'[t] = "dropped")
    BY <1>4, <1>6
  <1>9. status'[t] = "completed" => future'[t] = "done"
    BY <1>3, <1>8 DEF RInv, CompletedDone, taskVars
  <1>10. ASSUME t \in landed'
         PROVE  Revoked(t)'
    <2>1. CASE t \in landed
      BY <1>3, <1>8, <2>1 DEF RInv, LandedKept, Revoked, KindOf, Kind, taskVars
    <2>2. CASE t \notin landed
      <3>1. KindOf(t) = "model" /\ future[t] \in {"queued", "loading"} /\ t \in told'
        BY <1>5, <1>10, <2>2
      <3>2. status[t] # "completed"
        BY <3>1 DEF RInv, CompletedDone
      <3> QED BY <1>3, <1>8, <3>1, <3>2 DEF Revoked, KindOf, Kind, taskVars
    <2> QED BY <2>1, <2>2
  <1>11. \A d \in Caller : call'[d].pc = "annul" => KindOf(call'[d].task) # "model"
    BY <1>3 DEF RInv, AnnulNotModel
  <1>12. \A d \in Caller : call'[d].pc = "register" => call'[d] = call[d]
    BY <1>3
  <1> QED BY <1>1, <1>3, <1>5, <1>7, <1>9, <1>10, <1>11, <1>12, RevokeStep DEF taskVars

\* The three actions of a caller that assign a status after start().
LEMMA SettleStep ==
  ASSUME IInv, NEW c \in Caller, Annul(c) \/ Mark(c) \/ Use(c)
  PROVE  LET t == call[c].task
         IN  /\ t \in Task /\ t \in 1..ntasks
             /\ UNCHANGED <<schedVars, res, ckpt, execVars>>
             /\ \A d \in Caller : d # c => call'[d] = call[d]
             /\ \/ /\ call[c].pc = "annul" /\ status' = [status EXCEPT ![t] = "cancelled"]
                   /\ landed' = IF future[t] \in {"queued", "loading", "dropped"}
                                THEN landed \cup {t} ELSE landed
                   /\ UNCHANGED ledger
                   /\ call'[c].pc = "mark" /\ call'[c].task = t
                   /\ call'[c].completed = call[c].completed
                \/ /\ call[c].pc = "mark" /\ call'[c].pc \in {"idle", "visit"} /\ UNCHANGED landed
                   /\ \/ /\ call[c].completed /\ status' = [status EXCEPT ![t] = "wasted"]
                         /\ ledger' = [ledger EXCEPT ![t] = @ \cup {"cancelled_wasted"}]
                      \/ /\ ~call[c].completed /\ UNCHANGED status
                         /\ ledger' = [ledger EXCEPT ![t] = @ \cup {"cancelled"}]
                \/ /\ call[c].pc = "use" /\ call'[c].pc = "idle" /\ UNCHANGED landed
                   /\ status' = [status EXCEPT ![t] = "used"]
                   /\ \/ /\ future[t] \in {"queued", "loading", "check", "write"}
                         /\ ledger' = [ledger EXCEPT ![t] = @ \cup {"used_late"}]
                      \/ /\ future[t] \notin {"queued", "loading", "check", "write"}
                         /\ ledger' = [ledger EXCEPT ![t] = @ \cup {"used"}]
  <1> DEFINE t == call[c].task
  <1>1. TypeOK /\ call[c].pc \in {"annul", "mark", "use"}
    BY DEF IInv, Annul, Mark, Use, At
  <1>2. t \in Task /\ t \in 1..ntasks
    BY <1>1, InHand
  <1>3. UNCHANGED <<schedVars, res, ckpt, execVars>>
    BY DEF Annul, Mark, Use
  <1>4. CASE Annul(c)
    <2>1. Goto(c, "mark") /\ call[c].pc = "annul"
      BY <1>4 DEF Annul, At
    <2>2. /\ call'[c].pc = "mark" /\ call'[c].task = t /\ call'[c].completed = call[c].completed
          /\ \A d \in Caller : d # c => call'[d] = call[d]
      BY <1>1, <2>1, PcStep DEF PC
    <2>3. /\ status' = [status EXCEPT ![t] = "cancelled"] /\ UNCHANGED ledger
          /\ landed' = IF future[t] \in {"queued", "loading", "dropped"}
                       THEN landed \cup {t} ELSE landed
      BY <1>4 DEF Annul, SetStatus
    <2> QED BY <1>2, <1>3, <2>1, <2>2, <2>3
  <1>5. CASE Mark(c)
    <2>1. call[c].pc = "mark" /\ Advance(c, t) /\ UNCHANGED landed
      BY <1>5 DEF Mark, At
    <2>2. call'[c].pc \in {"idle", "visit"} /\ \A d \in Caller : d # c => call'[d] = call[d]
      BY <1>1, <2>1 DEF Advance, Idle, Frame, TypeOK
    <2>3. CASE call[c].completed
      <3>1. /\ status' = [status EXCEPT ![t] = "wasted"]
            /\ ledger' = [ledger EXCEPT ![t] = @ \cup {"cancelled_wasted"}]
        BY <1>5, <2>3 DEF Mark, SetStatus, Note
      <3> QED BY <1>2, <1>3, <2>1, <2>2, <2>3, <3>1
    <2>4. CASE ~call[c].completed
      <3>1. UNCHANGED status /\ ledger' = [ledger EXCEPT ![t] = @ \cup {"cancelled"}]
        BY <1>5, <2>4 DEF Mark, Note
      <3> QED BY <1>2, <1>3, <2>1, <2>2, <2>4, <3>1
    <2> QED BY <2>3, <2>4
  <1>6. CASE Use(c)
    <2>1. call[c].pc = "use" /\ Return(c) /\ UNCHANGED landed /\ status' = [status EXCEPT ![t] = "used"]
      BY <1>6 DEF Use, At, SetStatus
    <2>2. call'[c].pc = "idle" /\ \A d \in Caller : d # c => call'[d] = call[d]
      BY <1>1, <2>1, ReturnStep
    <2>3. \/ /\ future[t] \in {"queued", "loading", "check", "write"}
             /\ ledger' = [ledger EXCEPT ![t] = @ \cup {"used_late"}]
          \/ /\ future[t] \notin {"queued", "loading", "check", "write"}
             /\ ledger' = [ledger EXCEPT ![t] = @ \cup {"used"}]
      BY <1>6 DEF Use, Note
    <2> QED BY <1>2, <1>3, <2>1, <2>2, <2>3
  <1> QED BY <1>4, <1>5, <1>6

LEMMA SettleRInv ==
  ASSUME RInv, NEW c \in Caller, Annul(c) \/ Mark(c) \/ Use(c)
  PROVE  RInv'
  <1>1. IInv'
    BY SettlesIInv DEF RInv
  <1>2. PICK t \in Task : t = call[c].task
    BY SettleStep DEF RInv
  <1>3. /\ UNCHANGED <<schedVars, res, told, verdict, future>>
        /\ \A d \in Caller : d # c => call'[d] = call[d]
        /\ call'[c].pc \notin {"register", "annul"}
    BY <1>2, SettleStep DEF RInv, execVars
  <1>4. status \in [Task -> Status]
    BY DEF RInv, IInv, TypeOK
  <1>5. \/ \E s \in {"cancelled", "wasted", "used"} : status' = [status EXCEPT ![t] = s]
        \/ UNCHANGED status
    BY <1>2, SettleStep DEF RInv
  <1>6. (\A u \in Task : u # t => status'[u] = status[u])
        /\ (status'[t] = status[t] \/ status'[t] \in {"cancelled", "wasted", "used"})
    BY <1>4, <1>5
  <1>7. landed' = landed \/ (/\ landed' = landed \cup {t} /\ call[c].pc = "annul"
                             /\ future[t] \in {"queued", "loading", "dropped"}
                             /\ status' = [status EXCEPT ![t] = "cancelled"])
    BY <1>2, SettleStep DEF RInv
  <1>8. status'[t] = "completed" => future'[t] = "done"
    BY <1>3, <1>6 DEF RInv, CompletedDone
  <1>9. ASSUME t \in landed'
        PROVE  Revoked(t)'
    <2>1. CASE t \in landed
      BY <1>3, <1>6, <2>1 DEF RInv, LandedKept, Revoked, KindOf, Kind
    <2>2. CASE t \notin landed
      <3>1. /\ call[c].pc = "annul" /\ future[t] \in {"queued", "loading", "dropped"}
            /\ status'[t] = "cancelled"
        BY <1>4, <1>7, <1>9, <2>2
      <3>2. KindOf(t) # "model"
        BY <1>2, <3>1 DEF RInv, AnnulNotModel
      <3> QED BY <1>3, <3>1, <3>2 DEF Revoked, KindOf, Kind
    <2> QED BY <2>1, <2>2
  <1>10. \A d \in Caller : call'[d].pc = "annul" => KindOf(call'[d].task) # "model"
    BY <1>3 DEF RInv, AnnulNotModel
  <1>11. \A d \in Caller : call'[d].pc = "register" => call'[d] = call[d]
    BY <1>3
  <1> QED BY <1>1, <1>3, <1>6, <1>7, <1>8, <1>9, <1>10, <1>11, RevokeStep

\* What a step of a pool thread does to its task.
LEMMA PoolStep ==
  ASSUME IInv, NEW t \in Task, Pool(t)
  PROVE  /\ UNCHANGED <<schedVars, res, ckpt, call, told, traceVars>>
         /\ \A u \in Task : u # t => /\ status'[u] = status[u] /\ future'[u] = future[u]
                                     /\ verdict'[u] = verdict[u]
         /\ \/ /\ future[t] = "queued" /\ future'[t] = "loading" /\ status'[t] = status[t]
            \/ /\ future[t] = "loading" /\ status'[t] = status[t]
               /\ \/ /\ t \notin told /\ future'[t] = "check" /\ verdict'[t] = "completed"
                  \/ /\ t \in told /\ KindOf(t) = "model"
                     /\ future'[t] = "write" /\ verdict'[t] = "wasted"
                  \/ /\ t \in told /\ KindOf(t) # "model"
                     /\ future'[t] = "check" /\ verdict'[t] = "cancelled"
                  \/ future'[t] \in {"check", "write"} /\ verdict'[t] = "failed"
                  \/ future'[t] = "raised"
            \/ /\ future[t] = "check" /\ status'[t] = status[t]
               /\ \/ MaySettle(t) /\ future'[t] = "write" /\ verdict'[t] = verdict[t]
                  \/ ~MaySettle(t) /\ future'[t] = "done"
            \/ /\ future[t] = "write" /\ future'[t] = "done" /\ status'[t] = verdict[t]
               /\ verdict[t] \in {"completed", "failed", "wasted", "cancelled"}
  <1> DEFINE others == \A u \in Task : u # t => /\ status'[u] = status[u] /\ future'[u] = future[u]
                                                /\ verdict'[u] = verdict[u]
  <1>1. /\ status \in [Task -> Status] /\ future \in [Task -> Future]
        /\ verdict \in [Task -> {"none", "completed", "failed", "wasted", "cancelled"}]
    BY DEF IInv, TypeOK
  <1>2. UNCHANGED <<schedVars, res, ckpt, call, told, traceVars>>
    BY DEF Pool, LoadBegins, LoadEnds, LoadFails, LoadRaises, Check, Write, taskVars
  <1>3. CASE LoadBegins(t)
    <2>1. others /\ future[t] = "queued" /\ future'[t] = "loading" /\ status'[t] = status[t]
      BY <1>1, <1>3 DEF LoadBegins, taskVars
    <2> QED BY <1>2, <2>1
  <1>4. CASE LoadEnds(t)
    <2>1. others /\ future[t] = "loading" /\ status'[t] = status[t] /\ verdict'[t] = EndVerdict(t)
          /\ future'[t] = IF EndVerdict(t) = "wasted" THEN "write" ELSE "check"
      BY <1>1, <1>4 DEF LoadEnds, taskVars
    <2> QED BY <1>2, <2>1 DEF EndVerdict
  <1>5. CASE LoadFails(t)
    <2>1. others /\ future[t] = "loading" /\ status'[t] = status[t] /\ verdict'[t] = "failed"
          /\ future'[t] \in {"write", "check"}
      BY <1>1, <1>5 DEF LoadFails, taskVars, FailVerdict
    <2> QED BY <1>2, <2>1
  <1>6. CASE LoadRaises(t)
    <2>1. others /\ future[t] = "loading" /\ status'[t] = status[t] /\ future'[t] = "raised"
      BY <1>1, <1>6 DEF LoadRaises, taskVars
    <2> QED BY <1>2, <2>1
  <1>7. CASE Check(t)
    <2>1. others /\ future[t] = "check" /\ status'[t] = status[t]
      BY <1>1, <1>7 DEF Check, taskVars
    <2>2. \/ MaySettle(t) /\ future'[t] = "write" /\ verdict'[t] = verdict[t]
          \/ ~MaySettle(t) /\ future'[t] = "done"
      BY <1>1, <1>7 DEF Check
    <2> QED BY <1>2, <2>1, <2>2
  <1>8. CASE Write(t)
    <2>1. others /\ future[t] = "write" /\ future'[t] = "done" /\ status'[t] = verdict[t]
      BY <1>1, <1>8 DEF Write, SetStatus
    <2>2. verdict[t] \in {"completed", "failed", "wasted", "cancelled"}
      BY <2>1 DEF IInv, Decided
    <2> QED BY <1>2, <2>1, <2>2
  <1> QED BY <1>3, <1>4, <1>5, <1>6, <1>7, <1>8 DEF Pool

LEMMA PoolRInv ==
  ASSUME RInv, NEW t \in Task, Pool(t)
  PROVE  RInv'
  <1>1. IInv'
    BY PoolIInv DEF RInv
  <1>2. /\ UNCHANGED <<schedVars, res, ckpt, call, told, traceVars>>
        /\ \A u \in Task : u # t => /\ status'[u] = status[u] /\ future'[u] = future[u]
                                    /\ verdict'[u] = verdict[u]
    BY PoolStep DEF RInv
  <1>3. status'[t] = "completed" => future'[t] = "done"
    <2>1. future[t] # "done" => status[t] # "completed"
      BY DEF RInv, CompletedDone
    <2> QED BY <2>1, PoolStep DEF RInv
  <1>4. ASSUME t \in landed
        PROVE  Revoked(t)'
    <2>1. Revoked(t)
      BY <1>4 DEF RInv, LandedKept
    <2>2. CASE future[t] \in {"queued", "loading"}
      BY <1>2, <2>1, <2>2, PoolStep DEF RInv, Revoked, KindOf, Kind
    <2>3. CASE future[t] = "check"
      BY <1>2, <2>1, <2>3, PoolStep DEF RInv, Revoked, KindOf, Kind, MaySettle
    <2>4. CASE future[t] = "write"
      BY <1>2, <2>1, <2>4, PoolStep DEF RInv, Revoked, KindOf, Kind
    <2> QED BY <2>2, <2>3, <2>4, PoolStep DEF RInv
  <1>5. \A d \in Caller : call'[d].pc = "annul" => KindOf(call'[d].task) # "model"
    BY <1>2 DEF RInv, AnnulNotModel
  <1> QED BY <1>1, <1>2, <1>3, <1>4, <1>5, RevokeStep DEF traceVars

\* What a step of a waiter does to its task.
LEMMA WaiterStep ==
  ASSUME IInv, NEW t \in Task, Waiter(t)
  PROVE  /\ UNCHANGED <<schedVars, res, ckpt, call, execVars, ledger, landed>>
         /\ \A u \in Task : u # t => status'[u] = status[u]
         /\ \/ status'[t] = status[t]
            \/ /\ KindOf(t) = "simulated" /\ future[t] = "dropped"
               /\ waiter[t] = "reporting" /\ status'[t] = "failed"
  <1>1. status \in [Task -> Status]
    BY DEF IInv, TypeOK
  <1>2. CASE StopPolling(t)
    BY <1>2 DEF StopPolling, taskVars
  <1>3. CASE Report(t)
    <2>1. CASE KindOf(t) = "simulated" /\ future[t] = "dropped"
      BY <1>1, <1>3, <2>1 DEF Report, SetStatus
    <2>2. CASE ~(KindOf(t) = "simulated" /\ future[t] = "dropped")
      BY <1>1, <1>3, <2>2 DEF Report, SetStatus
    <2> QED BY <2>1, <2>2
  <1> QED BY <1>2, <1>3 DEF Waiter

LEMMA WaiterRInv ==
  ASSUME RInv, NEW t \in Task, Waiter(t)
  PROVE  RInv'
  <1>1. IInv'
    BY WaiterIInv DEF RInv
  <1>2. /\ UNCHANGED <<schedVars, res, ckpt, call, told, future, verdict, landed>>
        /\ \A u \in Task : u # t => status'[u] = status[u]
        /\ status'[t] = status[t] \/ status'[t] = "failed"
    BY WaiterStep DEF RInv, execVars
  <1>3. status'[t] = "completed" => future'[t] = "done"
    BY <1>2 DEF RInv, CompletedDone
  <1>4. t \in landed => Revoked(t)'
    BY <1>2, StillRevoked DEF RInv, LandedKept
  <1>5. \A d \in Caller : call'[d].pc = "annul" => KindOf(call'[d].task) # "model"
    BY <1>2 DEF RInv, AnnulNotModel
  <1> QED BY <1>1, <1>2, <1>3, <1>4, <1>5, RevokeStep

LEMMA NextRInv == RInv /\ [Next]_vars => RInv'
  <1> SUFFICES ASSUME RInv, [Next]_vars
               PROVE  RInv'
    OBVIOUS
  <1>1. ASSUME NEW c \in Caller,
               \/ \E r \in Resource, k \in Checkpoint : ScheduleCall(c, r, k)
               \/ \E k \in Checkpoint : CancelCall(c, k)
               \/ \E r \in Resource : ConsumeCall(c, r)
               \/ CallerStep(c)
        PROVE  RInv'
    BY <1>1, ReadsRInv, RegisterRInv, StartRInv, CancelRInv, SettleRInv DEF CallerStep, Reads
  <1>2. ASSUME NEW t \in Task, Pool(t) \/ Waiter(t)
        PROVE  RInv'
    BY <1>2, PoolRInv, WaiterRInv
  <1>3. CASE UNCHANGED vars
    <2>1. IInv'
      BY <1>3, StutterIInv DEF RInv
    <2> QED BY <1>3, <2>1 DEF RInv, Registered, CompletedDone, AnnulNotModel, LandedKept, Revoked,
               KindOf, Kind, vars, schedVars, taskVars, execVars, traceVars
  <1>4. CASE Next
    BY <1>1, <1>2, <1>4 DEF Next
  <1> QED BY <1>3, <1>4

\* Every reachable state satisfies the invariant about revoked prefetches.
THEOREM RevokedInductive == Spec => []RInv
  <1> QED BY InitRInv, NextRInv, PTL DEF Spec

\* A cancellation that reached an executor while the load was queued or running
\* is never lost, whatever the number of threads that cancel and consume: the
\* load does not come back COMPLETED (model_prefetch.py, data_prefetch.py,
\* simulated).  The MACE executor is the exception, as it tests for CANCELLED
\* only: a second thread may overwrite that status before the test.
THEOREM CancelSticks ==
  ASSUME \A r \in Resource : Kind(r) # "mace"
  PROVE  Spec => []LandedCancelSticks
  <1>1. RInv => LandedCancelSticks
    <2> SUFFICES ASSUME RInv, NEW t \in landed
                 PROVE  status[t] # "completed"
      BY DEF LandedCancelSticks
    <2>1. Revoked(t) /\ t \in Task
      BY DEF RInv, LandedKept, IInv, TypeOK
    <2>2. t \in 1..ntasks
      BY <2>1, Loading DEF RInv, Revoked
    <2>3. KindOf(t) # "mace"
      BY <2>2 DEF RInv, Registered, KindOf
    <2> QED BY <2>1, <2>3 DEF Revoked
  <1> QED BY <1>1, RevokedInductive, PTL

-------------------------------------------------------------------------------
(* An adapter that calls from one thread at a time.                        *)

\* The adapters of the experiments call the scheduler from the thread that
\* runs the agents' callbacks; pool and waiter threads run beside it.
Serial == \A c, d \in Caller : c = d

\* The task a resource points to is about that resource.
OwnTask == \A r \in Resource : taskOf[r] # 0 => res[taskOf[r]] = r

\* What status, load and trace of a task may say together.
TaskOK(t) ==
    /\ status[t] \in Unsettled => res[t] \in Resource /\ taskOf[res[t]] = t
    /\ t > ntasks => ledger[t] = {}
    /\ "used" \in ledger[t] => /\ future[t] \in {"none", "done", "raised", "dropped"}
                               /\ status[t] \notin Cancellable
    /\ "cancelled_wasted" \in ledger[t] => status[t] = "wasted" /\ future[t] = "done"
    /\ ~({"used", "cancelled_wasted"} \subseteq ledger[t])
    /\ t \in landed /\ KindOf(t) = "mace" =>
        /\ future[t] \in {"queued", "loading", "check"} => status[t] = "cancelled"
        /\ future[t] = "write" => verdict[t] # "completed"
        /\ status[t] # "completed"

\* What the caller still knows of the task it works on, although loads and
\* waiters run beside it.  Nobody else holds a pending task.
HandOK(c) ==
    LET t == call[c].task
        r == call[c].res
        p == call[c].pc
    IN  /\ p = "register" => (taskOf[r] # 0 => status[taskOf[r]] \notin Unsettled)
        /\ p \in {"route", "begin"} => status[t] = "pending"
        /\ p \in Starting => r \in Resource /\ taskOf[r] = t /\ ledger[t] = {}
        /\ p \in {"sample", "cancel", "annul", "mark"} =>
                "used" \notin ledger[t] /\ "cancelled_wasted" \notin ledger[t]
        /\ p \in {"cancel", "annul", "mark"} /\ call[c].completed => future[t] = "done"
        /\ p = "use" => /\ "cancelled_wasted" \notin ledger[t]
                        /\ ~(/\ t \in landed /\ KindOf(t) = "mace"
                             /\ future[t] \in {"queued", "loading", "check"})
        /\ \A u \in Task : status[u] = "pending" => p \in {"route", "begin"} /\ t = u

SInv == RInv /\ OwnTask /\ (\A t \in Task : TaskOK(t)) /\ (\A c \in Caller : HandOK(c))

LEMMA InitSInv == Init => SInv
  <1> SUFFICES ASSUME Init
               PROVE  SInv
    OBVIOUS
  <1>1. RInv
    BY InitRInv
  <1>2. \A c \in Caller : call[c].pc = "idle"
    BY DEF Init, Idle, Frame
  <1>3. OwnTask /\ (\A t \in Task : TaskOK(t))
    BY DEF Init, OwnTask, TaskOK, Unsettled
  <1>4. \A c \in Caller : HandOK(c)
    BY <1>2 DEF Init, HandOK, Starting
  <1> QED BY <1>1, <1>3, <1>4 DEF SInv

\* What is known of a task does not depend on the other tasks.
LEMMA TaskKept ==
  ASSUME NEW CONSTANT t, TaskOK(t),
         UNCHANGED schedVars, res'[t] = res[t], status'[t] = status[t], future'[t] = future[t],
         verdict'[t] = verdict[t], ledger'[t] = ledger[t], t \in landed' => t \in landed
  PROVE  TaskOK(t)'
  BY DEF TaskOK, KindOf, Kind, schedVars

LEMMA TouchStep ==
  ASSUME SInv, RInv', NEW CONSTANT t \in Task,
         UNCHANGED schedVars, UNCHANGED res, landed' \subseteq landed \cup {t},
         \A u \in Task : u # t => /\ status'[u] = status[u] /\ future'[u] = future[u]
                                  /\ verdict'[u] = verdict[u] /\ ledger'[u] = ledger[u],
         TaskOK(t)',
         \A c \in Caller : HandOK(c)'
  PROVE  SInv'
  <1>1. OwnTask'
    BY DEF SInv, OwnTask, schedVars
  <1>2. ASSUME NEW u \in Task, u # t
        PROVE  TaskOK(u)'
    BY <1>2, TaskKept DEF SInv
  <1> QED BY <1>1, <1>2 DEF SInv

LEMMA ReadsSInv ==
  ASSUME Serial, SInv, NEW c \in Caller, Reads(c)
  PROVE  SInv'
  <1>1. RInv'
    BY ReadsRInv DEF SInv
  <1>2. /\ UNCHANGED <<schedVars, taskVars, execVars, traceVars>>
        /\ call[c].pc \in {"idle", "visit", "sample", "judge"}
    BY ReadsStep DEF SInv, RInv
  <1>3. OwnTask' /\ \A t \in Task : TaskOK(t)'
    BY <1>2 DEF SInv, OwnTask, TaskOK, KindOf, Kind, schedVars, taskVars, execVars, traceVars
  <1>4. \A u \in Task : status[u] # "pending"
    BY <1>2 DEF SInv, HandOK
  <1>5. HandOK(c)'
    <2> USE <1>2, <1>4 DEF schedVars, taskVars, execVars, traceVars
    <2>1. CASE \E r \in Resource : /\ call'[c].pc = "register" /\ call'[c].res = r
                                   /\ call[c].pc = "idle" /\ ~Duplicate(r)
      <3>1. PICK r \in Resource : call'[c].pc = "register" /\ call'[c].res = r /\ ~Duplicate(r)
        BY <2>1
      <3>2. taskOf[r] # 0 => taskOf[r] \in Task
        BY ConstantsOK DEF SInv, RInv, IInv, TypeOK, Task
      <3> QED BY <3>1, <3>2 DEF HandOK, Duplicate, Unsettled, Starting
    <2>2. CASE call'[c].pc \in {"idle", "visit", "judge"}
      BY <2>2 DEF HandOK, Starting
    <2>3. CASE /\ call'[c].pc = "sample" /\ call'[c].task \in Task
               /\ status[call'[c].task] \in Cancellable
      <3>1. PICK t \in Task : t = call'[c].task
        BY <2>3
      <3>2. "used" \notin ledger[t] /\ "cancelled_wasted" \notin ledger[t]
        BY <2>3, <3>1 DEF SInv, TaskOK, Cancellable
      <3> QED BY <2>3, <3>1, <3>2 DEF HandOK, Starting
    <2>4. CASE /\ call'[c].pc = "cancel" /\ call[c].pc = "sample" /\ call'[c].task = call[c].task
               /\ call'[c].completed => status[call[c].task] = "completed"
      <3>1. PICK t \in Task : t = call[c].task
        BY <2>4, InHand DEF SInv, RInv
      <3>2. "used" \notin ledger[t] /\ "cancelled_wasted" \notin ledger[t]
        BY <2>4, <3>1 DEF SInv, HandOK
      <3>3. call'[c].completed => future[t] = "done"
        BY <2>4, <3>1 DEF SInv, RInv, CompletedDone
      <3> QED BY <2>4, <3>1, <3>2, <3>3 DEF HandOK, Starting
    <2>5. CASE /\ call'[c].pc = "use" /\ call[c].pc = "judge" /\ call'[c].task = call[c].task
               /\ status[call[c].task] \notin NoPrefetch
      <3>1. PICK t \in Task : t = call[c].task
        BY <2>5, InHand DEF SInv, RInv
      <3>2. /\ "cancelled_wasted" \notin ledger[t]
            /\ ~(/\ t \in landed /\ KindOf(t) = "mace"
                 /\ future[t] \in {"queued", "loading", "check"})
        BY <2>5, <3>1 DEF SInv, TaskOK, NoPrefetch
      <3>3. KindOf(t)' = KindOf(t)
        BY DEF KindOf, Kind
      <3> QED BY <2>5, <3>1, <3>2, <3>3 DEF HandOK, Starting
    <2> QED BY <2>1, <2>2, <2>3, <2>4, <2>5, ReadsStep DEF SInv, RInv
  <1>6. \A d \in Caller : d = c
    BY DEF Serial
  <1> QED BY <1>1, <1>3, <1>5, <1>6 DEF SInv

LEMMA RegisterSInv ==
  ASSUME Serial, SInv, NEW c \in Caller, Register(c)
  PROVE  SInv'
  <1>1. RInv'
    BY RegisterRInv DEF SInv
  <1>2. PICK n \in Task : n = ntasks + 1
    BY RegisterStep DEF SInv, RInv
  <1>3. PICK r \in Resource : r = call[c].res
    BY RegisterStep DEF SInv, RInv, Registered
  <1>4. /\ ntasks' = n /\ future[n] = "none" /\ \A u \in 1..n : u # n => u \in 1..ntasks
        /\ \A u \in 1..ntasks : u # n
        /\ status' = [status EXCEPT ![n] = "pending"] /\ res' = [res EXCEPT ![n] = r]
        /\ taskOf' = [taskOf EXCEPT ![r] = n]
        /\ call'[c].pc \in {"route", "begin"} /\ call'[c].task = n /\ call'[c].res = r
        /\ call[c].pc = "register" /\ UNCHANGED <<execVars, traceVars>>
    BY <1>2, <1>3, RegisterStep DEF SInv, RInv
  <1>5. /\ status \in [Task -> Status] /\ res \in [Task -> Resource \cup {None}]
        /\ taskOf \in [Resource -> 0..MaxTasks] /\ ntasks \in Nat /\ n \in Nat
        /\ \A q \in Resource : taskOf[q] \in 0..ntasks
    BY ConstantsOK DEF SInv, RInv, IInv, TypeOK, Task, TaskInHand
  <1>6. \A u \in Task : u # n => status'[u] = status[u] /\ res'[u] = res[u]
    BY <1>4, <1>5
  <1>7. status'[n] = "pending" /\ res'[n] = r /\ taskOf'[r] = n
    BY <1>4, <1>5
  <1>8. \A q \in Resource : q # r => taskOf'[q] = taskOf[q] /\ taskOf[q] # n
    BY <1>2, <1>4, <1>5
  <1>9. n \notin landed /\ ledger[n] = {}
    BY <1>2, <1>4, <1>5, NotLanded DEF SInv, TaskOK
  <1>10. OwnTask'
    <2> SUFFICES ASSUME NEW q \in Resource, taskOf'[q] # 0, q # r
                 PROVE  res'[taskOf'[q]] = q
      BY <1>7 DEF OwnTask
    <2>1. taskOf'[q] = taskOf[q] /\ taskOf[q] # n /\ taskOf[q] \in Task
      BY <1>5, <1>8, ConstantsOK DEF Task
    <2> QED BY <1>6, <2>1 DEF SInv, OwnTask
  <1>11. ASSUME NEW u \in Task, u # n
         PROVE  TaskOK(u)'
    <2>1. status'[u] = status[u] /\ res'[u] = res[u] /\ TaskOK(u)
      BY <1>6, <1>11 DEF SInv
    <2>2. status[u] \in Unsettled => taskOf'[res[u]] = u
      <3> SUFFICES ASSUME status[u] \in Unsettled
                   PROVE  taskOf'[res[u]] = u
        OBVIOUS
      <3>1. res[u] \in Resource /\ taskOf[res[u]] = u
        BY <2>1 DEF TaskOK
      <3>2. res[u] # r
        BY <1>3, <1>4, <3>1 DEF SInv, HandOK, Task
      <3> QED BY <1>8, <3>1, <3>2
    <2>3. u > ntasks' => u > ntasks
      BY <1>2, <1>4, <1>5 DEF Task
    <2> QED BY <1>4, <2>1, <2>2, <2>3 DEF TaskOK, KindOf, Kind, execVars, traceVars
  <1>12. TaskOK(n)'
    BY <1>4, <1>5, <1>7, <1>9 DEF TaskOK, execVars, traceVars
  <1>13. HandOK(c)'
    <2>1. \A u \in Task : status[u] # "pending"
      BY <1>4 DEF SInv, HandOK
    <2>2. ledger'[n] = {} /\ \A u \in Task : status'[u] = "pending" => u = n
      BY <1>4, <1>6, <1>9, <2>1 DEF traceVars
    <2> QED BY <1>4, <1>7, <2>2 DEF HandOK, Starting
  <1>14. \A d \in Caller : d = c
    BY DEF Serial
  <1> QED BY <1>1, <1>10, <1>11, <1>12, <1>13, <1>14 DEF SInv

LEMMA StartSInv ==
  ASSUME Serial, SInv, NEW c \in Caller, Route(c) \/ Begin(c) \/ Submit(c) \/ Track(c)
  PROVE  SInv'
  <1>1. RInv'
    BY StartRInv DEF SInv
  <1>2. PICK t \in Task : t = call[c].task
    BY StartStep DEF SInv, RInv
  <1>3. /\ call[c].pc \in Starting /\ t \in 1..ntasks /\ (~Track(c) => future[t] = "none")
        /\ UNCHANGED <<schedVars, res, told, verdict, landed>>
    BY <1>2, StartStep DEF SInv, RInv
  <1>4. \/ UNCHANGED status
        \/ call[c].pc = "begin" /\ \E s \in {"in_progress", "failed"} : status' = [status EXCEPT ![t] = s]
    BY <1>2, StartStep DEF SInv, RInv
  <1>5. \/ UNCHANGED future
        \/ call[c].pc = "submit" /\ future' = [future EXCEPT ![t] = "queued"]
    BY <1>2, StartStep DEF SInv, RInv
  <1>6. \/ UNCHANGED ledger
        \/ call'[c].pc = "idle" /\ ledger' = [ledger EXCEPT ![t] = @ \cup {"started"}]
    BY <1>2, StartStep DEF SInv, RInv
  <1>7. \/ call'[c].pc = "idle"
        \/ /\ call'[c].pc \in Starting /\ call'[c].task = t /\ call'[c].res = call[c].res
           /\ \/ call'[c].pc = "begin" /\ call[c].pc = "route" /\ UNCHANGED status
              \/ call'[c].pc \in {"submit", "track"}
    BY <1>2, StartStep DEF SInv, RInv
  <1>8. /\ status \in [Task -> Status] /\ future \in [Task -> Future]
        /\ DOMAIN ledger = Task /\ ntasks \in Nat
    BY ConstantsOK DEF SInv, RInv, IInv, TypeOK
  <1>9. call[c].res \in Resource /\ taskOf[call[c].res] = t /\ ledger[t] = {}
    BY <1>2, <1>3 DEF SInv, HandOK
  <1>10. res[t] = call[c].res
    <2>1. t # 0
      BY <1>3, <1>8
    <2> QED BY <1>9, <2>1 DEF SInv, OwnTask
  <1>11. \A u \in Task : u # t => /\ status'[u] = status[u] /\ future'[u] = future[u]
                                  /\ ledger'[u] = ledger[u]
    BY <1>4, <1>5, <1>6, <1>8
  <1>12. /\ ledger'[t] \subseteq {"started"}
         /\ call'[c].pc # "idle" => ledger'[t] = {}
    BY <1>6, <1>8, <1>9
  <1>13. TaskOK(t)'
    <2>1. res'[t] \in Resource /\ taskOf'[res'[t]] = t
      BY <1>3, <1>9, <1>10 DEF schedVars
    <2>2. ~(t > ntasks')
      BY <1>3, <1>8 DEF schedVars
    <2>3. /\ t \in landed' /\ KindOf(t)' = "mace" =>
               /\ future'[t] \in {"queued", "loading", "check"} => status'[t] = "cancelled"
               /\ future'[t] = "write" => verdict'[t] # "completed"
               /\ status'[t] # "completed"
      <3>1. CASE Track(c)
        <4>1. UNCHANGED <<status, future>>
          BY <3>1 DEF Track, taskVars
        <4>2. TaskOK(t)
          BY DEF SInv
        <4> QED BY <1>3, <4>1, <4>2 DEF TaskOK, KindOf, Kind
      <3>2. CASE ~Track(c)
        BY <1>3, <3>2, NotLanded DEF SInv
      <3> QED BY <3>1, <3>2
    <2> QED BY <1>12, <2>1, <2>2, <2>3 DEF TaskOK
  <1>14. HandOK(c)'
    <2>1. \A u \in Task : status'[u] = "pending" =>
            /\ u = t /\ call[c].pc \in {"route", "begin"} /\ UNCHANGED status
      <3>1. \A u \in Task : status[u] = "pending" => u = t /\ call[c].pc \in {"route", "begin"}
        BY <1>2 DEF SInv, HandOK
      <3>2. call[c].pc = "begin" => UNCHANGED status \/ status'[t] # "pending"
        BY <1>4, <1>8
      <3> QED BY <1>4, <1>11, <3>1, <3>2
    <2>2. UNCHANGED status => call[c].pc # "begin"
      <3>1. CASE Begin(c)
        <4>1. PICK s \in {"in_progress", "failed"} : status' = [status EXCEPT ![t] = s]
          BY <1>2, <3>1 DEF Begin, SetStatus
        <4>2. status[t] = "pending"
          BY <1>2, <3>1 DEF SInv, HandOK, Begin, At
        <4> QED BY <1>8, <4>1, <4>2
      <3>2. CASE Route(c) \/ Submit(c) \/ Track(c)
        BY <3>2 DEF Route, Submit, Track, At
      <3> QED BY <3>1, <3>2
    <2>3. CASE call'[c].pc = "idle"
      <3>1. call[c].pc # "route"
        BY <1>2, <2>3, PcStep DEF Route, Begin, Submit, Track, At, PC, SInv, RInv, IInv
      <3> QED BY <2>1, <2>2, <2>3, <3>1 DEF HandOK, Starting
    <2>4. CASE call'[c].pc \in {"submit", "track"} /\ call'[c].task = t /\ call'[c].res = call[c].res
      <3>1. call[c].pc # "route"
        BY <1>2, <2>4, PcStep DEF Route, Begin, Submit, Track, At, PC, SInv, RInv, IInv
      <3> QED BY <1>3, <1>9, <1>12, <2>1, <2>2, <2>4, <3>1 DEF HandOK, Starting, schedVars
    <2>5. CASE /\ call'[c].pc = "begin" /\ call[c].pc = "route" /\ UNCHANGED status
               /\ call'[c].task = t /\ call'[c].res = call[c].res
      <3>1. status[t] = "pending"
        BY <1>2, <2>5 DEF SInv, HandOK
      <3> QED BY <1>3, <1>9, <1>12, <2>1, <2>5, <3>1 DEF HandOK, Starting, schedVars
    <2> QED BY <1>7, <2>3, <2>4, <2>5
  <1>15. \A d \in Caller : d = c
    BY DEF Serial
  <1>16. \A d \in Caller : HandOK(d)'
    BY <1>14, <1>15
  <1> QED BY <1>1, <1>3, <1>11, <1>13, <1>16, TouchStep DEF SInv

LEMMA CancelSInv ==
  ASSUME Serial, SInv, NEW c \in Caller, ExecCancel(c)
  PROVE  SInv'
  <1>1. RInv'
    BY CancelRInv DEF SInv
  <1>2. PICK t \in Task : t = call[c].task
    BY CancelStep DEF SInv, RInv
  <1>3. /\ UNCHANGED <<schedVars, taskVars, verdict, ledger>> /\ call[c].pc = "cancel"
        /\ call'[c].pc \in {"annul", "mark"} /\ call'[c].task = t
        /\ call'[c].completed = call[c].completed
    BY <1>2, CancelStep DEF SInv, RInv
  <1>4. \/ UNCHANGED future
        \/ /\ KindOf(t) # "model" /\ future[t] = "queued"
           /\ future' = [future EXCEPT ![t] = "dropped"]
    BY <1>2, CancelStep DEF SInv, RInv
  <1>5. landed' = landed \/ (KindOf(t) = "model" /\ landed' = landed \cup {t})
    BY <1>2, CancelStep DEF SInv, RInv
  <1>6. future \in [Task -> Future]
    BY DEF SInv, RInv, IInv, TypeOK
  <1>7. (\A u \in Task : u # t => future'[u] = future[u])
        /\ (future'[t] = future[t] \/ (future[t] = "queued" /\ future'[t] = "dropped"))
    BY <1>4, <1>6
  <1>8. "used" \notin ledger[t] /\ "cancelled_wasted" \notin ledger[t]
    BY <1>2, <1>3 DEF SInv, HandOK
  <1>9. TaskOK(t)'
    <2>1. TaskOK(t)
      BY DEF SInv
    <2> QED BY <1>3, <1>5, <1>7, <1>8, <2>1 DEF TaskOK, KindOf, Kind, taskVars, schedVars
  <1>10. HandOK(c)'
    <2>1. call[c].completed => future[t] = "done"
      BY <1>2, <1>3 DEF SInv, HandOK
    <2>2. \A u \in Task : status[u] # "pending"
      BY <1>3 DEF SInv, HandOK
    <2> QED BY <1>3, <1>7, <1>8, <2>1, <2>2 DEF HandOK, Starting, taskVars
  <1>11. \A d \in Caller : HandOK(d)'
    BY <1>10 DEF Serial
  <1> QED BY <1>1, <1>3, <1>5, <1>7, <1>9, <1>11, TouchStep DEF taskVars

LEMMA SettleSInv ==
  ASSUME Serial, SInv, NEW c \in Caller, Annul(c) \/ Mark(c) \/ Use(c)
  PROVE  SInv'
  <1>1. RInv'
    BY SettleRInv DEF SInv
  <1>2. PICK t \in Task : t = call[c].task
    BY SettleStep DEF SInv, RInv
  <1>3. UNCHANGED <<schedVars, res, ckpt, execVars>>
    BY <1>2, SettleStep DEF SInv, RInv
  <1>4. /\ status \in [Task -> Status] /\ future \in [Task -> Future] /\ DOMAIN ledger = Task
        /\ TaskOK(t) /\ HandOK(c)
    BY DEF SInv, RInv, IInv, TypeOK
  <1>5. \A u \in Task : status[u] # "pending"
    BY <1>2, <1>4, SettleStep DEF HandOK, SInv, RInv
  <1> USE DEF execVars
  <1>6. ASSUME /\ call[c].pc = "annul" /\ status' = [status EXCEPT ![t] = "cancelled"]
               /\ landed' = IF future[t] \in {"queued", "loading", "dropped"}
                            THEN landed \cup {t} ELSE landed
               /\ UNCHANGED ledger
               /\ call'[c].pc = "mark" /\ call'[c].task = t
               /\ call'[c].completed = call[c].completed
        PROVE  SInv'
    <2>1. status'[t] = "cancelled" /\ \A u \in Task : u # t => status'[u] = status[u]
      BY <1>4, <1>6
    <2>2. /\ "used" \notin ledger[t] /\ "cancelled_wasted" \notin ledger[t]
          /\ call[c].completed => future[t] = "done"
      BY <1>2, <1>4, <1>6 DEF HandOK
    <2>3. TaskOK(t)'
      BY <1>3, <1>4, <1>6, <2>1, <2>2 DEF TaskOK, KindOf, Kind, schedVars, Unsettled
    <2>4. HandOK(c)'
      BY <1>3, <1>5, <1>6, <2>1, <2>2 DEF HandOK, Starting
    <2>5. \A d \in Caller : HandOK(d)'
      BY <2>4 DEF Serial
    <2> QED BY <1>1, <1>3, <1>6, <2>1, <2>3, <2>5, TouchStep
  <1>7. ASSUME /\ call[c].pc = "mark" /\ call'[c].pc \in {"idle", "visit"} /\ UNCHANGED landed
               /\ \/ /\ call[c].completed /\ status' = [status EXCEPT ![t] = "wasted"]
                     /\ ledger' = [ledger EXCEPT ![t] = @ \cup {"cancelled_wasted"}]
                  \/ /\ ~call[c].completed /\ UNCHANGED status
                     /\ ledger' = [ledger EXCEPT ![t] = @ \cup {"cancelled"}]
        PROVE  SInv'
    <2>1. \A u \in Task : u # t => status'[u] = status[u] /\ ledger'[u] = ledger[u]
      BY <1>4, <1>7
    <2>2. \/ /\ call[c].completed /\ status'[t] = "wasted"
             /\ ledger'[t] = ledger[t] \cup {"cancelled_wasted"}
          \/ /\ ~call[c].completed /\ status'[t] = status[t]
             /\ ledger'[t] = ledger[t] \cup {"cancelled"}
      BY <1>4, <1>7
    <2>3. /\ "used" \notin ledger[t] /\ "cancelled_wasted" \notin ledger[t]
          /\ call[c].completed => future[t] = "done"
      BY <1>2, <1>4, <1>7 DEF HandOK
    <2>4. ~(t > ntasks)
      BY <1>2, <1>4, SettleStep, ConstantsOK DEF SInv, RInv, IInv, TypeOK
    <2>5. TaskOK(t)'
      BY <1>3, <1>4, <1>7, <2>2, <2>3, <2>4 DEF TaskOK, KindOf, Kind, schedVars, Unsettled
    <2>6. HandOK(c)'
      BY <1>5, <1>7, <2>1, <2>2 DEF HandOK, Starting
    <2>7. \A d \in Caller : HandOK(d)'
      BY <2>6 DEF Serial
    <2> QED BY <1>1, <1>3, <1>7, <2>1, <2>5, <2>7, TouchStep
  <1>8. ASSUME /\ call[c].pc = "use" /\ call'[c].pc = "idle" /\ UNCHANGED landed
               /\ status' = [status EXCEPT ![t] = "used"]
               /\ \/ /\ future[t] \in {"queued", "loading", "check", "write"}
                     /\ ledger' = [ledger EXCEPT ![t] = @ \cup {"used_late"}]
                  \/ /\ future[t] \notin {"queued", "loading", "check", "write"}
                     /\ ledger' = [ledger EXCEPT ![t] = @ \cup {"used"}]
        PROVE  SInv'
    <2>1. \A u \in Task : u # t => status'[u] = status[u] /\ ledger'[u] = ledger[u]
      BY <1>4, <1>8
    <2>2. /\ status'[t] = "used"
          /\ \/ ledger'[t] = ledger[t] \cup {"used_late"}
             \/ /\ future[t] \in {"none", "done", "raised", "dropped"}
                /\ ledger'[t] = ledger[t] \cup {"used"}
      BY <1>4, <1>8 DEF Future
    <2>3. /\ "cancelled_wasted" \notin ledger[t]
          /\ ~(/\ t \in landed /\ KindOf(t) = "mace"
               /\ future[t] \in {"queued", "loading", "check"})
      BY <1>2, <1>4, <1>8 DEF HandOK
    <2>4. ~(t > ntasks)
      BY <1>2, <1>4, SettleStep, ConstantsOK DEF SInv, RInv, IInv, TypeOK
    <2>5. TaskOK(t)'
      BY <1>3, <1>4, <1>8, <2>2, <2>3, <2>4 DEF TaskOK, KindOf, Kind, schedVars, Unsettled, Cancellable
    <2>6. HandOK(c)'
      BY <1>5, <1>8, <2>1, <2>2 DEF HandOK, Starting
    <2>7. \A d \in Caller : HandOK(d)'
      BY <2>6 DEF Serial
    <2> QED BY <1>1, <1>3, <1>8, <2>1, <2>5, <2>7, TouchStep
  <1> QED BY <1>2, <1>6, <1>7, <1>8, SettleStep DEF SInv, RInv

\* Loads and waiters leave the caller's knowledge of its task true.
LEMMA HandKept ==
  ASSUME SInv, NEW c \in Caller, NEW t \in Task,
         UNCHANGED schedVars, UNCHANGED res, UNCHANGED call, UNCHANGED ledger, UNCHANGED landed,
         \A u \in Task : u # t => status'[u] = status[u] /\ future'[u] = future[u],
         status[t] # "pending",
         status'[t] = status[t] \/ status'[t] \notin Unsettled,
         future[t] = "done" => future'[t] = "done",
         future'[t] \in {"queued", "loading", "check"} => future[t] \in {"queued", "loading", "check"}
  PROVE  HandOK(c)'
  <1> DEFINE x == call[c].task
             r == call[c].res
             p == call[c].pc
  <1>1. HandOK(c)
    BY DEF SInv
  <1>2. p \notin {"idle", "register", "visit"} => x \in Task
    BY InHand DEF SInv, RInv
  <1>3. p = "register" => (taskOf[r] # 0 => taskOf[r] \in Task)
    BY ConstantsOK DEF SInv, RInv, Registered, IInv, TypeOK, Task
  <1>4. \A u \in Task : status[u] \notin Unsettled => status'[u] \notin Unsettled
    OBVIOUS
  <1>5. \A u \in Task : status'[u] = "pending" <=> status[u] = "pending"
    BY DEF Unsettled
  <1>6. p = "register" => (taskOf[r] # 0 => status'[taskOf[r]] \notin Unsettled)
    BY <1>1, <1>3, <1>4 DEF HandOK
  <1>7. p \in {"route", "begin"} => status'[x] = "pending"
    BY <1>1, <1>2, <1>5 DEF HandOK
  <1>8. p \in {"cancel", "annul", "mark"} /\ call[c].completed => future'[x] = "done"
    BY <1>1, <1>2 DEF HandOK
  <1>9. p = "use" => ~(/\ x \in landed' /\ KindOf(x)' = "mace"
                       /\ future'[x] \in {"queued", "loading", "check"})
    BY <1>1, <1>2 DEF HandOK, KindOf, Kind
  <1> QED BY <1>1, <1>5, <1>6, <1>7, <1>8, <1>9 DEF HandOK, schedVars

LEMMA PoolSInv ==
  ASSUME SInv, NEW t \in Task, Pool(t)
  PROVE  SInv'
  <1>1. RInv'
    BY PoolRInv DEF SInv
  <1>2. /\ UNCHANGED <<schedVars, res, ckpt, call, told, traceVars>>
        /\ \A u \in Task : u # t => /\ status'[u] = status[u] /\ future'[u] = future[u]
                                    /\ verdict'[u] = verdict[u]
    BY PoolStep DEF SInv, RInv
  <1>3. /\ future[t] \in {"queued", "loading", "check", "write"}
        /\ status'[t] = status[t] \/ (future[t] = "write" /\ status'[t] = verdict[t])
        /\ status'[t] = status[t] \/ status'[t] \notin Unsettled
        /\ future'[t] \in {"queued", "loading", "check"} => future[t] \in {"queued", "loading", "check"}
    BY PoolStep DEF SInv, RInv, Unsettled
  <1>4. status[t] # "pending"
    BY <1>3, Loading DEF SInv, RInv
  <1>5. TaskOK(t)
    BY DEF SInv
  <1>6. "used" \notin ledger[t] /\ "cancelled_wasted" \notin ledger[t]
    BY <1>3, <1>5 DEF TaskOK
  <1>7. t \in landed /\ KindOf(t) = "mace" =>
            /\ future'[t] \in {"queued", "loading", "check"} => status'[t] = "cancelled"
            /\ future'[t] = "write" => verdict'[t] # "completed"
            /\ status'[t] # "completed"
    <2> SUFFICES ASSUME t \in landed, KindOf(t) = "mace"
                 PROVE  /\ future'[t] \in {"queued", "loading", "check"} => status'[t] = "cancelled"
                        /\ future'[t] = "write" => verdict'[t] # "completed"
                        /\ status'[t] # "completed"
      OBVIOUS
    <2>1. /\ future[t] \in {"queued", "loading", "check"} => status[t] = "cancelled"
          /\ future[t] = "write" => verdict[t] # "completed"
          /\ status[t] # "completed"
      BY <1>5 DEF TaskOK
    <2>2. future[t] \in {"queued", "loading", "check"} => ~MaySettle(t)
      BY <2>1 DEF MaySettle
    <2>3. CASE future[t] = "queued"
      BY <2>1, <2>3, PoolStep DEF SInv, RInv
    <2>4. CASE future[t] = "loading"
      <3>1. status'[t] = "cancelled"
        BY <1>3, <2>1, <2>4
      <3>2. future'[t] = "write" => verdict'[t] # "completed"
        BY <2>4, PoolStep DEF SInv, RInv
      <3> QED BY <3>1, <3>2
    <2>5. CASE future[t] = "check"
      BY <2>1, <2>2, <2>5, PoolStep DEF SInv, RInv
    <2>6. CASE future[t] = "write"
      BY <2>1, <2>6, PoolStep DEF SInv, RInv
    <2> QED BY <1>3, <2>3, <2>4, <2>5, <2>6
  <1>8. TaskOK(t)'
    BY <1>2, <1>3, <1>5, <1>6, <1>7 DEF TaskOK, KindOf, Kind, schedVars, traceVars
  <1>9. \A c \in Caller : HandOK(c)'
    BY <1>2, <1>3, <1>4, HandKept DEF traceVars
  <1> QED BY <1>1, <1>2, <1>8, <1>9, TouchStep DEF traceVars

LEMMA WaiterSInv ==
  ASSUME SInv, NEW t \in Task, Waiter(t)
  PROVE  SInv'
  <1>1. RInv'
    BY WaiterRInv DEF SInv
  <1>2. /\ UNCHANGED <<schedVars, res, ckpt, call, execVars, ledger, landed>>
        /\ \A u \in Task : u # t => status'[u] = status[u]
    BY WaiterStep DEF SInv, RInv
  <1>3. TaskOK(t) /\ \A c \in Caller : HandOK(c)
    BY DEF SInv
  <1> USE DEF execVars
  <1>4. CASE status'[t] = status[t]
    <2>1. \A u \in Task : status'[u] = status[u]
      BY <1>2, <1>4
    <2>2. status' = status
      BY <1>1, <2>1 DEF SInv, RInv, IInv, TypeOK
    <2>3. TaskOK(t)' /\ \A c \in Caller : HandOK(c)'
      BY <1>2, <1>3, <2>2 DEF TaskOK, HandOK, KindOf, Kind, schedVars
    <2> QED BY <1>1, <1>2, <2>3, TouchStep
  <1>5. CASE KindOf(t) = "simulated" /\ future[t] = "dropped" /\ status'[t] = "failed"
    <2>1. status[t] # "pending"
      BY <1>5, Loading DEF SInv, RInv
    <2>2. TaskOK(t)'
      BY <1>2, <1>3, <1>5 DEF TaskOK, KindOf, Kind, schedVars, Unsettled, Cancellable
    <2>3. \A c \in Caller : HandOK(c)'
      BY <1>2, <1>5, <2>1, HandKept DEF Unsettled
    <2> QED BY <1>1, <1>2, <2>2, <2>3, TouchStep
  <1> QED BY <1>4, <1>5, WaiterStep DEF SInv, RInv

LEMMA NextSInv ==
  ASSUME Serial, SInv, [Next]_vars
  PROVE  SInv'
  <1>1. ASSUME NEW c \in Caller,
               \/ \E r \in Resource, k \in Checkpoint : ScheduleCall(c, r, k)
               \/ \E k \in Checkpoint : CancelCall(c, k)
               \/ \E r \in Resource : ConsumeCall(c, r)
               \/ CallerStep(c)
        PROVE  SInv'
    BY <1>1, ReadsSInv, RegisterSInv, StartSInv, CancelSInv, SettleSInv DEF CallerStep, Reads
  <1>2. ASSUME NEW t \in Task, Pool(t) \/ Waiter(t)
        PROVE  SInv'
    BY <1>2, PoolSInv, WaiterSInv
  <1>3. CASE UNCHANGED vars
    <2>1. RInv'
      BY <1>3, NextRInv DEF SInv
    <2> QED BY <1>3, <2>1 DEF SInv, OwnTask, TaskOK, HandOK, KindOf, Kind, vars, schedVars,
               taskVars, execVars, traceVars
  <1>4. CASE Next
    BY <1>1, <1>2, <1>4 DEF Next
  <1> QED BY <1>3, <1>4

\* Every reachable state of a scheduler called from one thread at a time
\* satisfies the serial invariant.
THEOREM SerialSchedulerInductive ==
  ASSUME Serial
  PROVE  Spec => []SInv
  <1>1. SInv /\ [Next]_vars => SInv'
    BY NextSInv
  <1> QED BY <1>1, InitSInv, PTL DEF Spec

\* The deduplication of schedule() (scheduler.py:76-86) holds for a caller that
\* schedules from one thread: at most one task per resource is in flight.
THEOREM Deduplicated ==
  ASSUME Serial
  PROVE  Spec => []OneInFlight
  <1>1. SInv => OneInFlight
    <2>1. SInv => 1..ntasks \subseteq Task
      BY ConstantsOK DEF SInv, RInv, IInv, TypeOK, Task
    <2> QED BY <2>1 DEF SInv, TaskOK, OneInFlight
  <1> QED BY <1>1, SerialSchedulerInductive, PTL

\* A prefetch that was revoked stays revoked, in its status and in the trace:
\* used and wasted exclude each other, wasted is final, and a cancellation that
\* landed sticks, for every kind of executor (scheduler.py:160-220).
THEOREM RevocationFinal ==
  ASSUME Serial
  PROVE  Spec => []RevokedForGood
  <1>1. SInv => RevokedForGood
    <2> SUFFICES ASSUME SInv
                 PROVE  RevokedForGood
      OBVIOUS
    <2>1. UsedXorWasted /\ WasteIsFinal
      BY DEF SInv, TaskOK, UsedXorWasted, WasteIsFinal
    <2>2. LandedCancelSticks
      BY DEF SInv, RInv, IInv, TypeOK, LandedKept, Revoked, TaskOK, LandedCancelSticks
    <2> QED BY <2>1, <2>2 DEF RevokedForGood
  <1> QED BY <1>1, SerialSchedulerInductive, PTL

-------------------------------------------------------------------------------
(* The scheduler implements the slot contract.                             *)

LEMMA SlotValue ==
  ASSUME NEW r \in Resource
  PROVE  slotOf[r] = IF taskOf[r] # 0 /\ status[taskOf[r]] \in Unsettled THEN "claimed"
                     ELSE IF taskOf[r] # 0 /\ status[taskOf[r]] = "completed" THEN "ready"
                     ELSE "empty"
  BY DEF slotOf, Unsettled

LEMMA InitSlots == Init => Slots!Init
  BY DEF Init, Slots!Init, slotOf

\* A status that does not become unsettled delivers or releases the slot of the
\* resource the task is about, if the resource still points to the task.
LEMMA StatusSlots ==
  ASSUME OwnTask, NEW t \in Task, UNCHANGED taskOf,
         \A u \in Task : u # t => status'[u] = status[u],
         \A r \in Resource : taskOf[r] # 0 => taskOf[r] \in Task,
         status'[t] \in Unsettled => status[t] \in Unsettled
  PROVE  [Slots!Next]_<<taskOf, slotOf>>
  <1>1. \A r \in Resource : taskOf[r] # t => slotOf'[r] = slotOf[r]
    BY SlotValue DEF slotOf
  <1>2. slotOf \in [Resource -> {"empty", "claimed", "ready"}]
    BY DEF slotOf
  <1>3. slotOf' \in [Resource -> {"empty", "claimed", "ready"}]
    BY DEF slotOf
  <1>4. CASE \A r \in Resource : taskOf[r] # t
    <2>1. slotOf' = slotOf
      BY <1>1, <1>2, <1>3, <1>4
    <2> QED BY <2>1
  <1>5. ASSUME NEW r \in Resource, taskOf[r] = t
        PROVE  [Slots!Next]_<<taskOf, slotOf>>
    <2>1. t # 0
      BY DEF Task
    <2>2. \A q \in Resource : q # r => taskOf[q] # t
      BY <1>5, <2>1 DEF OwnTask
    <2>3. slotOf' = [slotOf EXCEPT ![r] = slotOf'[r]]
      BY <1>1, <1>2, <1>3, <2>2
    <2>4. slotOf'[r] = "claimed" => slotOf[r] = "claimed"
      BY <1>5, <2>1 DEF slotOf, Unsettled
    <2>5. CASE slotOf'[r] = slotOf[r]
      <3>1. slotOf' = slotOf
        BY <1>2, <2>3, <2>5
      <3> QED BY <3>1
    <2>6. CASE slotOf'[r] = "ready" /\ slotOf[r] # "ready"
      <3>1. Slots!Deliver(r)
        BY <1>2, <1>5, <2>1, <2>3, <2>6 DEF Slots!Deliver
      <3> QED BY <3>1 DEF Slots!Next
    <2>7. CASE slotOf'[r] = "empty" /\ slotOf[r] # "empty"
      <3>1. Slots!Release(r)
        BY <1>2, <1>5, <2>1, <2>3, <2>7 DEF Slots!Release
      <3> QED BY <3>1 DEF Slots!Next
    <2> QED BY <1>2, <1>3, <2>4, <2>5, <2>6, <2>7
  <1> QED BY <1>4, <1>5

\* The registration of a task claims the slot, which is not claimed.
LEMMA RegisterSlots ==
  ASSUME SInv, NEW c \in Caller, Register(c)
  PROVE  [Slots!Next]_<<taskOf, slotOf>>
  <1>1. PICK n \in Task : n = ntasks + 1
    BY RegisterStep DEF SInv, RInv
  <1>2. PICK r \in Resource : r = call[c].res
    BY RegisterStep DEF SInv, RInv, Registered
  <1>3. /\ status' = [status EXCEPT ![n] = "pending"] /\ taskOf' = [taskOf EXCEPT ![r] = n]
        /\ call[c].pc = "register"
    BY <1>1, <1>2, RegisterStep DEF SInv, RInv
  <1>4. /\ status \in [Task -> Status] /\ taskOf \in [Resource -> 0..MaxTasks]
        /\ \A q \in Resource : taskOf[q] < n
    BY <1>1, ConstantsOK DEF SInv, RInv, IInv, TypeOK, TaskInHand
  <1>5. slotOf[r] # "claimed"
    BY <1>2, <1>3 DEF SInv, HandOK, slotOf
  <1>6. slotOf'[r] = "claimed"
    BY <1>3, <1>4, ConstantsOK DEF slotOf, Unsettled, Task
  <1>7. \A q \in Resource : q # r => slotOf'[q] = slotOf[q]
    <2> SUFFICES ASSUME NEW q \in Resource, q # r
                 PROVE  slotOf'[q] = slotOf[q]
      OBVIOUS
    <2>1. taskOf'[q] = taskOf[q] /\ taskOf[q] # n
      BY <1>1, <1>3, <1>4, ConstantsOK DEF Task
    <2>2. taskOf[q] # 0 => status'[taskOf[q]] = status[taskOf[q]]
      BY <1>3, <1>4, <2>1, ConstantsOK DEF Task
    <2> QED BY <2>1, <2>2 DEF slotOf
  <1>8. slotOf' = [slotOf EXCEPT ![r] = "claimed"]
    BY <1>6, <1>7 DEF slotOf
  <1>9. Slots!Claim(r)
    BY <1>3, <1>4, <1>5, <1>8 DEF Slots!Claim
  <1> QED BY <1>9 DEF Slots!Next

LEMMA NextSlots ==
  ASSUME Serial, SInv, [Next]_vars
  PROVE  [Slots!Next]_<<taskOf, slotOf>>
  <1>1. /\ OwnTask /\ \A r \in Resource : taskOf[r] # 0 => taskOf[r] \in Task
        /\ status \in [Task -> Status]
    BY ConstantsOK DEF SInv, RInv, IInv, TypeOK, Task
  <1>2. ASSUME UNCHANGED <<taskOf, status>>
        PROVE  [Slots!Next]_<<taskOf, slotOf>>
    BY <1>2 DEF slotOf
  <1>3. ASSUME NEW c \in Caller, Reads(c)
        PROVE  [Slots!Next]_<<taskOf, slotOf>>
    BY <1>2, <1>3, ReadsStep DEF SInv, RInv, schedVars, taskVars
  <1>4. ASSUME NEW c \in Caller, Route(c) \/ Begin(c) \/ Submit(c) \/ Track(c)
        PROVE  [Slots!Next]_<<taskOf, slotOf>>
    <2>1. PICK t \in Task : t = call[c].task
      BY <1>4, StartStep DEF SInv, RInv
    <2>2. UNCHANGED taskOf
      BY <1>4, StartStep DEF SInv, RInv, schedVars
    <2>3. \/ UNCHANGED status
          \/ call[c].pc = "begin" /\ \E s \in {"in_progress", "failed"} : status' = [status EXCEPT ![t] = s]
      BY <1>4, <2>1, StartStep DEF SInv, RInv
    <2>4. call[c].pc = "begin" => status[t] \in Unsettled
      BY <2>1 DEF SInv, HandOK, Unsettled
    <2>5. CASE UNCHANGED status
      BY <1>2, <2>2, <2>5
    <2>6. CASE ~UNCHANGED status
      <3>1. status[t] \in Unsettled /\ \A u \in Task : u # t => status'[u] = status[u]
        BY <1>1, <2>3, <2>4, <2>6
      <3> QED BY <1>1, <2>2, <3>1, StatusSlots
    <2> QED BY <2>5, <2>6
  <1>5. ASSUME NEW c \in Caller, ExecCancel(c)
        PROVE  [Slots!Next]_<<taskOf, slotOf>>
    BY <1>2, <1>5, CancelStep DEF SInv, RInv, schedVars, taskVars
  <1>6. ASSUME NEW c \in Caller, Annul(c) \/ Mark(c) \/ Use(c)
        PROVE  [Slots!Next]_<<taskOf, slotOf>>
    <2>1. PICK t \in Task : t = call[c].task
      BY <1>6, SettleStep DEF SInv, RInv
    <2>2. UNCHANGED taskOf
      BY <1>6, SettleStep DEF SInv, RInv, schedVars
    <2>3. \/ \E s \in {"cancelled", "wasted", "used"} : status' = [status EXCEPT ![t] = s]
          \/ UNCHANGED status
      BY <1>6, <2>1, SettleStep DEF SInv, RInv
    <2>4. /\ \A u \in Task : u # t => status'[u] = status[u]
          /\ status'[t] \in Unsettled => status[t] \in Unsettled
      BY <1>1, <2>3 DEF Unsettled
    <2> QED BY <1>1, <2>2, <2>4, StatusSlots
  <1>7. ASSUME NEW t \in Task, Pool(t)
        PROVE  [Slots!Next]_<<taskOf, slotOf>>
    <2>1. /\ UNCHANGED taskOf /\ \A u \in Task : u # t => status'[u] = status[u]
          /\ status'[t] \in Unsettled => status[t] \in Unsettled
      BY <1>7, PoolStep DEF SInv, RInv, schedVars, Unsettled
    <2> QED BY <1>1, <2>1, StatusSlots
  <1>8. ASSUME NEW t \in Task, Waiter(t)
        PROVE  [Slots!Next]_<<taskOf, slotOf>>
    <2>1. /\ UNCHANGED taskOf /\ \A u \in Task : u # t => status'[u] = status[u]
          /\ status'[t] \in Unsettled => status[t] \in Unsettled
      BY <1>8, WaiterStep DEF SInv, RInv, schedVars, Unsettled
    <2> QED BY <1>1, <2>1, StatusSlots
  <1>9. CASE UNCHANGED vars
    BY <1>2, <1>9 DEF vars, schedVars, taskVars
  <1>10. CASE Next
    BY <1>3, <1>4, <1>5, <1>6, <1>7, <1>8, <1>10, RegisterSlots DEF Next, CallerStep, Reads
  <1> QED BY <1>9, <1>10

\* The scheduler called from one thread at a time implements ResourceSlots:
\* registering a task claims its resource's slot, and loads, cancellations,
\* consumers and waiters only deliver or release it.
THEOREM ImplementsSlots ==
  ASSUME Serial
  PROVE  Spec => SlotContract
  <1>1. SInv /\ [Next]_vars => [Slots!Next]_<<taskOf, slotOf>>
    BY NextSlots
  <1> QED BY <1>1, InitSlots, SerialSchedulerInductive, PTL DEF Spec, SlotContract, Slots!Spec

===============================================================================
