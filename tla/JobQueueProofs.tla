--------------------------- MODULE JobQueueProofs ---------------------------
(***************************************************************************)
(* Theorems about JobQueue, for every set of jobs and every bound.         *)
(***************************************************************************)
EXTENDS JobQueue, SequenceTheorems, FiniteSetTheorems, TLAPS

-----------------------------------------------------------------------------
(* Sequences as queues: what Tail and Append do to their elements.         *)

LEMMA TailElements ==
  ASSUME NEW S, NEW q \in Seq(S), q # <<>>
  PROVE  /\ Tail(q) \in Seq(S)
         /\ Head(q) \in S
         /\ \A i \in DOMAIN Tail(q) :
              i + 1 \in DOMAIN q /\ Tail(q)[i] = q[i + 1]
  BY HeadTailProperties, LenProperties

LEMMA AppendElements ==
  ASSUME NEW S, NEW q \in Seq(S), NEW x \in S
  PROVE  /\ Append(q, x) \in Seq(S)
         /\ \A i \in DOMAIN Append(q, x) :
              \/ i \in DOMAIN q /\ Append(q, x)[i] = q[i]
              \/ Append(q, x)[i] = x
  BY AppendProperties, LenProperties

-----------------------------------------------------------------------------
(* Type correctness.                                                       *)

USE DEF Kinds, Statuses, Terminal, ClientOps, WorkerOps, JobOps, Idle,
        Stopped, Workers

LEMMA EnqueueType ==
  ASSUME NEW name \in JobOps, NEW j \in Jobs,
         lockq \in Seq(Operations), Enqueue(name, j)
  PROVE  lockq' \in Seq(Operations)
  <1>1. Op(name, j) \in Operations  BY DEF Op, Operations
  <1> QED BY <1>1, AppendElements DEF Enqueue

LEMMA LeaveType ==
  ASSUME lockq \in Seq(Operations), lockq # <<>>, Leave
  PROVE  lockq' \in Seq(Operations)
  BY TailElements DEF Leave

LEMMA ThenType ==
  ASSUME NEW name \in JobOps, NEW j \in Jobs,
         lockq \in Seq(Operations), lockq # <<>>, Then(name, j)
  PROVE  lockq' \in Seq(Operations)
  <1>1. Tail(lockq) \in Seq(Operations)  BY TailElements
  <1>2. Op(name, j) \in Operations  BY DEF Op, Operations
  <1> QED BY <1>1, <1>2, AppendElements DEF Then

LEMMA EmitType ==
  ASSUME NEW j \in Jobs, NEW kind \in Kinds,
         events \in [Jobs -> Seq(Kinds)], Emit(j, kind)
  PROVE  events' \in [Jobs -> Seq(Kinds)]
  <1>1. Append(events[j], kind) \in Seq(Kinds)  BY AppendElements
  <1> QED BY <1>1 DEF Emit

LEMMA BudgetType ==
  ASSUME budget \in Budgets,
         \/ UseFault
         \/ UseStop
         \/ budget.clears > 0 /\ budget' = [budget EXCEPT !.clears = @ - 1]
  PROVE  budget' \in Budgets
  BY DEF Budgets, UseFault, UseStop

LEMMA ForgetMemoryType ==
  ASSUME ForgetMemory
  PROVE  /\ payloads' = {} /\ cancelled' = {} /\ fifo' \in Seq(Jobs)
         /\ lockq' \in Seq(Operations) /\ orphan' \in Seq(Operations)
         /\ worker' \in Workers
         /\ paging' \in [offset : Nat, todo : SUBSET Jobs]
  BY EmptySeq DEF ForgetMemory

LEMMA WritesType ==
  ASSUME NEW op \in DOMAIN Writes
  PROVE  Writes[op] \in Statuses
  BY DEF Writes

LEMMA AheadType ==
  ASSUME TypeOK
  PROVE  /\ IsFiniteSet(Listed) /\ Listed \subseteq Nat
         /\ \A i \in DOMAIN created : Ahead(i) \in Nat
  <1>1. IsFiniteSet(DOMAIN created)
    BY FS_Interval, LenProperties DEF TypeOK
  <1>2. IsFiniteSet(Listed)  BY <1>1, FS_Subset DEF Listed
  <1>3. ASSUME NEW i \in DOMAIN created PROVE Ahead(i) \in Nat
    <2>1. IsFiniteSet({k \in Listed : k < i})  BY <1>2, FS_Subset
    <2> QED BY <2>1, FS_CardinalityType DEF Ahead
  <1>4. Listed \subseteq Nat
    <2>1. DOMAIN created \subseteq Nat  BY LenProperties DEF TypeOK
    <2> QED BY <2>1 DEF Listed
  <1> QED BY <1>2, <1>3, <1>4

LEMMA PageFromFinite ==
  ASSUME TypeOK, NEW offset \in Nat
  PROVE  IsFiniteSet(PageFrom(offset)) /\ Cardinality(PageFrom(offset)) \in Nat
  <1>1. PageFrom(offset) \subseteq Listed  BY DEF PageFrom
  <1> QED BY <1>1, AheadType, FS_Subset, FS_CardinalityType

\* The variables of the queue keep their types: every backend operation
\* names a job of its kind, every status written is one of JobStatus, and the
\* paging of shutdown stays a natural offset.
THEOREM TypeCorrect == Spec => []TypeOK
<1>1. Init => TypeOK
  BY JobQueueAssumption, EmptySeq DEF Init, TypeOK, Budgets
<1>2. TypeOK /\ [Next]_vars => TypeOK'
  <2> SUFFICES ASSUME TypeOK, [Next]_vars PROVE TypeOK'
    OBVIOUS
  <2> USE DEF TypeOK, database, memory, history, control
  <2>1. ASSUME NEW j \in Jobs, SubmitCall(j) PROVE TypeOK'
    <3>1. created' \in Seq(Jobs)  BY <2>1 DEF SubmitCall
    <3> QED BY <2>1, <3>1, EnqueueType DEF SubmitCall
  <2>2. ASSUME NEW j \in Jobs, CancelCall(j) PROVE TypeOK'
    BY <2>2, EnqueueType DEF CancelCall
  <2>3. CASE ClearCall
    <3>1. Op("clear", NoJob) \in Operations  BY DEF Operations
    <3>2. lockq' \in Seq(Operations)
      BY <2>3, <3>1, AppendElements DEF ClearCall, Enqueue
    <3>3. budget' \in Budgets  BY <2>3, BudgetType DEF ClearCall
    <3> QED BY <2>3, <3>2, <3>3 DEF ClearCall
  <2>4. ASSUME NEW j \in Jobs, SubmitServe(j) PROVE TypeOK'
    BY <2>4, LeaveType, EmitType, AppendElements
    DEF SubmitServe, AtHead, Write, Writes
  <2>5. ASSUME NEW j \in Jobs, CancelRefused(j) PROVE TypeOK'
    BY <2>5, LeaveType DEF CancelRefused, AtHead
  <2>6. ASSUME NEW j \in Jobs, CancelAccepted(j) PROVE TypeOK'
    BY <2>6, LeaveType, ThenType DEF CancelAccepted, AtHead
  <2>7. ASSUME NEW j \in Jobs, CancelWrite(j) PROVE TypeOK'
    BY <2>7, LeaveType, EmitType DEF CancelWrite, AtHead, Write, Writes
  <2>8. ASSUME NEW j \in Jobs, WorkerLoad(j) PROVE TypeOK'
    BY <2>8, LeaveType, ThenType DEF WorkerLoad, AtHead
  <2>9. ASSUME NEW j \in Jobs, WorkerStart(j) PROVE TypeOK'
    BY <2>9, LeaveType, EmitType DEF WorkerStart, AtHead, Write, Writes
  <2>10. ASSUME NEW j \in Jobs, StoreArtifact(j) PROVE TypeOK'
    BY <2>10, ThenType DEF StoreArtifact, AtHead
  <2>11. ASSUME NEW j \in Jobs, FinalRead(j) PROVE TypeOK'
    <3>1. CASE rows[j] = "absent"
      BY <2>11, <3>1, LeaveType, EmitType DEF FinalRead, ReadToEnd, AtHead
    <3>2. CASE rows[j] # "absent"
      BY <2>11, <3>2, ThenType DEF FinalRead, ReadToEnd, AtHead
    <3> QED BY <3>1, <3>2
  <2>12. ASSUME NEW j \in Jobs, FinalWrite(j) PROVE TypeOK'
    BY <2>12, LeaveType, EmitType
    DEF FinalWrite, EndWith, AtHead, Write, Writes
  <2>13. ASSUME NEW j \in Jobs, MarkRead(j) PROVE TypeOK'
    BY <2>13, LeaveType, ThenType DEF MarkRead, AtHead
  <2>14. ASSUME NEW j \in Jobs, MarkWrite(j) PROVE TypeOK'
    BY <2>14, LeaveType, EmitType
    DEF MarkWrite, EndWith, AtHead, Write, Writes
  <2>15. ASSUME NEW j \in Jobs, ErrorRead(j) PROVE TypeOK'
    <3>1. CASE rows[j] = "absent"
      BY <2>15, <3>1, LeaveType, EmitType DEF ErrorRead, ReadToEnd, AtHead
    <3>2. CASE rows[j] # "absent"
      BY <2>15, <3>2, ThenType DEF ErrorRead, ReadToEnd, AtHead
    <3> QED BY <3>1, <3>2
  <2>16. ASSUME NEW j \in Jobs, ErrorWrite(j) PROVE TypeOK'
    BY <2>16, LeaveType, EmitType
    DEF ErrorWrite, EndWith, AtHead, Write, Writes
  <2>17. CASE ClearServe
    BY <2>17, LeaveType DEF ClearServe, AtHead, Range
  <2>18. CASE WorkerTake
    <3>1. Head(fifo) \in Jobs /\ Tail(fifo) \in Seq(Jobs)
      BY <2>18, TailElements DEF WorkerTake
    <3>2. \/ Enqueue("marked_get", Head(fifo))
          \/ Enqueue("start_get", Head(fifo))
      BY <2>18 DEF WorkerTake
    <3>3. lockq' \in Seq(Operations)
      BY <3>1, <3>2, EnqueueType
    <3> QED BY <2>18, <3>1, <3>3 DEF WorkerTake
  <2>19. ASSUME NEW j \in Jobs, NEW next \in WorkerOps, AfterRunner(j, next)
         PROVE TypeOK'
    BY <2>19, EnqueueType DEF AfterRunner
  <2>20. CASE RunnerEnds
    BY <2>19, <2>20 DEF RunnerEnds, RunnerReturns, RunnerRaises, RunnerCancelled
  <2>21. CASE BackendFault
    <3>1. budget' \in Budgets  BY <2>21, BudgetType DEF BackendFault
    <3>2. worker' \in Workers  BY <2>21 DEF BackendFault
    <3> QED BY <2>21, <3>1, <3>2, LeaveType DEF BackendFault
  <2>22. ASSUME NEW j \in Jobs, RunnerAborts(j) PROVE TypeOK'
    <3>1. budget' \in Budgets  BY <2>22, BudgetType DEF RunnerAborts
    <3>2. worker' \in Workers  BY <2>22 DEF RunnerAborts
    <3> QED BY <2>22, <3>1, <3>2 DEF RunnerAborts
  <2>23. CASE Crash
    <3>1. budget' \in Budgets  BY <2>23, BudgetType DEF Crash
    <3> QED BY <2>23, <3>1, ForgetMemoryType DEF Crash
  <2>24. CASE ShutdownBegin
    <3>1. budget' \in Budgets  BY <2>24, BudgetType DEF ShutdownBegin
    <3> QED BY <2>24, <3>1, EmptySeq DEF ShutdownBegin
  <2>25. CASE ShutdownAborts
    <3>1. budget' \in Budgets  BY <2>25, BudgetType DEF ShutdownAborts
    <3> QED BY <2>25, <3>1, ForgetMemoryType DEF ShutdownAborts
  <2>26. CASE OrphanLands
    <3>1. Head(orphan) \in Operations
      BY <2>26, TailElements DEF OrphanLands
    <3>2. Head(orphan).op = "artifact_put" => Head(orphan).job \in Jobs
      BY <3>1 DEF Operations, Op
    <3>3. rows' \in [Jobs -> Statuses \cup {"absent"}]
      BY <2>26, WritesType DEF OrphanLands
    <3> QED BY <2>26, <3>2, <3>3, EmptySeq DEF OrphanLands
  <2>27. CASE ShutdownPage
    <3> DEFINE page == PageFrom(paging.offset)
               queued == {j \in Jobs : rows[j] = "queued"
                                         /\ \E i \in page : created[i] = j}
    <3>1. Cardinality(page) \in Nat  BY PageFromFinite DEF TypeOK
    <3>2. paging.offset + Cardinality(page) \in Nat  BY <3>1
    <3>3. queued \in SUBSET Jobs  OBVIOUS
    <3>4. paging' = [offset |-> paging.offset + Cardinality(page),
                     todo |-> queued]
      BY <2>27 DEF ShutdownPage
    <3> HIDE DEF page, queued
    <3>5. paging' \in [offset : Nat, todo : SUBSET Jobs]
      BY <3>2, <3>3, <3>4
    <3> QED BY <2>27, <3>5 DEF ShutdownPage
  <2>28. ASSUME NEW j \in Jobs, ShutdownMark(j) PROVE TypeOK'
    BY <2>28 DEF ShutdownMark
  <2>29. CASE ShutdownEnd
    BY <2>29, ForgetMemoryType DEF ShutdownEnd
  <2>30. CASE Restart
    BY <2>30 DEF Restart, Range
  <2>31. CASE UNCHANGED vars
    BY <2>31 DEF vars
  <2> QED
    BY <2>1, <2>2, <2>3, <2>4, <2>5, <2>6, <2>7, <2>8, <2>9, <2>10, <2>11,
       <2>12, <2>13, <2>14, <2>15, <2>16, <2>17, <2>18, <2>20, <2>21, <2>22,
       <2>23, <2>24, <2>25, <2>26, <2>27, <2>28, <2>29, <2>30, <2>31
    DEF Next, ClientCall, Serve, Failure, StopStart
<1> QED BY <1>1, <1>2, PTL DEF Spec

-----------------------------------------------------------------------------
(* A complete row has its result.                                          *)

\* The read and the write that complete a job are asked for, or are still in
\* a thread, only once the job's result has been stored.
StoredFirst(queue) ==
  \A i \in DOMAIN queue :
    queue[i].op \in {"final_get", "final_put"} => queue[i].job \in artifacts

\* CompleteHasResult is not inductive: it needs the operations under way.
ResultInv ==
  /\ CompleteHasResult
  /\ StoredFirst(lockq)
  /\ StoredFirst(orphan)

LEMMA LeaveKeepsStored ==
  ASSUME TypeOK, StoredFirst(lockq), lockq # <<>>, Leave,
         artifacts \subseteq artifacts'
  PROVE  StoredFirst(lockq)'
  <1>1. \A i \in DOMAIN Tail(lockq) :
          i + 1 \in DOMAIN lockq /\ Tail(lockq)[i] = lockq[i + 1]
    BY TailElements DEF TypeOK
  <1> QED BY <1>1 DEF Leave, StoredFirst

LEMMA EnqueueKeepsStored ==
  ASSUME TypeOK, StoredFirst(lockq), artifacts \subseteq artifacts',
         NEW name \in JobOps, NEW j \in Jobs, Enqueue(name, j),
         name \in {"final_get", "final_put"} => j \in artifacts'
  PROVE  StoredFirst(lockq)'
  <1>1. Op(name, j) \in Operations  BY DEF Op, Operations
  <1>2. \A i \in DOMAIN lockq' :
          \/ i \in DOMAIN lockq /\ lockq'[i] = lockq[i]
          \/ lockq'[i] = Op(name, j)
    BY SMTT(30), <1>1, AppendElements DEF TypeOK, Enqueue
  <1> QED BY <1>2 DEF StoredFirst, Op

LEMMA ThenKeepsStored ==
  ASSUME TypeOK, StoredFirst(lockq), artifacts \subseteq artifacts',
         lockq # <<>>,
         NEW name \in JobOps, NEW j \in Jobs, Then(name, j),
         name \in {"final_get", "final_put"} => j \in artifacts'
  PROVE  StoredFirst(lockq)'
  <1>1. Op(name, j) \in Operations  BY DEF Op, Operations
  <1>2. /\ Tail(lockq) \in Seq(Operations)
        /\ \A i \in DOMAIN Tail(lockq) :
             i + 1 \in DOMAIN lockq /\ Tail(lockq)[i] = lockq[i + 1]
    BY TailElements DEF TypeOK
  <1>3. \A i \in DOMAIN lockq' :
          \/ i \in DOMAIN Tail(lockq) /\ lockq'[i] = Tail(lockq)[i]
          \/ lockq'[i] = Op(name, j)
    BY <1>1, <1>2, AppendElements DEF Then
  <1> QED BY <1>2, <1>3 DEF StoredFirst, Op

\* What the head of the queue says of the job whose operation is served.
LEMMA HeadStored ==
  ASSUME TypeOK, StoredFirst(lockq), NEW j \in Jobs, NEW name,
         AtHead(name, j), name \in {"final_get", "final_put"}
  PROVE  j \in artifacts
  <1>1. 1 \in DOMAIN lockq /\ Head(lockq) = lockq[1]
    BY LenProperties, EmptySeq DEF TypeOK, AtHead
  <1> QED BY <1>1 DEF AtHead, StoredFirst, Op

\* A status other than "complete" is no threat to CompleteHasResult.
LEMMA WriteKeepsResult ==
  ASSUME TypeOK, CompleteHasResult, artifacts \subseteq artifacts',
         NEW j \in Jobs, NEW name \in DOMAIN Writes, Write(name, j),
         name = "final_put" => j \in artifacts
  PROVE  CompleteHasResult'
  BY DEF TypeOK, CompleteHasResult, Write, Writes

\* A row never says "complete" before the result blob it points to was stored,
\* whatever the calls, failures, crashes and shutdowns in between.
THEOREM ResultStored == Spec => []CompleteHasResult
<1>1. Init => ResultInv
  BY EmptySeq DEF Init, ResultInv, CompleteHasResult, StoredFirst
<1>2. TypeOK /\ ResultInv /\ [Next]_vars => ResultInv'
  <2> SUFFICES ASSUME TypeOK, ResultInv, [Next]_vars PROVE ResultInv'
    OBVIOUS
  <2> USE DEF ResultInv, database, memory, history, control
  <2>1. ASSUME UNCHANGED <<rows, artifacts, orphan>>, StoredFirst(lockq)'
        PROVE  ResultInv'
    BY <2>1 DEF CompleteHasResult, StoredFirst
  <2>2. ASSUME UNCHANGED <<rows, artifacts, orphan, lockq>> PROVE ResultInv'
    BY <2>2 DEF CompleteHasResult, StoredFirst
  <2>3. ASSUME UNCHANGED <<rows, artifacts, orphan>>, lockq # <<>>, Leave
        PROVE  ResultInv'
    BY <2>1, <2>3, LeaveKeepsStored
  <2>4. ASSUME NEW j \in Jobs, SubmitCall(j) PROVE ResultInv'
    BY <2>1, <2>4, EnqueueKeepsStored DEF SubmitCall
  <2>5. ASSUME NEW j \in Jobs, CancelCall(j) PROVE ResultInv'
    BY <2>1, <2>5, EnqueueKeepsStored DEF CancelCall
  <2>6. CASE ClearCall
    <3>1. Op("clear", NoJob) \in Operations  BY DEF Operations
    <3>2. \A i \in DOMAIN lockq' :
            \/ i \in DOMAIN lockq /\ lockq'[i] = lockq[i]
            \/ lockq'[i] = Op("clear", NoJob)
      BY <2>6, <3>1, AppendElements DEF TypeOK, ClearCall, Enqueue
    <3>3. StoredFirst(lockq)'
      BY <2>6, <3>2 DEF ClearCall, StoredFirst, Op
    <3> QED BY <2>1, <2>6, <3>3 DEF ClearCall
  <2>7. ASSUME NEW j \in Jobs, SubmitServe(j) PROVE ResultInv'
    BY <2>7, WriteKeepsResult, LeaveKeepsStored
    DEF SubmitServe, AtHead, StoredFirst, Writes
  <2>8. ASSUME NEW j \in Jobs, CancelRefused(j) PROVE ResultInv'
    BY <2>3, <2>8 DEF CancelRefused, AtHead
  <2>9. ASSUME NEW j \in Jobs, CancelAccepted(j) PROVE ResultInv'
    BY <2>1, <2>9, LeaveKeepsStored, ThenKeepsStored DEF CancelAccepted, AtHead
  <2>10. ASSUME NEW j \in Jobs, CancelWrite(j) PROVE ResultInv'
    BY <2>10, WriteKeepsResult, LeaveKeepsStored
    DEF CancelWrite, AtHead, StoredFirst, Writes
  <2>11. ASSUME NEW j \in Jobs, WorkerLoad(j) PROVE ResultInv'
    BY <2>1, <2>11, LeaveKeepsStored, ThenKeepsStored DEF WorkerLoad, AtHead
  <2>12. ASSUME NEW j \in Jobs, WorkerStart(j) PROVE ResultInv'
    BY <2>12, WriteKeepsResult, LeaveKeepsStored
    DEF WorkerStart, AtHead, StoredFirst, Writes
  \* The result is stored here, and only then is the final read asked for.
  <2>13. ASSUME NEW j \in Jobs, StoreArtifact(j) PROVE ResultInv'
    <3>1. artifacts \subseteq artifacts' /\ j \in artifacts'
      BY <2>13 DEF StoreArtifact
    <3>2. StoredFirst(lockq)'
      BY <2>13, <3>1, ThenKeepsStored DEF StoreArtifact, AtHead
    <3> QED BY <2>13, <3>1, <3>2 DEF StoreArtifact, CompleteHasResult, StoredFirst
  <2>14. ASSUME NEW j \in Jobs, FinalRead(j) PROVE ResultInv'
    <3>1. j \in artifacts  BY <2>14, HeadStored DEF FinalRead, ReadToEnd
    <3> QED BY <2>1, <2>14, <3>1, LeaveKeepsStored, ThenKeepsStored
            DEF FinalRead, ReadToEnd, AtHead
  \* The only write of "complete": its job was found stored when it was asked.
  <2>15. ASSUME NEW j \in Jobs, FinalWrite(j) PROVE ResultInv'
    <3>1. j \in artifacts  BY <2>15, HeadStored DEF FinalWrite, EndWith
    <3> QED BY <2>15, <3>1, WriteKeepsResult, LeaveKeepsStored
            DEF FinalWrite, EndWith, AtHead, StoredFirst, Writes
  <2>16. ASSUME NEW j \in Jobs, MarkRead(j) PROVE ResultInv'
    BY <2>1, <2>16, LeaveKeepsStored, ThenKeepsStored DEF MarkRead, AtHead
  <2>17. ASSUME NEW j \in Jobs, MarkWrite(j) PROVE ResultInv'
    BY <2>17, WriteKeepsResult, LeaveKeepsStored
    DEF MarkWrite, EndWith, AtHead, StoredFirst, Writes
  <2>18. ASSUME NEW j \in Jobs, ErrorRead(j) PROVE ResultInv'
    BY <2>1, <2>18, LeaveKeepsStored, ThenKeepsStored
    DEF ErrorRead, ReadToEnd, AtHead
  <2>19. ASSUME NEW j \in Jobs, ErrorWrite(j) PROVE ResultInv'
    BY <2>19, WriteKeepsResult, LeaveKeepsStored
    DEF ErrorWrite, EndWith, AtHead, StoredFirst, Writes
  <2>20. CASE ClearServe
    BY <2>20, LeaveKeepsStored DEF ClearServe, AtHead, CompleteHasResult, StoredFirst
  <2>21. CASE WorkerTake
    <3>1. Head(fifo) \in Jobs
      BY <2>21, TailElements DEF TypeOK, WorkerTake
    <3>2. \/ Enqueue("marked_get", Head(fifo))
          \/ Enqueue("start_get", Head(fifo))
      BY <2>21 DEF WorkerTake
    <3>3. StoredFirst(lockq)'
      BY <2>21, <3>1, <3>2, EnqueueKeepsStored DEF WorkerTake
    <3> QED BY <2>1, <2>21, <3>3 DEF WorkerTake
  <2>22. ASSUME NEW j \in Jobs,
                NEW next \in {"marked_get", "artifact_put", "error_get"},
                AfterRunner(j, next)
         PROVE  ResultInv'
    BY <2>1, <2>22, EnqueueKeepsStored DEF AfterRunner
  <2>23. CASE RunnerEnds
    BY <2>22, <2>23 DEF RunnerEnds, RunnerReturns, RunnerRaises, RunnerCancelled
  <2>24. CASE BackendFault
    BY <2>3, <2>24 DEF BackendFault
  <2>25. ASSUME NEW j \in Jobs, RunnerAborts(j) PROVE ResultInv'
    BY <2>2, <2>25 DEF RunnerAborts
  <2>26. ASSUME ForgetMemory, UNCHANGED <<rows, artifacts>> PROVE ResultInv'
    BY <2>26, EmptySeq DEF ForgetMemory, CompleteHasResult, StoredFirst
  <2>27. CASE Crash
    BY <2>26, <2>27 DEF Crash
  \* The operations under way are now those of the orphaned thread.
  <2>28. CASE ShutdownBegin
    BY <2>28, EmptySeq DEF ShutdownBegin, CompleteHasResult, StoredFirst
  <2>29. CASE ShutdownAborts
    BY <2>26, <2>29 DEF ShutdownAborts
  <2>30. CASE OrphanLands
    <3>1. 1 \in DOMAIN orphan /\ Head(orphan) = orphan[1]
      BY <2>30, LenProperties, EmptySeq DEF TypeOK, OrphanLands
    <3>2. Head(orphan).op = "final_put" => Head(orphan).job \in artifacts
      BY <3>1 DEF StoredFirst
    <3>3. artifacts \subseteq artifacts'
      BY <2>30 DEF OrphanLands
    <3>4. CompleteHasResult'
      BY <2>30, <3>2, <3>3 DEF TypeOK, OrphanLands, CompleteHasResult, Writes
    <3> QED BY <2>30, <3>3, <3>4, EmptySeq DEF OrphanLands, StoredFirst
  <2>31. CASE ShutdownPage
    BY <2>2, <2>31 DEF ShutdownPage
  <2>32. ASSUME NEW j \in Jobs, ShutdownMark(j) PROVE ResultInv'
    BY <2>32 DEF TypeOK, ShutdownMark, CompleteHasResult, StoredFirst
  <2>33. CASE ShutdownEnd
    BY <2>26, <2>33 DEF ShutdownEnd
  <2>34. CASE Restart
    BY <2>2, <2>34 DEF Restart
  <2>35. CASE UNCHANGED vars
    BY <2>2, <2>35 DEF vars
  <2> QED
    BY <2>4, <2>5, <2>6, <2>7, <2>8, <2>9, <2>10, <2>11, <2>12, <2>13, <2>14,
       <2>15, <2>16, <2>17, <2>18, <2>19, <2>20, <2>21, <2>23, <2>24, <2>25,
       <2>27, <2>28, <2>29, <2>30, <2>31, <2>32, <2>33, <2>34, <2>35
    DEF Next, ClientCall, Serve, Failure, StopStart
<1> QED BY <1>1, <1>2, TypeCorrect, PTL DEF Spec, ResultInv

-----------------------------------------------------------------------------
(* Nothing is known of an id before a submit draws it.                     *)

Among(queue, S) == \A i \in DOMAIN queue : queue[i].job \in S

Known == Range(created) \cup {NoJob}

KnownInv ==
  /\ Among(lockq, Known) /\ Among(orphan, Known)
  /\ \A i \in DOMAIN fifo : fifo[i] \in Known
  /\ paging.todo \subseteq Known
  /\ worker.job \in Known
  /\ \A j \in Jobs : rows[j] # "absent" \/ events[j] # <<>> => j \in Known

LEMMA AmongTail ==
  ASSUME NEW q \in Seq(Operations), q # <<>>, NEW S, Among(q, S)
  PROVE  Among(Tail(q), S) /\ Head(q).job \in S
  <1>1. \A i \in DOMAIN Tail(q) : i + 1 \in DOMAIN q /\ Tail(q)[i] = q[i + 1]
    BY TailElements
  <1>2. 1 \in DOMAIN q /\ Head(q) = q[1]
    BY LenProperties, EmptySeq
  <1> QED BY <1>1, <1>2 DEF Among

LEMMA AmongAppend ==
  ASSUME NEW q \in Seq(Operations), NEW x \in Operations, NEW S,
         Among(q, S), x.job \in S
  PROVE  Among(Append(q, x), S)
  <1>1. \A i \in DOMAIN Append(q, x) :
          \/ i \in DOMAIN q /\ Append(q, x)[i] = q[i]
          \/ Append(q, x)[i] = x
    BY AppendElements
  <1> QED BY <1>1 DEF Among

\* The queue's line after a caller entered it, left it, or asked again.
LEMMA LineKnown ==
  ASSUME TypeOK, Among(lockq, Known)
  PROVE  /\ \A name \in JobOps, j \in Jobs :
              j \in Known /\ Enqueue(name, j) => Among(lockq', Known)
         /\ lockq # <<>> /\ Leave => Among(lockq', Known)
         /\ \A name \in JobOps, j \in Jobs :
              lockq # <<>> /\ j \in Known /\ Then(name, j)
                => Among(lockq', Known)
  <1>1. lockq \in Seq(Operations)  BY DEF TypeOK
  <1>2. ASSUME NEW name \in JobOps, NEW j \in Jobs
        PROVE  Op(name, j) \in Operations /\ Op(name, j).job = j
    BY DEF Op, Operations
  <1>3. ASSUME lockq # <<>>
        PROVE  Tail(lockq) \in Seq(Operations) /\ Among(Tail(lockq), Known)
    BY <1>1, <1>3, TailElements, AmongTail
  <1>4. ASSUME NEW name \in JobOps, NEW j \in Jobs, j \in Known,
               Enqueue(name, j)
        PROVE  Among(lockq', Known)
    BY <1>1, <1>2, <1>4, AmongAppend DEF Enqueue
  <1>5. ASSUME NEW name \in JobOps, NEW j \in Jobs, j \in Known,
               lockq # <<>>, Then(name, j)
        PROVE  Among(lockq', Known)
    BY <1>2, <1>3, <1>5, AmongAppend DEF Then
  <1> QED BY <1>3, <1>4, <1>5 DEF Leave

LEMMA HeadKnown ==
  ASSUME TypeOK, Among(lockq, Known), NEW name, NEW j \in Jobs, AtHead(name, j)
  PROVE  j \in Known
  BY AmongTail DEF TypeOK, AtHead, Op

\* Rows, events, waiting operations and queued ids are those of submitted jobs.
\* A submitted job comes first in the listing, before all the others.
LEMMA NewestFirst ==
  ASSUME TypeOK, NEW j \in Jobs, SubmitCall(j)
  PROVE  /\ created' \in Seq(Jobs)
         /\ Len(created') = 1 + Len(created)
         /\ \A i \in 1 .. 1 + Len(created) :
              created'[i] = IF i <= 1 THEN j ELSE created[i - 1]
         /\ Range(created') = Range(created) \cup {j}
  <1>1. /\ created \in Seq(Jobs) /\ <<j>> \in Seq(Jobs) /\ Len(<<j>>) = 1
        /\ created' = <<j>> \o created
    BY DEF SubmitCall, TypeOK
  <1>2. /\ created' \in Seq(Jobs)
        /\ Len(created') = 1 + Len(created)
        /\ \A i \in 1 .. 1 + Len(created) :
             created'[i] = IF i <= 1 THEN j ELSE created[i - 1]
    BY <1>1, ConcatProperties
  <1>3. /\ DOMAIN created' = 1 .. 1 + Len(created)
        /\ DOMAIN created = 1 .. Len(created) /\ Len(created) \in Nat
    BY <1>1, <1>2, LenProperties
  <1>4. ASSUME NEW x \in Range(created) PROVE x \in Range(created')
    <2>1. PICK i \in DOMAIN created : created[i] = x  BY DEF Range
    <2>2. /\ i + 1 \in 1 .. 1 + Len(created) /\ ~(i + 1 <= 1)
          /\ (i + 1) - 1 = i
      BY <1>3
    <2> QED BY <1>2, <1>3, <2>1, <2>2 DEF Range
  <1>5. ASSUME NEW x \in Range(created')
        PROVE  x \in Range(created) \cup {j}
    <2>1. PICK i \in 1 .. 1 + Len(created) : created'[i] = x
      BY <1>3 DEF Range
    <2>2. CASE i <= 1
      BY <1>2, <2>1, <2>2
    <2>3. CASE ~(i <= 1)
      <3>1. created[i - 1] = x /\ i - 1 \in DOMAIN created
        BY <1>2, <1>3, <2>1, <2>3
      <3> QED BY <3>1 DEF Range
    <2> QED BY <2>2, <2>3
  <1>6. j \in Range(created')
    <2>1. 1 \in 1 .. 1 + Len(created)  BY <1>3
    <2>2. created'[1] = j  BY <1>2, <2>1
    <2> QED BY <1>3, <2>1, <2>2 DEF Range
  <1> QED BY <1>2, <1>4, <1>5, <1>6

LEMMA OnlyKnown == Spec => []KnownInv
<1>1. Init => KnownInv
  BY EmptySeq DEF Init, KnownInv, Among, Known
<1>2. TypeOK /\ KnownInv /\ [Next]_vars => KnownInv'
  <2> SUFFICES ASSUME TypeOK, KnownInv, [Next]_vars PROVE KnownInv'
    OBVIOUS
  <2> USE DEF database, memory, history, control
  <2>0. ASSUME UNCHANGED created PROVE Known' = Known
    BY <2>0 DEF Known
  <2>1. ASSUME UNCHANGED <<rows, created, fifo, events, paging, orphan>>,
               worker'.job \in {worker.job, NoJob}, Among(lockq', Known)
        PROVE  KnownInv'
    BY <2>0, <2>1 DEF KnownInv, Among, Known
  <2>2. ASSUME NEW j \in Jobs, j \in Known,
               UNCHANGED <<created, fifo, paging, orphan>>,
               worker'.job \in {worker.job, NoJob},
               \A i \in Jobs : i # j => /\ rows'[i] = rows[i]
                                       /\ events'[i] = events[i],
               Among(lockq', Known)
        PROVE  KnownInv'
    BY <2>0, <2>2 DEF KnownInv, Among, Known
  <2>3. ASSUME NEW j \in Jobs, SubmitCall(j) PROVE KnownInv'
    <3>1. Known' = Known \cup {j}
      BY <2>3, NewestFirst DEF Known
    <3>2. Among(lockq', Known')
      <4>1. Op("submit_put", j) \in Operations /\ Op("submit_put", j).job = j
        BY DEF Op, Operations
      <4>2. Among(lockq, Known')  BY <3>1 DEF KnownInv, Among
      <4>3. lockq' = Append(lockq, Op("submit_put", j))
        BY <2>3 DEF SubmitCall, Enqueue
      <4> QED BY <3>1, <4>1, <4>2, <4>3, AmongAppend DEF TypeOK
    <3> QED BY <2>3, <3>1, <3>2 DEF SubmitCall, KnownInv, Among
  <2>4. ASSUME NEW j \in Jobs, CancelCall(j) PROVE KnownInv'
    BY <2>1, <2>4, LineKnown DEF CancelCall, KnownInv
  <2>5. CASE ClearCall
    <3>1. Op("clear", NoJob) \in Operations /\ Op("clear", NoJob).job = NoJob
      BY DEF Op, Operations
    <3>2. Among(lockq', Known)
      BY <2>5, <3>1, AmongAppend DEF ClearCall, Enqueue, KnownInv, TypeOK, Known
    <3> QED BY <2>1, <2>5, <3>2 DEF ClearCall
  <2>6. ASSUME NEW j \in Jobs, SubmitServe(j) PROVE KnownInv'
    <3>1. j \in Known  BY <2>6, HeadKnown DEF SubmitServe, KnownInv
    <3>2. Among(lockq', Known)
      BY <2>6, LineKnown DEF SubmitServe, AtHead, KnownInv
    <3>3. \A i \in DOMAIN fifo' : fifo'[i] \in Known
      <4>1. \A i \in DOMAIN fifo' : \/ i \in DOMAIN fifo /\ fifo'[i] = fifo[i]
                                    \/ fifo'[i] = j
        BY SMTT(30), <2>6, AppendElements DEF SubmitServe, TypeOK
      <4> QED BY <3>1, <4>1 DEF KnownInv
    <3>4. \A i \in Jobs : i # j => rows'[i] = rows[i] /\ events'[i] = events[i]
      BY <2>6 DEF SubmitServe, Write, Emit, TypeOK
    <3> QED BY <2>0, <2>6, <3>1, <3>2, <3>3, <3>4
            DEF SubmitServe, KnownInv, Among
  <2>7. ASSUME NEW j \in Jobs, CancelRefused(j) PROVE KnownInv'
    BY <2>1, <2>7, LineKnown DEF CancelRefused, AtHead, KnownInv
  <2>8. ASSUME NEW j \in Jobs, CancelAccepted(j) PROVE KnownInv'
    <3>1. j \in Known  BY <2>8, HeadKnown DEF CancelAccepted, KnownInv
    <3> QED BY <2>1, <2>8, <3>1, LineKnown DEF CancelAccepted, AtHead, KnownInv
  \* A write and an event are of the job whose operation was waiting.
  <2>9. ASSUME NEW j \in Jobs, NEW name, AtHead(name, j), Leave,
               UNCHANGED <<created, fifo, paging, orphan>>,
               worker'.job \in {worker.job, NoJob},
               \A i \in Jobs : i # j => /\ rows'[i] = rows[i]
                                       /\ events'[i] = events[i]
        PROVE  KnownInv'
    <3>1. j \in Known  BY <2>9, HeadKnown DEF KnownInv
    <3>2. Among(lockq', Known)  BY <2>9, LineKnown DEF AtHead, KnownInv
    <3> QED BY <2>2, <2>9, <3>1, <3>2
  <2>10. ASSUME NEW j \in Jobs, CancelWrite(j) PROVE KnownInv'
    BY <2>9, <2>10 DEF CancelWrite, Write, Emit, TypeOK
  <2>11. ASSUME NEW j \in Jobs, WorkerLoad(j) PROVE KnownInv'
    <3>1. j \in Known  BY <2>11, HeadKnown DEF WorkerLoad, KnownInv
    <3> QED BY <2>1, <2>11, <3>1, LineKnown DEF WorkerLoad, AtHead, KnownInv
  <2>12. ASSUME NEW j \in Jobs, WorkerStart(j) PROVE KnownInv'
    BY <2>9, <2>12 DEF WorkerStart, Write, Emit, TypeOK
  <2>13. ASSUME NEW j \in Jobs, StoreArtifact(j) PROVE KnownInv'
    <3>1. j \in Known  BY <2>13, HeadKnown DEF StoreArtifact, KnownInv
    <3> QED BY <2>1, <2>13, <3>1, LineKnown DEF StoreArtifact, AtHead, KnownInv
  <2>14. ASSUME NEW j \in Jobs, NEW put \in JobOps, NEW kind, NEW get,
                ReadToEnd(get, put, kind, j)
         PROVE  KnownInv'
    <3>1. CASE rows[j] = "absent"
      BY <2>9, <2>14, <3>1 DEF ReadToEnd, Emit, TypeOK
    <3>2. CASE rows[j] # "absent"
      <4>1. j \in Known  BY <2>14, HeadKnown DEF ReadToEnd, KnownInv
      <4>2. AtHead(get, j) /\ Then(put, j)
            /\ UNCHANGED <<rows, created, fifo, events, paging, orphan, worker>>
        BY <2>14, <3>2 DEF ReadToEnd
      <4> QED BY <2>1, <4>1, <4>2, LineKnown DEF AtHead, KnownInv
    <3> QED BY <3>1, <3>2
  <2>15. ASSUME NEW j \in Jobs, FinalRead(j) \/ ErrorRead(j) PROVE KnownInv'
    BY <2>14, <2>15 DEF FinalRead, ErrorRead
  <2>16. ASSUME NEW j \in Jobs, NEW op, NEW kind, EndWith(op, kind, j)
         PROVE  KnownInv'
    BY <2>9, <2>16 DEF EndWith, Write, Emit, TypeOK
  <2>17. ASSUME NEW j \in Jobs, FinalWrite(j) \/ MarkWrite(j) \/ ErrorWrite(j)
         PROVE  KnownInv'
    BY <2>16, <2>17 DEF FinalWrite, MarkWrite, ErrorWrite
  <2>18. ASSUME NEW j \in Jobs, MarkRead(j) PROVE KnownInv'
    <3>1. j \in Known  BY <2>18, HeadKnown DEF MarkRead, KnownInv
    <3> QED BY <2>1, <2>18, <3>1, LineKnown DEF MarkRead, AtHead, KnownInv
  <2>19. CASE ClearServe
    <3>1. Among(lockq', Known)
      BY <2>19, LineKnown DEF ClearServe, AtHead, KnownInv
    <3> QED BY <2>0, <2>19, <3>1 DEF ClearServe, KnownInv, Among
  <2>20. CASE WorkerTake
    <3>1. /\ Head(fifo) \in Jobs
          /\ \A i \in DOMAIN Tail(fifo) :
               i + 1 \in DOMAIN fifo /\ Tail(fifo)[i] = fifo[i + 1]
      BY <2>20, TailElements DEF WorkerTake, TypeOK
    <3>2. Head(fifo) \in Known
      BY <2>20, LenProperties, EmptySeq DEF WorkerTake, KnownInv, TypeOK
    <3>3. \/ Enqueue("marked_get", Head(fifo))
          \/ Enqueue("start_get", Head(fifo))
      BY <2>20 DEF WorkerTake
    <3>4. Among(lockq', Known)
      BY <3>1, <3>2, <3>3, LineKnown DEF KnownInv
    <3>5. /\ fifo' = Tail(fifo) /\ worker'.job = Head(fifo)
          /\ UNCHANGED <<rows, created, events, paging, orphan>>
      BY <2>20 DEF WorkerTake
    <3> QED BY <2>0, <3>1, <3>2, <3>4, <3>5 DEF KnownInv, Among
  <2>21. ASSUME NEW j \in Jobs, NEW next \in WorkerOps, AfterRunner(j, next)
         PROVE  KnownInv'
    <3>1. worker'.job = worker.job /\ worker.job = j
      BY <2>21 DEF AfterRunner, TypeOK
    <3> QED BY <2>1, <2>21, <3>1, LineKnown DEF AfterRunner, KnownInv
  <2>22. CASE RunnerEnds
    BY <2>21, <2>22 DEF RunnerEnds, RunnerReturns, RunnerRaises, RunnerCancelled
  <2>23. CASE BackendFault
    <3>1. worker'.job = worker.job
      BY <2>23 DEF BackendFault, TypeOK
    <3> QED BY <2>1, <2>23, <3>1, LineKnown DEF BackendFault, KnownInv
  <2>24. ASSUME NEW j \in Jobs, RunnerAborts(j) PROVE KnownInv'
    <3>1. worker'.job = worker.job
      BY <2>24 DEF RunnerAborts, TypeOK
    <3> QED BY <2>1, <2>24, <3>1 DEF RunnerAborts, KnownInv
  <2>25. ASSUME ForgetMemory, UNCHANGED <<rows, created, events>> PROVE KnownInv'
    BY <2>0, <2>25, EmptySeq DEF ForgetMemory, KnownInv, Among, Known
  <2>26. CASE Crash \/ ShutdownAborts \/ ShutdownEnd
    BY <2>25, <2>26 DEF Crash, ShutdownAborts, ShutdownEnd
  <2>27. CASE ShutdownBegin
    BY <2>0, <2>27, EmptySeq DEF ShutdownBegin, KnownInv, Among, Known
  <2>28. CASE OrphanLands
    <3>1. Head(orphan).job \in Known
      BY <2>28, AmongTail DEF OrphanLands, KnownInv, TypeOK
    <3>2. \A i \in Jobs : i # Head(orphan).job => rows'[i] = rows[i]
      BY <2>28 DEF OrphanLands, TypeOK
    <3> QED BY <2>0, <2>28, <3>1, <3>2, EmptySeq DEF OrphanLands, KnownInv, Among
  <2>29. CASE ShutdownPage
    <3>1. \A j \in paging'.todo : j \in Jobs /\ rows[j] = "queued"
      BY <2>29 DEF ShutdownPage
    <3> QED BY <2>0, <2>29, <3>1 DEF ShutdownPage, KnownInv, Among
  <2>30. ASSUME NEW j \in Jobs, ShutdownMark(j) PROVE KnownInv'
    <3>1. /\ j \in Known /\ paging'.todo \subseteq paging.todo
          /\ \A i \in Jobs : i # j => rows'[i] = rows[i]
      BY <2>30 DEF ShutdownMark, KnownInv, TypeOK
    <3> QED BY <2>0, <2>30, <3>1 DEF ShutdownMark, KnownInv, Among
  <2>31. CASE Restart
    BY <2>0, <2>31 DEF Restart, KnownInv, Among, Known
  <2>32. CASE UNCHANGED vars
    BY <2>1, <2>32 DEF vars, KnownInv
  <2> QED
    BY <2>3, <2>4, <2>5, <2>6, <2>7, <2>8, <2>10, <2>11, <2>12, <2>13, <2>15,
       <2>17, <2>18, <2>19, <2>20, <2>22, <2>23, <2>24, <2>26, <2>27, <2>28,
       <2>29, <2>30, <2>31, <2>32
    DEF Next, ClientCall, Serve, Failure, StopStart
<1> QED BY <1>1, <1>2, TypeCorrect, PTL DEF Spec

-----------------------------------------------------------------------------
(* No job is stranded.                                                     *)

NoWorkerOp(queue) == \A i \in DOMAIN queue : queue[i].op \notin WorkerOps

\* The worker has one operation under way, for its own job, while it is busy
\* and none while it is not.
OneWorkerOp(queue, w) ==
  \A i \in DOMAIN queue : queue[i].op \in WorkerOps =>
    /\ w.pc = "busy" /\ w.job = queue[i].job
    /\ \A k \in DOMAIN queue : queue[k].op \in WorkerOps => k = i

\* NoStrandedJob is not inductive: the worker writes the rows, and it must be
\* the one whose job they are of.
StrandInv ==
  /\ NoStrandedJob
  /\ OneWorkerOp(lockq, worker)
  /\ server # "up" => lockq = <<>> /\ worker.pc = "stopped"
  /\ worker.pc \in {"idle", "stopped"} => worker.job = NoJob

LEMMA OneTail ==
  ASSUME NEW q \in Seq(Operations), q # <<>>, NEW w, OneWorkerOp(q, w)
  PROVE  /\ OneWorkerOp(Tail(q), w)
         /\ Head(q).op \in WorkerOps =>
              NoWorkerOp(Tail(q)) /\ w.pc = "busy" /\ w.job = Head(q).job
  <1>1. /\ DOMAIN q = 1 .. Len(q) /\ Len(q) \in Nat
        /\ DOMAIN Tail(q) = 1 .. Len(q) - 1
        /\ \A i \in DOMAIN Tail(q) :
             i + 1 \in DOMAIN q /\ Tail(q)[i] = q[i + 1]
        /\ 1 \in DOMAIN q /\ Head(q) = q[1]
    BY TailElements, HeadTailProperties, LenProperties, EmptySeq
  <1>2. OneWorkerOp(Tail(q), w)
    <2> SUFFICES ASSUME NEW i \in DOMAIN Tail(q), Tail(q)[i].op \in WorkerOps
                 PROVE  /\ w.pc = "busy" /\ w.job = Tail(q)[i].job
                        /\ \A k \in DOMAIN Tail(q) :
                             Tail(q)[k].op \in WorkerOps => k = i
      BY Zenon DEF OneWorkerOp
    <2>1. /\ w.pc = "busy" /\ w.job = Tail(q)[i].job
          /\ \A k \in DOMAIN q : q[k].op \in WorkerOps => k = i + 1
      BY <1>1, ZenonT(30) DEF OneWorkerOp
    <2>2. ASSUME NEW k \in DOMAIN Tail(q), Tail(q)[k].op \in WorkerOps
          PROVE  k = i
      <3>1. k + 1 = i + 1  BY <1>1, <2>1, <2>2, Zenon
      <3> QED BY <1>1, <3>1
    <2> QED BY <2>1, <2>2
  <1>3. ASSUME Head(q).op \in WorkerOps
        PROVE  NoWorkerOp(Tail(q)) /\ w.pc = "busy" /\ w.job = Head(q).job
    <2>1. /\ w.pc = "busy" /\ w.job = Head(q).job
          /\ \A k \in DOMAIN q : q[k].op \in WorkerOps => k = 1
      BY <1>1, <1>3, Zenon DEF OneWorkerOp
    <2>2. ASSUME NEW k \in DOMAIN Tail(q) PROVE Tail(q)[k].op \notin WorkerOps
      <3>1. k + 1 # 1  BY <1>1
      <3> QED BY <1>1, <2>1, <3>1, Zenon
    <2> QED BY <2>1, <2>2, Zenon DEF NoWorkerOp
  <1> QED BY <1>2, <1>3

LEMMA OneAppend ==
  ASSUME NEW q \in Seq(Operations), NEW x \in Operations, NEW w
  PROVE  /\ x.op \notin WorkerOps /\ OneWorkerOp(q, w)
              => OneWorkerOp(Append(q, x), w)
         /\ NoWorkerOp(q) /\ w.pc = "busy" /\ w.job = x.job
              => OneWorkerOp(Append(q, x), w)
  <1> DEFINE a == Append(q, x)
  <1>1. /\ \A i \in DOMAIN a : \/ i \in DOMAIN q /\ a[i] = q[i]
                               \/ i = Len(q) + 1 /\ a[i] = x
    BY AppendProperties, LenProperties
  <1> HIDE DEF a
  <1>2. ASSUME x.op \notin WorkerOps, OneWorkerOp(q, w) PROVE OneWorkerOp(a, w)
    BY <1>1, <1>2, Zenon DEF OneWorkerOp
  <1>3. ASSUME NoWorkerOp(q), w.pc = "busy", w.job = x.job
        PROVE  OneWorkerOp(a, w)
    BY <1>1, <1>3, Zenon DEF OneWorkerOp, NoWorkerOp
  <1> QED BY <1>2, <1>3 DEF a

LEMMA NoneIsOne ==
  ASSUME NEW q, NEW w
  PROVE  /\ NoWorkerOp(q) => OneWorkerOp(q, w)
         /\ OneWorkerOp(q, w) /\ w.pc # "busy" => NoWorkerOp(q)
  BY Zenon DEF NoWorkerOp, OneWorkerOp

\* A client enters, leaves or asks again: the worker's operation is not touched.
LEMMA ClientLine ==
  ASSUME TypeOK, OneWorkerOp(lockq, worker)
  PROVE  /\ \A name \in JobOps \ WorkerOps, j \in Jobs :
              Enqueue(name, j) => OneWorkerOp(lockq', worker)
         /\ lockq # <<>> /\ Leave => OneWorkerOp(lockq', worker)
         /\ \A name \in JobOps \ WorkerOps, j \in Jobs :
              lockq # <<>> /\ Then(name, j) => OneWorkerOp(lockq', worker)
  <1>1. lockq \in Seq(Operations)  BY DEF TypeOK
  <1>2. ASSUME NEW name \in JobOps \ WorkerOps, NEW j \in Jobs
        PROVE  Op(name, j) \in Operations /\ Op(name, j).op \notin WorkerOps
    BY DEF Op, Operations
  <1>3. ASSUME lockq # <<>>
        PROVE  /\ Tail(lockq) \in Seq(Operations)
               /\ OneWorkerOp(Tail(lockq), worker)
    BY <1>1, <1>3, TailElements, OneTail
  <1>4. ASSUME NEW name \in JobOps \ WorkerOps, NEW j \in Jobs,
               Enqueue(name, j)
        PROVE  OneWorkerOp(lockq', worker)
    BY <1>1, <1>2, <1>4, OneAppend DEF Enqueue
  <1>5. ASSUME NEW name \in JobOps \ WorkerOps, NEW j \in Jobs,
               lockq # <<>>, Then(name, j)
        PROVE  OneWorkerOp(lockq', worker)
    BY <1>2, <1>3, <1>5, OneAppend DEF Then
  <1> QED BY <1>3, <1>4, <1>5 DEF Leave

\* The operation served is the worker's: it is for the worker's job and the
\* only one; the worker leaves none behind, or asks for the next.
LEMMA WorkerLine ==
  ASSUME TypeOK, OneWorkerOp(lockq, worker),
         NEW name \in WorkerOps, NEW j \in Jobs, AtHead(name, j)
  PROVE  /\ worker.pc = "busy" /\ worker.job = j
         /\ Leave => NoWorkerOp(lockq')
         /\ \A next \in WorkerOps : Then(next, j) => OneWorkerOp(lockq', worker)
  <1>1. /\ lockq \in Seq(Operations) /\ lockq # <<>>
        /\ Head(lockq).op \in WorkerOps /\ Head(lockq).job = j
    BY DEF TypeOK, AtHead, Op
  <1>2. /\ worker.pc = "busy" /\ worker.job = j
        /\ NoWorkerOp(Tail(lockq)) /\ Tail(lockq) \in Seq(Operations)
    BY <1>1, OneTail, TailElements
  <1>3. ASSUME NEW next \in WorkerOps, Then(next, j)
        PROVE  OneWorkerOp(lockq', worker)
    <2>1. Op(next, j) \in Operations /\ Op(next, j).job = j
      BY DEF Op, Operations
    <2> QED BY <1>2, <1>3, <2>1, OneAppend DEF Then
  <1> QED BY <1>2, <1>3 DEF Leave

\* The worker keeps to its own job, and its operations come one at a time.
LEMMA StrandInvHolds == Spec => []StrandInv
<1>1. Init => StrandInv
  BY EmptySeq DEF Init, StrandInv, NoStrandedJob, OneWorkerOp
<1>2. TypeOK /\ KnownInv /\ StrandInv /\ [Next]_vars => StrandInv'
  <2> SUFFICES ASSUME TypeOK, KnownInv, StrandInv, [Next]_vars
               PROVE  StrandInv'
    OBVIOUS
  <2> USE DEF database, memory, history, control
  <2>0. lockq # <<>> => server = "up"
    BY DEF StrandInv
  \* Rows only go to states that need nobody, and the worker keeps its job.
  <2>1. ASSUME UNCHANGED <<server, lost, fifo>>, worker'.job = worker.job,
               \A i \in Jobs : \/ rows'[i] = rows[i]
                               \/ rows'[i] \notin {"queued", "running"}
                               \/ rows'[i] = "running" /\ worker.job = i
        PROVE  NoStrandedJob'
    BY <2>1 DEF NoStrandedJob, StrandInv
  \* A client's step.
  <2>2. ASSUME UNCHANGED <<server, lost, worker>>, server = "up",
               OneWorkerOp(lockq', worker), NoStrandedJob'
        PROVE  StrandInv'
    BY <2>2 DEF StrandInv
  <2>3. ASSUME NEW j \in Jobs, SubmitCall(j) \/ CancelCall(j) PROVE StrandInv'
    <3>1. OneWorkerOp(lockq', worker)
      BY <2>3, ClientLine DEF SubmitCall, CancelCall, StrandInv
    <3>2. NoStrandedJob'
      BY <2>1, <2>3 DEF SubmitCall, CancelCall
    <3> QED BY <2>2, <2>3, <3>1, <3>2 DEF SubmitCall, CancelCall, CallAdmitted
  <2>4. CASE ClearCall
    <3>1. Op("clear", NoJob) \in Operations
          /\ Op("clear", NoJob).op \notin WorkerOps
      BY DEF Op, Operations
    <3>2. OneWorkerOp(lockq', worker)
      BY <2>4, <3>1, OneAppend DEF ClearCall, Enqueue, StrandInv, TypeOK
    <3>3. NoStrandedJob'  BY <2>1, <2>4 DEF ClearCall
    <3> QED BY <2>2, <2>4, <3>2, <3>3 DEF ClearCall, CallAdmitted
  <2>5. ASSUME NEW j \in Jobs, SubmitServe(j) PROVE StrandInv'
    <3>1. OneWorkerOp(lockq', worker)
      BY <2>5, ClientLine DEF SubmitServe, AtHead, StrandInv
    <3>2. /\ Range(fifo) \subseteq Range(fifo') /\ j \in Range(fifo')
      <4>1. /\ DOMAIN fifo = 1 .. Len(fifo) /\ Len(fifo) \in Nat
            /\ DOMAIN fifo' = 1 .. Len(fifo) + 1
            /\ \A i \in DOMAIN fifo : fifo'[i] = fifo[i]
            /\ fifo'[Len(fifo) + 1] = j
        BY <2>5, AppendProperties, LenProperties DEF SubmitServe, TypeOK
      <4>2. DOMAIN fifo \subseteq DOMAIN fifo' /\ Len(fifo) + 1 \in DOMAIN fifo'
        BY <4>1
      <4> QED BY <4>1, <4>2 DEF Range
    <3>3. \A i \in Jobs : \/ rows'[i] = rows[i]
                          \/ i = j /\ rows'[i] = "queued"
      BY <2>5 DEF SubmitServe, Write, Writes, TypeOK
    <3>4. NoStrandedJob'
      BY <2>5, <3>2, <3>3 DEF SubmitServe, NoStrandedJob, StrandInv
    <3> QED BY <2>0, <2>2, <2>5, <3>1, <3>4 DEF SubmitServe, AtHead
  <2>6. ASSUME NEW j \in Jobs, CancelRefused(j) \/ CancelAccepted(j)
        PROVE  StrandInv'
    <3>1. OneWorkerOp(lockq', worker)
      BY <2>6, ClientLine DEF CancelRefused, CancelAccepted, AtHead, StrandInv
    <3>2. NoStrandedJob'
      BY <2>1, <2>6 DEF CancelRefused, CancelAccepted
    <3> QED BY <2>0, <2>2, <2>6, <3>1, <3>2
            DEF CancelRefused, CancelAccepted, AtHead
  <2>7. ASSUME NEW j \in Jobs, CancelWrite(j) PROVE StrandInv'
    <3>1. OneWorkerOp(lockq', worker)
      BY <2>7, ClientLine DEF CancelWrite, AtHead, StrandInv
    <3>2. \A i \in Jobs : rows'[i] = rows[i] \/ rows'[i] = "cancelled"
      BY <2>7 DEF CancelWrite, Write, Writes, TypeOK
    <3>3. NoStrandedJob'  BY <2>1, <2>7, <3>2 DEF CancelWrite
    <3> QED BY <2>0, <2>2, <2>7, <3>1, <3>3 DEF CancelWrite, AtHead
  <2>8. CASE ClearServe
    <3>1. OneWorkerOp(lockq', worker)
      BY <2>8, ClientLine DEF ClearServe, AtHead, StrandInv
    <3>2. NoStrandedJob'  BY <2>1, <2>8 DEF ClearServe
    <3> QED BY <2>0, <2>2, <2>8, <3>1, <3>2 DEF ClearServe, AtHead
  \* The worker goes on to its next operation.
  <2>9. ASSUME NEW j \in Jobs, NEW name \in WorkerOps, NEW next \in WorkerOps,
               AtHead(name, j), Then(next, j),
               UNCHANGED <<rows, fifo, server, lost, worker>>
        PROVE  StrandInv'
    <3>1. OneWorkerOp(lockq', worker)  BY <2>9, WorkerLine DEF StrandInv
    <3>2. NoStrandedJob'  BY <2>1, <2>9
    <3> QED BY <2>0, <2>2, <2>9, <3>1, <3>2 DEF AtHead
  \* The worker is done with its job, whose row needs nobody any more.
  <2>10. ASSUME NEW j \in Jobs, NEW name \in WorkerOps, AtHead(name, j), Leave,
                worker' = Idle, UNCHANGED <<fifo, server, lost>>,
                rows'[j] \notin {"queued", "running"},
                \A i \in Jobs : i # j => rows'[i] = rows[i]
         PROVE  StrandInv'
    <3>1. worker.job = j /\ NoWorkerOp(lockq')
      BY <2>10, WorkerLine DEF StrandInv
    <3>2. OneWorkerOp(lockq', worker')  BY <3>1, NoneIsOne
    <3>3. NoStrandedJob'
      BY <2>10, <3>1 DEF NoStrandedJob, StrandInv
    <3> QED BY <2>0, <2>10, <3>2, <3>3 DEF StrandInv, AtHead
  <2>11. ASSUME NEW j \in Jobs, WorkerLoad(j) \/ MarkRead(j) PROVE StrandInv'
    <3>1. PICK name \in WorkerOps, next \in WorkerOps :
            /\ AtHead(name, j)
            /\ UNCHANGED <<rows, fifo, server, lost>>
            /\ \/ Leave /\ worker' = Idle /\ rows[j] \notin {"queued", "running"}
               \/ Then(next, j) /\ worker' = worker
      BY <2>11 DEF WorkerLoad, MarkRead
    <3> QED BY <2>9, <2>10, <3>1
  <2>12. ASSUME NEW j \in Jobs, WorkerStart(j) PROVE StrandInv'
    <3>1. worker.job = j /\ NoWorkerOp(lockq')
      BY <2>12, WorkerLine DEF WorkerStart, StrandInv
    <3>2. worker'.pc = "running" /\ worker'.job = j
      BY <2>12, <3>1 DEF WorkerStart, TypeOK
    <3>3. OneWorkerOp(lockq', worker')  BY <3>1, NoneIsOne
    <3>4. \A i \in Jobs : \/ rows'[i] = rows[i]
                          \/ rows'[i] = "running" /\ i = j
      BY <2>12 DEF WorkerStart, Write, Writes, TypeOK
    <3>5. NoStrandedJob'  BY <2>1, <2>12, <3>1, <3>2, <3>4 DEF WorkerStart
    <3> QED BY <2>0, <2>12, <3>2, <3>3, <3>5 DEF StrandInv, WorkerStart, AtHead
  <2>13. ASSUME NEW j \in Jobs, StoreArtifact(j) PROVE StrandInv'
    BY <2>9, <2>13 DEF StoreArtifact
  <2>14. ASSUME NEW j \in Jobs, FinalRead(j) \/ ErrorRead(j) PROVE StrandInv'
    <3>1. PICK name \in WorkerOps, next \in WorkerOps :
            /\ AtHead(name, j)
            /\ UNCHANGED <<rows, fifo, server, lost>>
            /\ \/ Leave /\ worker' = Idle /\ rows[j] = "absent"
               \/ Then(next, j) /\ worker' = worker
      BY <2>14 DEF FinalRead, ErrorRead, ReadToEnd
    <3> QED BY <2>9, <2>10, <3>1
  <2>15. ASSUME NEW j \in Jobs, NEW kind,
                NEW name \in {"final_put", "error_put", "marked_put"},
                EndWith(name, kind, j)
         PROVE  StrandInv'
    <3>1. /\ rows'[j] \notin {"queued", "running"}
          /\ \A i \in Jobs : i # j => rows'[i] = rows[i]
      BY <2>15 DEF EndWith, Write, Writes, TypeOK
    <3> QED BY <2>10, <2>15, <3>1 DEF EndWith
  <2>16. ASSUME NEW j \in Jobs, FinalWrite(j) \/ MarkWrite(j) \/ ErrorWrite(j)
         PROVE  StrandInv'
    BY <2>15, <2>16 DEF FinalWrite, MarkWrite, ErrorWrite
  \* The head of the queue becomes the job of a worker that had none.
  <2>17. CASE WorkerTake
    <3> DEFINE h == Head(fifo)
    <3>1. /\ worker.pc = "idle" /\ worker.job = NoJob /\ server = "up"
          /\ h \in Jobs /\ worker'.pc = "busy" /\ worker'.job = h
          /\ UNCHANGED <<rows, server, lost>>
      BY <2>17, TailElements DEF WorkerTake, StrandInv, TypeOK
    <3>2. NoWorkerOp(lockq)  BY <3>1, NoneIsOne DEF StrandInv
    <3>3. \E name \in WorkerOps : Enqueue(name, h)
      BY <2>17 DEF WorkerTake
    <3>4. OneWorkerOp(lockq', worker')
      <4>1. PICK name \in WorkerOps : Enqueue(name, h)  BY <3>3
      <4>2. Op(name, h) \in Operations /\ Op(name, h).job = h
        BY <3>1 DEF Op, Operations
      <4> QED BY <3>1, <3>2, <4>1, <4>2, OneAppend DEF Enqueue, TypeOK
    <3>5. Range(fifo) \subseteq Range(fifo') \cup {h}
      <4>1. /\ fifo' = Tail(fifo) /\ fifo \in Seq(Jobs) /\ fifo # <<>>
        BY <2>17 DEF WorkerTake, TypeOK
      <4>2. /\ DOMAIN fifo = 1 .. Len(fifo) /\ Len(fifo) \in Nat
            /\ DOMAIN fifo' = 1 .. Len(fifo) - 1
            /\ \A i \in DOMAIN fifo' : fifo'[i] = fifo[i + 1]
        BY <4>1, TailElements, HeadTailProperties, LenProperties
      <4>3. ASSUME NEW x \in Range(fifo), x # h PROVE x \in Range(fifo')
        <5>1. PICK i \in DOMAIN fifo : fifo[i] = x  BY DEF Range
        <5>2. i # 1  BY <4>1, <4>3, <5>1
        <5>3. i - 1 \in DOMAIN fifo' /\ (i - 1) + 1 = i  BY <4>2, <5>2
        <5> QED BY <4>2, <5>1, <5>3 DEF Range
      <4> QED BY <4>3
    <3>6. NoStrandedJob'
      BY <3>1, <3>5, JobQueueAssumption DEF NoStrandedJob, StrandInv
    <3> QED BY <3>1, <3>4, <3>6 DEF StrandInv
  <2>18. ASSUME NEW j \in Jobs, NEW next \in WorkerOps, AfterRunner(j, next)
         PROVE  StrandInv'
    <3>1. /\ worker.pc = "running" /\ worker.job = j
          /\ worker'.pc = "busy" /\ worker'.job = j
          /\ UNCHANGED <<rows, fifo, server, lost>>
      BY <2>18 DEF AfterRunner, TypeOK
    <3>2. NoWorkerOp(lockq)  BY <3>1, NoneIsOne DEF StrandInv
    <3>3. OneWorkerOp(lockq', worker')
      <4>1. Op(next, j) \in Operations /\ Op(next, j).job = j
        BY DEF Op, Operations
      <4> QED BY <2>18, <3>1, <3>2, <4>1, OneAppend DEF AfterRunner, Enqueue, TypeOK
    <3>4. NoStrandedJob'  BY <2>1, <3>1
    <3>5. server = "up"  BY <3>1 DEF StrandInv
    <3> QED BY <3>1, <3>3, <3>4, <3>5 DEF StrandInv
  <2>19. CASE RunnerEnds
    BY <2>18, <2>19 DEF RunnerEnds, RunnerReturns, RunnerRaises, RunnerCancelled
  <2>20. CASE BackendFault
    <3>1. /\ lockq \in Seq(Operations) /\ lockq # <<>>
          /\ lockq' = Tail(lockq) /\ server = "up"
          /\ UNCHANGED <<rows, fifo, server, lost>>
      BY <2>0, <2>20 DEF BackendFault, Leave, TypeOK
    <3>2. worker'.job = worker.job
      BY <2>20 DEF BackendFault, TypeOK
    <3>3. NoStrandedJob'  BY <2>1, <3>1, <3>2
    <3>4. CASE Head(lockq).op \in WorkerOps
      <4>1. NoWorkerOp(lockq')  BY <3>1, <3>4, OneTail DEF StrandInv
      <4>2. worker'.pc = "dead"  BY <2>20, <3>4 DEF BackendFault, TypeOK
      <4> QED BY <3>1, <3>3, <4>1, <4>2, NoneIsOne DEF StrandInv
    <3>5. CASE Head(lockq).op \notin WorkerOps
      <4>1. worker' = worker  BY <2>20, <3>5 DEF BackendFault
      <4> QED BY <2>2, <3>1, <3>3, <4>1, OneTail DEF StrandInv
    <3> QED BY <3>4, <3>5
  <2>21. ASSUME NEW j \in Jobs, RunnerAborts(j) PROVE StrandInv'
    <3>1. /\ worker.pc = "running" /\ worker'.pc = "dead"
          /\ worker'.job = worker.job
          /\ UNCHANGED <<rows, fifo, server, lost, lockq>>
      BY <2>21 DEF RunnerAborts, TypeOK
    <3>2. OneWorkerOp(lockq', worker')
      BY <3>1, NoneIsOne DEF StrandInv
    <3>3. NoStrandedJob'  BY <2>1, <3>1
    <3> QED BY <3>1, <3>2, <3>3 DEF StrandInv
  <2>22. ASSUME server' # "up", lockq' = <<>>, worker' = Stopped
         PROVE  StrandInv'
    BY <2>22, EmptySeq DEF StrandInv, NoStrandedJob, OneWorkerOp
  <2>23. CASE Crash \/ ShutdownBegin \/ ShutdownAborts \/ ShutdownEnd
    BY <2>22, <2>23
    DEF Crash, ShutdownBegin, ShutdownAborts, ShutdownEnd, ForgetMemory
  <2>24. ASSUME server = "stopping", UNCHANGED <<server, lockq, worker>>
         PROVE  StrandInv'
    BY <2>24 DEF StrandInv, NoStrandedJob
  <2>25. CASE OrphanLands \/ ShutdownPage \/ \E j \in Jobs : ShutdownMark(j)
    BY <2>24, <2>25 DEF OrphanLands, ShutdownPage, ShutdownMark
  \* A new process answers for no job of the old one.
  <2>26. CASE Restart
    <3>1. /\ lockq' = <<>> /\ worker' = Idle /\ lost' = Range(created)
          /\ UNCHANGED rows
      BY <2>26 DEF Restart, StrandInv
    <3>2. \A j \in Jobs \ lost' : rows'[j] = "absent"
      BY <3>1, JobQueueAssumption DEF KnownInv, Known
    <3>3. NoStrandedJob'  BY <3>2 DEF NoStrandedJob
    <3> QED BY <2>26, <3>1, <3>3, EmptySeq DEF Restart, StrandInv, OneWorkerOp
  <2>27. CASE UNCHANGED vars
    BY <2>27 DEF vars, StrandInv, NoStrandedJob
  <2> QED
    BY <2>3, <2>4, <2>5, <2>6, <2>7, <2>8, <2>11, <2>12, <2>13, <2>14, <2>16,
       <2>17, <2>19, <2>20, <2>21, <2>23, <2>25, <2>26, <2>27
    DEF Next, ClientCall, Serve, Failure, StopStart
<1> QED BY <1>1, <1>2, TypeCorrect, OnlyKnown, PTL DEF Spec

\* While the process is up, a waiting row of one of its jobs is in the queue or
\* with the worker, and a running one is the worker's job, for any number of
\* jobs and calls.
THEOREM NoneStranded == Spec => []NoStrandedJob
<1>1. StrandInv => NoStrandedJob
  BY DEF StrandInv
<1> QED BY <1>1, StrandInvHolds, PTL

-----------------------------------------------------------------------------
(* The elements of a queue.                                                *)

UniqueIn(q, x) == \A i, k \in DOMAIN q : q[i] = x /\ q[k] = x => i = k

LEMMA RangeOf ==
  ASSUME NEW S, NEW q \in Seq(S)
  PROVE  Range(q) \subseteq S
  BY LenProperties DEF Range

LEMMA EmptyQueue == Range(<<>>) = {} /\ \A x : UniqueIn(<<>>, x)
  BY EmptySeq DEF Range, UniqueIn

LEMMA RangeTail ==
  ASSUME NEW S, NEW q \in Seq(S), q # <<>>
  PROVE  /\ Head(q) \in Range(q)
         /\ Range(q) = Range(Tail(q)) \cup {Head(q)}
  <1>1. /\ DOMAIN q = 1 .. Len(q) /\ Len(q) \in Nat
        /\ DOMAIN Tail(q) = 1 .. Len(q) - 1
        /\ \A i \in DOMAIN Tail(q) :
             i + 1 \in DOMAIN q /\ Tail(q)[i] = q[i + 1]
        /\ 1 \in DOMAIN q /\ Head(q) = q[1]
    BY TailElements, HeadTailProperties, LenProperties, EmptySeq
  <1>2. ASSUME NEW x \in Range(q), x # Head(q) PROVE x \in Range(Tail(q))
    <2>1. PICK i \in DOMAIN q : q[i] = x  BY DEF Range
    <2>2. i - 1 \in DOMAIN Tail(q) /\ (i - 1) + 1 = i  BY <1>1, <1>2, <2>1
    <2> QED BY <1>1, <2>1, <2>2 DEF Range
  <1>3. Head(q) \in Range(q)  BY <1>1 DEF Range
  <1>4. Range(Tail(q)) \subseteq Range(q)  BY <1>1 DEF Range
  <1> QED BY <1>2, <1>3, <1>4

LEMMA RangeAppend ==
  ASSUME NEW S, NEW q \in Seq(S), NEW x \in S
  PROVE  Range(Append(q, x)) = Range(q) \cup {x}
  <1>1. /\ DOMAIN q = 1 .. Len(q) /\ Len(q) \in Nat
        /\ DOMAIN Append(q, x) = 1 .. Len(q) + 1
        /\ \A i \in 1 .. Len(q) : Append(q, x)[i] = q[i]
        /\ Append(q, x)[Len(q) + 1] = x
    BY AppendProperties, LenProperties
  <1>2. ASSUME NEW i \in DOMAIN q
        PROVE  i \in DOMAIN Append(q, x) /\ Append(q, x)[i] = q[i]
    BY <1>1
  <1>3. Len(q) + 1 \in DOMAIN Append(q, x)  BY <1>1
  <1>4. ASSUME NEW i \in DOMAIN Append(q, x)
        PROVE  \/ i \in DOMAIN q /\ Append(q, x)[i] = q[i]
               \/ Append(q, x)[i] = x
    BY <1>1
  <1> QED BY <1>1, <1>2, <1>3, <1>4, Zenon DEF Range

\* An element that is in a queue once is gone when it was served.
LEMMA UniqueTail ==
  ASSUME NEW S, NEW q \in Seq(S), q # <<>>, NEW x, UniqueIn(q, x)
  PROVE  /\ UniqueIn(Tail(q), x)
         /\ Head(q) = x => x \notin Range(Tail(q))
  <1>1. /\ DOMAIN Tail(q) \subseteq Nat
        /\ \A i \in DOMAIN Tail(q) :
             i + 1 \in DOMAIN q /\ Tail(q)[i] = q[i + 1]
        /\ 1 \in DOMAIN q /\ Head(q) = q[1]
    BY TailElements, HeadTailProperties, LenProperties, EmptySeq
  <1>2. ASSUME NEW i \in DOMAIN Tail(q), NEW k \in DOMAIN Tail(q),
               Tail(q)[i] = x, Tail(q)[k] = x
        PROVE  i = k
    <2>1. i + 1 = k + 1  BY <1>1, <1>2, Zenon DEF UniqueIn
    <2> QED BY <1>1, <2>1
  <1>3. ASSUME Head(q) = x, x \in Range(Tail(q)) PROVE FALSE
    <2>1. PICK i \in DOMAIN Tail(q) : Tail(q)[i] = x
      BY <1>3 DEF Range
    <2>2. i + 1 = 1  BY <1>1, <1>3, <2>1, Zenon DEF UniqueIn
    <2> QED BY <1>1, <2>2
  <1> QED BY <1>2, <1>3 DEF UniqueIn

LEMMA UniqueAppend ==
  ASSUME NEW S, NEW q \in Seq(S), NEW y \in S, NEW x, UniqueIn(q, x),
         y = x => x \notin Range(q)
  PROVE  UniqueIn(Append(q, y), x)
  <1>1. \A i \in DOMAIN Append(q, y) :
          \/ i \in DOMAIN q /\ Append(q, y)[i] = q[i]
          \/ i = Len(q) + 1 /\ Append(q, y)[i] = y
    BY AppendProperties, LenProperties
  <1>2. \A i \in DOMAIN q : q[i] = x => x # y
    BY DEF Range
  <1> QED BY <1>1, <1>2, Zenon DEF UniqueIn

\* An event is added to the history of one job.
LEMMA EmitAdds ==
  ASSUME events \in [Jobs -> Seq(Kinds)],
         NEW j \in Jobs, NEW kind \in Kinds, Emit(j, kind)
  PROVE  /\ events'[j] = Append(events[j], kind)
         /\ events'[j] # <<>>
         /\ Emitted(j)' = Emitted(j) \cup {kind}
         /\ \A i \in Jobs : i # j => events'[i] = events[i]
  <1>1. events[j] \in Seq(Kinds)  OBVIOUS
  <1>2. events'[j] = Append(events[j], kind)
        /\ \A i \in Jobs : i # j => events'[i] = events[i]
    BY DEF Emit
  <1>3. Append(events[j], kind) # <<>>
    BY <1>1, AppendProperties, LenProperties, EmptySeq
  <1>4. Range(Append(events[j], kind)) = Range(events[j]) \cup {kind}
    BY <1>1, RangeAppend
  <1> QED BY <1>2, <1>3, <1>4 DEF Emitted

LEMMA OpFields ==
  ASSUME NEW name \in JobOps, NEW j \in Jobs
  PROVE  /\ Op(name, j) \in Operations
         /\ Op(name, j).op = name /\ Op(name, j).job = j
  BY DEF Op, Operations

\* The operation at the head is one that waited.
LEMMA HeadWaits ==
  ASSUME TypeOK, NEW name, NEW j, AtHead(name, j)
  PROVE  lockq # <<>> /\ Op(name, j) \in Range(lockq)
  BY RangeTail DEF AtHead, TypeOK

\* What waits after a caller entered the line, left it, or asked again.
LEMMA LineAfter ==
  ASSUME TypeOK
  PROVE  /\ \A name \in JobOps, j \in Jobs :
              Enqueue(name, j) => Range(lockq') = Range(lockq) \cup {Op(name, j)}
         /\ lockq # <<>> /\ Leave => Range(lockq') \subseteq Range(lockq)
         /\ \A name \in JobOps, j \in Jobs :
              lockq # <<>> /\ Then(name, j)
                => Range(lockq') \subseteq Range(lockq) \cup {Op(name, j)}
  <1>1. lockq \in Seq(Operations)  BY DEF TypeOK
  <1>2. ASSUME lockq # <<>>
        PROVE  /\ Tail(lockq) \in Seq(Operations)
               /\ Range(Tail(lockq)) \subseteq Range(lockq)
    BY <1>1, <1>2, TailElements, RangeTail
  <1>3. ASSUME NEW name \in JobOps, NEW j \in Jobs, Enqueue(name, j)
        PROVE  Range(lockq') = Range(lockq) \cup {Op(name, j)}
    BY <1>1, <1>3, OpFields, RangeAppend DEF Enqueue
  <1>4. ASSUME NEW name \in JobOps, NEW j \in Jobs, lockq # <<>>, Then(name, j)
        PROVE  Range(lockq') \subseteq Range(lockq) \cup {Op(name, j)}
    <2>1. lockq' = Append(Tail(lockq), Op(name, j)) /\ Op(name, j) \in Operations
      BY <1>4, OpFields DEF Then
    <2>2. Tail(lockq) \in Seq(Operations)  BY <1>2, <1>4
    <2>3. Range(Append(Tail(lockq), Op(name, j)))
            = Range(Tail(lockq)) \cup {Op(name, j)}
      BY ZenonT(30), <2>1, <2>2, RangeAppend
    <2>4. Range(lockq') = Range(Tail(lockq)) \cup {Op(name, j)}
      BY <2>1, <2>3
    <2> QED BY <1>2, <1>4, <2>4
  <1> QED BY <1>2, <1>3, <1>4 DEF Leave

-----------------------------------------------------------------------------
(* A job is submitted once, and is in one place at a time.                 *)

\* Among the operations that wait, only its submission is of a job without
\* events, and it waits once.
LineOnce ==
  /\ \A j \in Jobs : UniqueIn(lockq, Op("submit_put", j))
  /\ \A x \in Range(lockq) :
       x.job \in Jobs => (x.op = "submit_put" <=> events[x.job] = <<>>)

OnceInv ==
  /\ LineOnce
  /\ \A x \in Range(orphan) : x.op \in WorkerOps /\ events[x.job] # <<>>
  /\ \A j \in Jobs : UniqueIn(fifo, j)
  /\ \A j \in Range(fifo) : events[j] # <<>> /\ worker.job # j
  /\ worker.job \in Jobs => events[worker.job] # <<>>
  /\ \A j \in paging.todo : events[j] # <<>>
  /\ \A j \in Jobs : events[j] = <<>> => rows[j] = "absent" /\ acked[j] = "no"
  /\ server # "stopping" => orphan = <<>> /\ paging.todo = {}
  /\ server \notin {"up", "stopping"} => fifo = <<>>

\* The jobs that have no event yet are the same after the step.
SameFresh == \A i \in Jobs : events'[i] = <<>> <=> events[i] = <<>>

LEMMA LineStaysOnce ==
  ASSUME TypeOK, LineOnce, SameFresh
  PROVE  /\ UNCHANGED lockq => LineOnce'
         /\ lockq # <<>> /\ Leave => LineOnce'
         /\ \A name \in JobOps \ {"submit_put"}, j \in Jobs :
              events[j] # <<>> /\ Enqueue(name, j) => LineOnce'
         /\ \A name \in JobOps \ {"submit_put"}, j \in Jobs :
              lockq # <<>> /\ events[j] # <<>> /\ Then(name, j) => LineOnce'
  <1>1. lockq \in Seq(Operations)  BY DEF TypeOK
  <1>2. \A x \in Range(lockq) :
          x.job \in Jobs => (x.op = "submit_put" <=> events'[x.job] = <<>>)
    BY DEF LineOnce, SameFresh
  <1>3. ASSUME lockq # <<>>
        PROVE  /\ Tail(lockq) \in Seq(Operations)
               /\ Range(Tail(lockq)) \subseteq Range(lockq)
               /\ \A j \in Jobs : UniqueIn(Tail(lockq), Op("submit_put", j))
    BY <1>1, <1>3, TailElements, RangeTail, UniqueTail DEF LineOnce
  <1>4. ASSUME NEW q \in Seq(Operations), Range(q) \subseteq Range(lockq),
               \A j \in Jobs : UniqueIn(q, Op("submit_put", j)),
               NEW name \in JobOps \ {"submit_put"}, NEW j \in Jobs,
               events[j] # <<>>, lockq' = Append(q, Op(name, j))
        PROVE  LineOnce'
    <2>1. /\ Op(name, j) \in Operations
          /\ Op(name, j).op = name /\ Op(name, j).job = j
      BY OpFields
    <2>2. Range(lockq') = Range(q) \cup {Op(name, j)}
      BY <1>4, <2>1, RangeAppend
    <2>3. ASSUME NEW i \in Jobs PROVE UniqueIn(lockq', Op("submit_put", i))
      <3>1. Op(name, j) # Op("submit_put", i)  BY <2>1 DEF Op
      <3> QED BY <1>4, <2>1, <3>1, UniqueAppend
    <2>4. \A x \in Range(lockq') :
            x.job \in Jobs => (x.op = "submit_put" <=> events'[x.job] = <<>>)
      BY <1>2, <1>4, <2>1, <2>2 DEF SameFresh
    <2> QED BY <2>3, <2>4 DEF LineOnce
  <1>5. ASSUME lockq # <<>>, Leave PROVE LineOnce'
    BY <1>2, <1>3, <1>5 DEF LineOnce, Leave
  <1>6. ASSUME UNCHANGED lockq PROVE LineOnce'
    BY <1>2, <1>6 DEF LineOnce
  <1>7. ASSUME NEW name \in JobOps \ {"submit_put"}, NEW j \in Jobs,
               events[j] # <<>>, Enqueue(name, j)
        PROVE  LineOnce'
    BY <1>1, <1>4, <1>7 DEF Enqueue, LineOnce
  <1>8. ASSUME NEW name \in JobOps \ {"submit_put"}, NEW j \in Jobs,
               lockq # <<>>, events[j] # <<>>, Then(name, j)
        PROVE  LineOnce'
    BY <1>3, <1>4, <1>8 DEF Then
  <1> QED BY <1>5, <1>6, <1>7, <1>8

LEMMA SubmittedOnce == Spec => []OnceInv
<1>1. Init => OnceInv
  BY EmptyQueue, JobQueueAssumption DEF Init, OnceInv, LineOnce
<1>2. TypeOK /\ KnownInv /\ StrandInv /\ OnceInv /\ [Next]_vars => OnceInv'
  <2> SUFFICES ASSUME TypeOK, KnownInv, StrandInv, OnceInv, [Next]_vars
               PROVE  OnceInv'
    OBVIOUS
  <2> USE DEF database, memory, history, control
  <2>0. /\ NoJob \notin Jobs /\ paging.todo \subseteq Jobs
        /\ \A x \in Range(orphan) : x.op \in WorkerOps => x.job \in Jobs
        /\ Range(fifo) \subseteq Jobs
    <3>1. Range(orphan) \subseteq Operations /\ Range(fifo) \subseteq Jobs
      BY RangeOf DEF TypeOK
    <3> QED BY <3>1, JobQueueAssumption DEF TypeOK, Operations, Op
  <2>1. ASSUME SameFresh, LineOnce', UNCHANGED <<fifo, server, paging, orphan>>,
               worker'.job \in {worker.job, NoJob},
               \A i \in Jobs : events[i] = <<>> =>
                 rows'[i] = "absent" /\ acked'[i] = "no"
        PROVE  OnceInv'
    BY <2>0, <2>1 DEF OnceInv, SameFresh
  <2>2. ASSUME UNCHANGED events PROVE SameFresh
    BY <2>2 DEF SameFresh
  \* A write, an event or an acknowledgement of a job that has events.
  <2>3. ASSUME NEW j \in Jobs, events[j] # <<>>, LineOnce',
               UNCHANGED <<fifo, server, paging, orphan>>,
               worker'.job \in {worker.job, NoJob},
               events'[j] # <<>>,
               \A i \in Jobs : i # j => /\ rows'[i] = rows[i]
                                       /\ events'[i] = events[i]
                                       /\ acked'[i] = acked[i]
        PROVE  OnceInv'
    BY <2>1, <2>3 DEF SameFresh, OnceInv
  <2>4. ASSUME NEW j \in Jobs, NEW name \in JobOps \ {"submit_put"},
               AtHead(name, j)
        PROVE  events[j] # <<>> /\ lockq # <<>>
    <3>1. Op(name, j) \in Range(lockq) /\ lockq # <<>>  BY <2>4, HeadWaits
    <3> QED BY <3>1, OpFields DEF OnceInv, LineOnce
  <2>5. ASSUME NEW j \in Jobs, SubmitCall(j) PROVE OnceInv'
    <3>1. /\ j \notin Known /\ events[j] = <<>>
          /\ \A x \in Range(lockq) : x.job # j
      BY <2>0, <2>5 DEF SubmitCall, Known, KnownInv, Among, Range
    <3>2. /\ Op("submit_put", j) \in Operations
          /\ Op("submit_put", j).op = "submit_put"
          /\ Op("submit_put", j).job = j
      BY OpFields
    <3>3. lockq' = Append(lockq, Op("submit_put", j)) /\ lockq \in Seq(Operations)
      BY <2>5 DEF SubmitCall, Enqueue, TypeOK
    <3>4. Range(lockq') = Range(lockq) \cup {Op("submit_put", j)}
      BY <3>2, <3>3, RangeAppend
    <3>5. ASSUME NEW i \in Jobs PROVE UniqueIn(lockq', Op("submit_put", i))
      <4>1. Op("submit_put", j) \notin Range(lockq)  BY <3>1, <3>2
      <4>2. Op("submit_put", i) = Op("submit_put", j) => i = j  BY DEF Op
      <4> QED BY <3>2, <3>3, <4>1, <4>2, UniqueAppend DEF OnceInv, LineOnce
    <3>6. UNCHANGED <<rows, events, acked, fifo, server, paging, orphan, worker>>
      BY <2>5 DEF SubmitCall
    <3>7. LineOnce'
      BY <3>1, <3>2, <3>4, <3>5, <3>6 DEF LineOnce, OnceInv
    <3> QED BY <2>1, <2>2, <3>6, <3>7 DEF OnceInv
  <2>6. ASSUME NEW j \in Jobs, CancelCall(j) PROVE OnceInv'
    <3>1. LineOnce'
      BY <2>2, <2>6, LineStaysOnce DEF CancelCall, OnceInv
    <3> QED BY <2>1, <2>2, <2>6, <3>1 DEF CancelCall, OnceInv
  <2>7. CASE ClearCall
    <3>1. /\ Op("clear", NoJob) \in Operations /\ Op("clear", NoJob).job = NoJob
          /\ lockq' = Append(lockq, Op("clear", NoJob))
          /\ lockq \in Seq(Operations)
          /\ \A i \in Jobs : Op("clear", NoJob) # Op("submit_put", i)
      BY <2>7 DEF Op, Operations, ClearCall, Enqueue, TypeOK
    <3>2. Range(lockq') = Range(lockq) \cup {Op("clear", NoJob)}
      BY <3>1, RangeAppend
    <3>3. \A i \in Jobs : UniqueIn(lockq', Op("submit_put", i))
      BY <3>1, UniqueAppend DEF OnceInv, LineOnce
    <3>4. UNCHANGED <<rows, events, acked, fifo, server, paging, orphan, worker>>
      BY <2>7 DEF ClearCall
    <3>5. LineOnce'
      BY <2>0, <3>1, <3>2, <3>3, <3>4 DEF LineOnce, OnceInv
    <3> QED BY <2>1, <2>2, <3>4, <3>5 DEF OnceInv
  \* The submission leaves the line and the job enters the asyncio.Queue.
  <2>8. ASSUME NEW j \in Jobs, SubmitServe(j) PROVE OnceInv'
    <3>1. /\ Op("submit_put", j) \in Range(lockq) /\ lockq # <<>>
          /\ Op("submit_put", j).op = "submit_put" /\ Op("submit_put", j).job = j
          /\ Head(lockq) = Op("submit_put", j) /\ lockq' = Tail(lockq)
          /\ lockq \in Seq(Operations)
      <4>1. /\ AtHead("submit_put", j) /\ lockq' = Tail(lockq)
            /\ lockq \in Seq(Operations)
        BY <2>8 DEF SubmitServe, Leave, TypeOK
      <4> QED BY <4>1, HeadWaits, OpFields DEF AtHead
    <3>2. events[j] = <<>>  BY <3>1 DEF OnceInv, LineOnce
    <3>3. /\ Range(lockq') \subseteq Range(lockq)
          /\ \A i \in Jobs : UniqueIn(lockq', Op("submit_put", i))
          /\ Op("submit_put", j) \notin Range(lockq')
          /\ Range(lockq) \subseteq Operations
      BY <3>1, RangeOf, RangeTail, UniqueTail DEF OnceInv, LineOnce
    <3>4. /\ events'[j] # <<>>
          /\ \A i \in Jobs : i # j => /\ events'[i] = events[i]
                                       /\ rows'[i] = rows[i]
      BY <2>8, EmitAdds DEF SubmitServe, Write, TypeOK
    <3>5. ASSUME NEW x \in Range(lockq'), x.job = j PROVE x.op # "submit_put"
      <4>1. x \in Operations  BY <3>3
      <4>2. x.op = "submit_put" => x = Op("submit_put", j)
        BY <3>5, <4>1 DEF Operations, Op
      <4> QED BY <3>3, <4>2
    <3>6. LineOnce'
      BY <3>3, <3>4, <3>5 DEF LineOnce, OnceInv
    <3>7. /\ Range(fifo') = Range(fifo) \cup {j}
          /\ \A i \in Jobs : UniqueIn(fifo', i)
      <4>1. j \notin Range(fifo)  BY <3>2 DEF OnceInv
      <4>2. fifo' = Append(fifo, j) /\ fifo \in Seq(Jobs)
        BY <2>8 DEF SubmitServe, TypeOK
      <4> QED BY <4>1, <4>2, RangeAppend, UniqueAppend DEF OnceInv
    <3>8. /\ UNCHANGED <<acked, server, paging, orphan, worker>>
          /\ server = "up" /\ worker.job # j
      BY <2>8, <3>1, <3>2 DEF SubmitServe, StrandInv, OnceInv
    <3> QED BY <2>0, <3>2, <3>4, <3>6, <3>7, <3>8 DEF OnceInv
  <2>9. ASSUME NEW j \in Jobs, CancelRefused(j) PROVE OnceInv'
    <3>1. LineOnce'
      BY <2>2, <2>9, LineStaysOnce DEF CancelRefused, AtHead, OnceInv
    <3> QED BY <2>1, <2>2, <2>9, <3>1 DEF CancelRefused, OnceInv
  <2>10. ASSUME NEW j \in Jobs, CancelAccepted(j) PROVE OnceInv'
    <3>1. events[j] # <<>> /\ lockq # <<>>
      BY <2>4, <2>10 DEF CancelAccepted
    <3>2. LineOnce'
      BY <2>2, <2>10, <3>1, LineStaysOnce DEF CancelAccepted, OnceInv
    <3>3. /\ UNCHANGED <<rows, events, fifo, server, paging, orphan, worker>>
          /\ \A i \in Jobs : i # j => acked'[i] = acked[i]
      BY <2>10 DEF CancelAccepted, TypeOK
    <3> QED BY <2>3, <3>1, <3>2, <3>3
  \* An operation is served that writes a row and emits its event.
  <2>11. ASSUME NEW j \in Jobs, NEW name \in JobOps \ {"submit_put"},
                NEW kind \in Kinds, AtHead(name, j), Leave,
                Emit(j, kind) \/ UNCHANGED events,
                UNCHANGED <<fifo, server, paging, orphan, acked>>,
                worker'.job \in {worker.job, NoJob},
                \A i \in Jobs : i # j => rows'[i] = rows[i]
         PROVE  OnceInv'
    <3>1. events[j] # <<>> /\ lockq # <<>>  BY <2>4, <2>11
    <3>2. /\ events'[j] # <<>>
          /\ \A i \in Jobs : i # j => events'[i] = events[i]
      BY <2>11, <3>1, EmitAdds DEF TypeOK
    <3>3. SameFresh  BY <3>1, <3>2 DEF SameFresh
    <3>4. LineOnce'  BY <2>11, <3>1, <3>3, LineStaysOnce DEF OnceInv
    <3> QED BY <2>3, <2>11, <3>1, <3>2, <3>4
  <2>12. ASSUME NEW j \in Jobs, CancelWrite(j) PROVE OnceInv'
    BY <2>11, <2>12 DEF CancelWrite, Write, TypeOK
  \* The worker asks for its next operation.
  <2>13. ASSUME NEW j \in Jobs, NEW name \in WorkerOps, NEW next \in WorkerOps,
                AtHead(name, j), Then(next, j),
                UNCHANGED <<rows, events, acked, fifo, server, paging, orphan,
                            worker>>
         PROVE  OnceInv'
    <3>1. events[j] # <<>> /\ lockq # <<>>  BY <2>4, <2>13
    <3>2. LineOnce'  BY <2>2, <2>13, <3>1, LineStaysOnce DEF OnceInv
    <3> QED BY <2>1, <2>2, <2>13, <3>2 DEF OnceInv
  <2>14. ASSUME NEW j \in Jobs, WorkerLoad(j) \/ MarkRead(j) PROVE OnceInv'
    <3>1. PICK name \in WorkerOps, next \in WorkerOps :
            /\ AtHead(name, j)
            /\ UNCHANGED <<rows, events, acked, fifo, server, paging, orphan>>
            /\ \/ Leave /\ worker' = Idle
               \/ Then(next, j) /\ worker' = worker
      BY <2>14 DEF WorkerLoad, MarkRead
    <3> QED BY <2>11, <2>13, <3>1
  <2>15. ASSUME NEW j \in Jobs, WorkerStart(j) PROVE OnceInv'
    BY <2>11, <2>15 DEF WorkerStart, Write, TypeOK
  <2>16. ASSUME NEW j \in Jobs, StoreArtifact(j) PROVE OnceInv'
    BY <2>13, <2>16 DEF StoreArtifact
  <2>17. ASSUME NEW j \in Jobs, FinalRead(j) \/ ErrorRead(j) PROVE OnceInv'
    <3>1. PICK name \in WorkerOps, next \in WorkerOps, kind \in Kinds :
            /\ AtHead(name, j)
            /\ UNCHANGED <<rows, acked, fifo, server, paging, orphan>>
            /\ \/ Leave /\ worker' = Idle /\ Emit(j, kind)
               \/ Then(next, j) /\ worker' = worker /\ UNCHANGED events
      BY <2>17 DEF FinalRead, ErrorRead, ReadToEnd
    <3> QED BY <2>11, <2>13, <3>1
  <2>18. ASSUME NEW j \in Jobs, FinalWrite(j) \/ MarkWrite(j) \/ ErrorWrite(j)
         PROVE  OnceInv'
    <3>1. PICK name \in WorkerOps, kind \in Kinds : EndWith(name, kind, j)
      BY <2>18 DEF FinalWrite, MarkWrite, ErrorWrite
    <3> QED BY <2>11, <3>1 DEF EndWith, Write, TypeOK
  <2>19. CASE ClearServe
    <3>1. LineOnce'
      BY <2>2, <2>19, LineStaysOnce DEF ClearServe, AtHead, OnceInv
    <3> QED BY <2>1, <2>2, <2>19, <3>1 DEF ClearServe, OnceInv
  <2>20. CASE WorkerTake
    <3> DEFINE h == Head(fifo)
    <3>1. /\ fifo # <<>> /\ fifo \in Seq(Jobs) /\ fifo' = Tail(fifo)
          /\ worker'.job = h
          /\ UNCHANGED <<rows, events, acked, server, paging, orphan>>
          /\ \/ Enqueue("marked_get", h)
             \/ Enqueue("start_get", h)
      BY <2>20 DEF WorkerTake, TypeOK
    <3>2. /\ h \in Range(fifo) /\ h \in Jobs
          /\ Range(fifo') \subseteq Range(fifo)
          /\ h \notin Range(fifo') /\ \A i \in Jobs : UniqueIn(fifo', i)
      BY <3>1, RangeTail, RangeOf, UniqueTail DEF OnceInv
    <3>3. events[h] # <<>>  BY <3>2 DEF OnceInv
    <3>4. LineOnce'
      BY <2>2, <3>1, <3>2, <3>3, LineStaysOnce DEF OnceInv
    <3>5. server = "up"  BY <2>20 DEF WorkerTake
    <3> HIDE DEF h
    <3> QED BY <3>1, <3>2, <3>3, <3>4, <3>5 DEF OnceInv
  <2>21. ASSUME NEW j \in Jobs, NEW next \in WorkerOps, AfterRunner(j, next)
         PROVE  OnceInv'
    <3>1. worker.job = j /\ worker'.job = j /\ events[j] # <<>>
      BY <2>21 DEF AfterRunner, TypeOK, OnceInv
    <3>2. LineOnce'
      BY <2>2, <2>21, <3>1, LineStaysOnce DEF AfterRunner, OnceInv
    <3> QED BY <2>1, <2>2, <2>21, <3>1, <3>2 DEF AfterRunner, OnceInv
  <2>22. CASE RunnerEnds
    BY <2>21, <2>22 DEF RunnerEnds, RunnerReturns, RunnerRaises, RunnerCancelled
  <2>23. CASE BackendFault
    <3>1. worker'.job = worker.job /\ lockq # <<>> /\ Leave
          /\ UNCHANGED <<rows, events, acked, fifo, server, paging, orphan>>
      BY <2>23 DEF BackendFault, TypeOK
    <3>2. LineOnce'
      BY <2>2, <3>1, LineStaysOnce DEF OnceInv
    <3> QED BY <2>1, <2>2, <3>1, <3>2 DEF OnceInv
  <2>24. ASSUME NEW j \in Jobs, RunnerAborts(j) PROVE OnceInv'
    <3>1. worker'.job = worker.job
          /\ UNCHANGED <<rows, events, acked, fifo, server, paging, orphan, lockq>>
      BY <2>24 DEF RunnerAborts, TypeOK
    <3>2. LineOnce'
      BY <2>2, <3>1, LineStaysOnce DEF OnceInv
    <3> QED BY <2>1, <2>2, <3>1, <3>2 DEF OnceInv
  <2>25. ASSUME ForgetMemory, UNCHANGED <<rows, events, acked>> PROVE OnceInv'
    BY <2>0, <2>25, EmptyQueue DEF ForgetMemory, OnceInv, LineOnce
  <2>26. CASE Crash \/ ShutdownAborts \/ ShutdownEnd
    BY <2>25, <2>26 DEF Crash, ShutdownAborts, ShutdownEnd
  \* Only the worker's operation can still be in its thread.
  <2>27. CASE ShutdownBegin
    <3>1. \A x \in Range(lockq) : x.op \in WorkerOps
      <4>1. Range(lockq) \subseteq Operations  BY RangeOf DEF TypeOK
      <4>2. \A i \in DOMAIN lockq : lockq[i].op \notin ClientOps
        BY <2>27 DEF ShutdownBegin, Waiting
      <4> QED BY <4>1, <4>2 DEF Range, Operations, Op
    <3>2. \A x \in Range(lockq) : events[x.job] # <<>>
      <4>1. Range(lockq) \subseteq Operations  BY RangeOf DEF TypeOK
      <4> QED BY <3>1, <4>1 DEF OnceInv, LineOnce, Operations, Op
    <3>3. LineOnce'
      BY <2>27, EmptyQueue DEF ShutdownBegin, LineOnce
    <3> QED BY <2>0, <2>27, <3>1, <3>2, <3>3 DEF ShutdownBegin, OnceInv
  <2>28. CASE OrphanLands
    <3>1. Head(orphan) \in Range(orphan)
      BY <2>28, RangeTail DEF OrphanLands, TypeOK
    <3>2. Head(orphan).job \in Jobs /\ events[Head(orphan).job] # <<>>
      BY <2>0, <3>1 DEF OnceInv
    <3>3. \A i \in Jobs : i # Head(orphan).job => rows'[i] = rows[i]
      BY <2>28 DEF OrphanLands, TypeOK
    <3>4. LineOnce'
      BY <2>2, <2>28, LineStaysOnce DEF OrphanLands, OnceInv
    <3> QED BY <2>0, <2>28, <3>2, <3>3, <3>4, EmptyQueue
            DEF OrphanLands, OnceInv
  <2>29. CASE ShutdownPage
    <3>1. \A j \in paging'.todo : j \in Jobs /\ rows[j] = "queued"
      BY <2>29 DEF ShutdownPage
    <3>2. LineOnce'
      BY <2>2, <2>29, LineStaysOnce DEF ShutdownPage, OnceInv
    <3>3. UNCHANGED <<rows, events, acked, fifo, server, orphan, worker>>
          /\ server = "stopping"
      BY <2>29 DEF ShutdownPage
    <3> QED BY <3>1, <3>2, <3>3 DEF OnceInv
  <2>30. ASSUME NEW j \in Jobs, ShutdownMark(j) PROVE OnceInv'
    <3>1. /\ events[j] # <<>> /\ paging'.todo \subseteq paging.todo
          /\ \A i \in Jobs : i # j => rows'[i] = rows[i]
      BY <2>30 DEF ShutdownMark, OnceInv, TypeOK
    <3>2. LineOnce'
      BY <2>2, <2>30, LineStaysOnce DEF ShutdownMark, OnceInv
    <3>3. UNCHANGED <<events, acked, fifo, server, orphan, worker>>
          /\ server = "stopping"
      BY <2>30 DEF ShutdownMark
    <3> QED BY <3>1, <3>2, <3>3 DEF OnceInv
  <2>31. CASE Restart
    <3>1. /\ fifo = <<>> /\ fifo' = <<>> /\ orphan' = <<>> /\ paging'.todo = {}
          /\ UNCHANGED <<rows, events, acked, lockq>> /\ worker'.job = NoJob
      BY <2>31 DEF Restart, OnceInv
    <3>2. LineOnce'
      BY <2>2, <3>1, LineStaysOnce DEF OnceInv
    <3> QED BY <2>0, <3>1, <3>2, EmptyQueue DEF OnceInv
  <2>32. CASE UNCHANGED vars
    <3>1. LineOnce'
      BY <2>2, <2>32, LineStaysOnce DEF vars, OnceInv
    <3> QED BY <2>1, <2>2, <2>32, <3>1 DEF vars, OnceInv
  <2> QED
    BY <2>5, <2>6, <2>7, <2>8, <2>9, <2>10, <2>12, <2>14, <2>15, <2>16, <2>17,
       <2>18, <2>19, <2>20, <2>22, <2>23, <2>24, <2>26, <2>27, <2>28, <2>29,
       <2>30, <2>31, <2>32
    DEF Next, ClientCall, Serve, Failure, StopStart
<1> QED BY <1>1, <1>2, TypeCorrect, OnlyKnown, StrandInvHolds, PTL DEF Spec

-----------------------------------------------------------------------------
(* Where a job stands: what its history and its row say while an operation *)
(* of it waits, while it is queued, and while it runs.                     *)

Outcomes == {"completed", "failed"}

StartOps == {"start_get", "start_put"}

\* The operations of PastCheck.
LateOps == {"artifact_put", "final_get", "final_put", "error_get", "error_put"}

\* The job has no outcome, neither announced nor in its row.
Open(j) == Emitted(j) \cap Outcomes = {} /\ rows[j] \notin {"complete", "error"}

Started(j) == "started" \in Emitted(j)

\* The operation finds its job where it was when the caller asked for it.
Fit(x) ==
  /\ x.op \in WorkerOps \cup {"cancel_put"} => Open(x.job)
  /\ x.op \in StartOps => ~Started(x.job)
  /\ x.op \in LateOps => Started(x.job)

\* A cancel that waits to write its job's row is served before the worker ends
\* that job: it read the row before the job was started.
CancelFirst(q) ==
  \A i, k \in DOMAIN q :
    q[i].op = "cancel_put" /\ q[k].op \in LateOps /\ q[i].job = q[k].job => i < k

LineFit ==
  /\ \A x \in Range(lockq) : Fit(x)
  /\ CancelFirst(lockq)

WorkerFit ==
  worker.pc = "running" =>
    worker.job \in Jobs /\ Open(worker.job) /\ Started(worker.job)

LifeInv ==
  /\ LineFit
  /\ \A x \in Range(orphan) : Fit(x)
  /\ \A j \in Range(fifo) : Open(j) /\ ~Started(j)
  /\ WorkerFit
  /\ \A j \in paging.todo : events[j] = <<"queued">> /\ Open(j)
  /\ \A j \in Jobs : rows[j] = "queued" => events[j] = <<"queued">>
  /\ \A j \in Jobs : rows[j] = "running" => Emitted(j) \cap Outcomes = {}

\* No job gets an outcome and none is started by the step.
Calm ==
  \A i \in Jobs : /\ Open(i) => Open(i)'
                  /\ Started(i)' <=> Started(i)

LEMMA FirstTail ==
  ASSUME NEW q \in Seq(Operations), q # <<>>, CancelFirst(q)
  PROVE  /\ CancelFirst(Tail(q))
         /\ Head(q).op \in LateOps =>
              \A x \in Range(q) : x.job = Head(q).job => x.op # "cancel_put"
  <1>1. /\ DOMAIN q = 1 .. Len(q) /\ Len(q) \in Nat
        /\ DOMAIN Tail(q) = 1 .. Len(q) - 1
        /\ \A i \in DOMAIN Tail(q) :
             i + 1 \in DOMAIN q /\ Tail(q)[i] = q[i + 1]
        /\ 1 \in DOMAIN q /\ Head(q) = q[1]
    BY TailElements, HeadTailProperties, LenProperties, EmptySeq
  <1>2. ASSUME NEW i \in DOMAIN Tail(q), NEW k \in DOMAIN Tail(q),
               Tail(q)[i].op = "cancel_put", Tail(q)[k].op \in LateOps,
               Tail(q)[i].job = Tail(q)[k].job
        PROVE  i < k
    <2>1. i + 1 < k + 1  BY <1>1, <1>2, Zenon DEF CancelFirst
    <2> QED BY <1>1, <2>1
  <1>3. ASSUME Head(q).op \in LateOps, NEW x \in Range(q),
               x.job = Head(q).job, x.op = "cancel_put"
        PROVE  FALSE
    <2>1. PICK i \in DOMAIN q : q[i] = x  BY DEF Range
    <2>2. i < 1  BY <1>1, <1>3, <2>1, Zenon DEF CancelFirst
    <2> QED BY <1>1, <2>1, <2>2
  <1> QED BY <1>2, <1>3 DEF CancelFirst

LEMMA FirstAppend ==
  ASSUME NEW q \in Seq(Operations), NEW y \in Operations, CancelFirst(q),
         y.op = "cancel_put" =>
           \A x \in Range(q) : x.job = y.job => x.op \notin LateOps
  PROVE  CancelFirst(Append(q, y))
  <1> DEFINE a == Append(q, y)
  <1>1. /\ \A i \in DOMAIN a : \/ i \in DOMAIN q /\ a[i] = q[i] /\ i < Len(q) + 1
                               \/ i = Len(q) + 1 /\ a[i] = y
    BY AppendProperties, LenProperties
  <1>2. \A i \in DOMAIN q : q[i] \in Range(q)  BY DEF Range
  <1>3. y.op = "cancel_put" => y.op \notin LateOps  BY DEF LateOps
  <1> HIDE DEF a
  <1>4. CancelFirst(a)
    BY <1>1, <1>2, <1>3, Zenon DEF CancelFirst
  <1> QED BY <1>4 DEF a

LEMMA FitStays ==
  ASSUME Calm, NEW x \in Operations, Fit(x)
  PROVE  Fit(x)'
  <1>1. x.op # "clear" => x.job \in Jobs  BY DEF Operations, Op
  <1>2. x.op \in WorkerOps \cup {"cancel_put"} \cup StartOps \cup LateOps
          => x.op # "clear"
    BY DEF StartOps, LateOps
  <1> QED BY <1>1, <1>2 DEF Calm, Fit

LEMMA LineStaysFit ==
  ASSUME TypeOK, LineFit, Calm
  PROVE  /\ UNCHANGED lockq => LineFit'
         /\ lockq # <<>> /\ Leave => LineFit'
         /\ \A name \in JobOps, j \in Jobs :
              /\ name = "cancel_put" => ~Started(j)
              /\ Fit(Op(name, j))'
              /\ Enqueue(name, j)
              => LineFit'
         /\ \A name \in JobOps, j \in Jobs :
              /\ name = "cancel_put" => ~Started(j)
              /\ Fit(Op(name, j))'
              /\ lockq # <<>> /\ Then(name, j)
              => LineFit'
  <1>1. lockq \in Seq(Operations) /\ Range(lockq) \subseteq Operations
    BY RangeOf DEF TypeOK
  <1>2. \A x \in Range(lockq) : Fit(x)'
    BY <1>1, FitStays DEF LineFit
  <1>3. ASSUME lockq # <<>>
        PROVE  /\ Tail(lockq) \in Seq(Operations)
               /\ Range(Tail(lockq)) \subseteq Range(lockq)
               /\ CancelFirst(Tail(lockq))
    BY <1>1, <1>3, TailElements, RangeTail, FirstTail DEF LineFit
  <1>4. ASSUME NEW q \in Seq(Operations), Range(q) \subseteq Range(lockq),
               CancelFirst(q), NEW name \in JobOps, NEW j \in Jobs,
               name = "cancel_put" => ~Started(j), Fit(Op(name, j))',
               lockq' = Append(q, Op(name, j))
        PROVE  LineFit'
    <2>1. /\ Op(name, j) \in Operations
          /\ Op(name, j).op = name /\ Op(name, j).job = j
      BY OpFields
    <2>2. Range(lockq') = Range(q) \cup {Op(name, j)}
      BY <1>4, <2>1, RangeAppend
    <2>3. name = "cancel_put" =>
            \A x \in Range(q) : x.job = j => x.op \notin LateOps
      BY <1>4 DEF LineFit, Fit
    <2>4. CancelFirst(lockq')
      BY <1>4, <2>1, <2>3, FirstAppend
    <2>5. \A x \in Range(lockq') : Fit(x)'
      BY <1>2, <1>4, <2>2
    <2> QED BY <2>4, <2>5 DEF LineFit
  <1>5. ASSUME lockq # <<>>, Leave PROVE LineFit'
    BY <1>2, <1>3, <1>5 DEF LineFit, Leave
  <1>6. ASSUME UNCHANGED lockq PROVE LineFit'
    BY <1>2, <1>6 DEF LineFit
  <1>7. ASSUME NEW name \in JobOps, NEW j \in Jobs,
               name = "cancel_put" => ~Started(j), Fit(Op(name, j))',
               Enqueue(name, j)
        PROVE  LineFit'
    BY <1>1, <1>4, <1>7 DEF Enqueue, LineFit
  <1>8. ASSUME NEW name \in JobOps, NEW j \in Jobs,
               name = "cancel_put" => ~Started(j), Fit(Op(name, j))',
               lockq # <<>>, Then(name, j)
        PROVE  LineFit'
    BY <1>3, <1>4, <1>8 DEF Then
  <1> QED BY <1>5, <1>6, <1>7, <1>8

\* An operation of the worker at the head: the others of its job in the line
\* are clients'.
LEMMA WorkerHead ==
  ASSUME TypeOK, StrandInv, NEW name \in WorkerOps, NEW j \in Jobs,
         AtHead(name, j)
  PROVE  /\ worker.pc = "busy" /\ worker.job = j /\ server = "up"
         /\ lockq # <<>> /\ Op(name, j) \in Range(lockq)
         /\ Leave => \A x \in Range(lockq') : x.op \notin WorkerOps
  <1>1. /\ worker.pc = "busy" /\ worker.job = j
        /\ Leave => NoWorkerOp(lockq')
    BY WorkerLine DEF StrandInv
  <1>2. lockq # <<>> /\ Op(name, j) \in Range(lockq)
    BY HeadWaits
  <1> QED BY <1>1, <1>2 DEF StrandInv, NoWorkerOp, Range

LEMMA JobsInPlace == Spec => []LifeInv
<1> USE DEF StartOps, LateOps, Outcomes
<1>1. Init => LifeInv
  BY EmptyQueue, EmptySeq DEF Init, LifeInv, LineFit, CancelFirst, WorkerFit
<1>2. TypeOK /\ StrandInv /\ OnceInv /\ LifeInv /\ [Next]_vars => LifeInv'
  <2> SUFFICES ASSUME TypeOK, StrandInv, OnceInv, LifeInv, [Next]_vars
               PROVE  LifeInv'
    OBVIOUS
  <2> USE DEF database, memory, history, control
  <2>0. /\ lockq \in Seq(Operations) /\ Range(lockq) \subseteq Operations
        /\ Range(orphan) \subseteq Operations /\ Range(fifo) \subseteq Jobs
        /\ paging.todo \subseteq Jobs
        /\ lockq # <<>> => server = "up"
        /\ server = "up" => paging.todo = {} /\ orphan = <<>>
    BY RangeOf DEF TypeOK, StrandInv, OnceInv
  <2>1. ASSUME Calm, LineFit', UNCHANGED <<fifo, orphan, paging>>,
               worker' = worker \/ worker'.pc # "running",
               paging.todo = {} \/ UNCHANGED events,
               \A i \in Jobs : rows'[i] \in {"queued", "running"} =>
                 rows'[i] = rows[i] /\ events'[i] = events[i]
        PROVE  LifeInv'
    <3>1. \A x \in Range(orphan) : Fit(x)'
      BY <2>0, <2>1, FitStays DEF LifeInv
    <3>2. \A j \in Range(fifo) : Open(j)' /\ ~Started(j)'
      BY <2>0, <2>1 DEF LifeInv, Calm
    <3>3. WorkerFit'
      BY <2>1 DEF LifeInv, WorkerFit, Calm, Open, Started, Emitted
    <3>4. \A j \in paging.todo : events'[j] = <<"queued">> /\ Open(j)'
      BY <2>0, <2>1 DEF LifeInv, Calm
    <3>5. \A j \in Jobs : /\ rows'[j] = "queued" => events'[j] = <<"queued">>
                          /\ rows'[j] = "running" =>
                               Emitted(j)' \cap Outcomes = {}
      BY <2>1 DEF LifeInv, Emitted
    <3> QED BY <2>1, <3>1, <3>2, <3>3, <3>4, <3>5 DEF LifeInv
  <2>2. ASSUME UNCHANGED <<rows, events>> PROVE Calm
    BY <2>2 DEF Calm, Open, Started, Emitted
  <2>3. ASSUME NEW j \in Jobs, NEW name \in JobOps \ (WorkerOps \cup {"cancel_put"})
        PROVE  Fit(Op(name, j))'
    BY <2>3, OpFields DEF Fit
  \* Neither a row nor an event changes, and nothing of the worker's enters.
  <2>4. ASSUME UNCHANGED <<rows, events, fifo, orphan, paging>>,
               worker' = worker \/ worker'.pc # "running", LineFit'
        PROVE  LifeInv'
    BY <2>1, <2>2, <2>4
  <2>5. ASSUME NEW j \in Jobs, SubmitCall(j) \/ CancelCall(j) PROVE LifeInv'
    <3>1. PICK name \in {"submit_put", "cancel_get"} :
            /\ Enqueue(name, j)
            /\ UNCHANGED <<rows, events, fifo, orphan, paging, worker>>
      BY <2>5 DEF SubmitCall, CancelCall
    <3>2. LineFit'  BY <2>2, <2>3, <3>1, LineStaysFit DEF LifeInv
    <3> QED BY <2>4, <3>1, <3>2
  <2>6. CASE ClearCall
    <3>1. /\ Op("clear", NoJob) \in Operations /\ Op("clear", NoJob).op = "clear"
          /\ lockq' = Append(lockq, Op("clear", NoJob))
          /\ UNCHANGED <<rows, events, fifo, orphan, paging, worker>>
      BY <2>6 DEF Op, Operations, ClearCall, Enqueue
    <3>2. Range(lockq') = Range(lockq) \cup {Op("clear", NoJob)}
          /\ CancelFirst(lockq')
      BY <2>0, <3>1, RangeAppend, FirstAppend DEF LifeInv, LineFit
    <3>3. \A x \in Range(lockq) : Fit(x)'
      BY <2>0, <2>2, <3>1, FitStays DEF LifeInv, LineFit
    <3>4. Fit(Op("clear", NoJob))'  BY <3>1 DEF Fit
    <3>5. LineFit'  BY <3>2, <3>3, <3>4 DEF LineFit
    <3> QED BY <2>4, <3>1, <3>5
  <2>7. ASSUME NEW j \in Jobs, SubmitServe(j) PROVE LifeInv'
    <3>1. /\ Op("submit_put", j) \in Range(lockq) /\ lockq # <<>>
      BY <2>7, HeadWaits DEF SubmitServe
    <3>2. events[j] = <<>> /\ server = "up"
      BY <2>0, <3>1, OpFields DEF OnceInv, LineOnce
    <3>3. /\ events' = [events EXCEPT ![j] = Append(events[j], "queued")]
          /\ rows' = [rows EXCEPT ![j] = "queued"]
          /\ Leave /\ fifo' = Append(fifo, j)
          /\ UNCHANGED <<orphan, paging, worker>>
      BY <2>7 DEF SubmitServe, Emit, Write, Writes
    <3>4. /\ rows'[j] = "queued" /\ events'[j] = <<"queued">>
          /\ \A i \in Jobs : i # j => rows'[i] = rows[i] /\ events'[i] = events[i]
      BY <3>2, <3>3 DEF TypeOK
    <3>5. Emitted(j)' = {"queued"}
      <4>1. Emitted(j) = {}  BY <3>2, EmptyQueue DEF Emitted
      <4>2. Emitted(j)' = Emitted(j) \cup {"queued"}
        BY <3>3, EmitAdds DEF Emit, TypeOK
      <4> QED BY <4>1, <4>2
    <3>6. ~Started(j)  BY <3>2, EmptyQueue DEF Started, Emitted
    <3>7. Open(j)' /\ ~Started(j)'  BY <3>4, <3>5 DEF Open, Started
    <3>8. Calm  BY <3>4, <3>6, <3>7 DEF Calm, Open, Started, Emitted
    <3>9. LineFit'  BY <3>1, <3>3, <3>8, LineStaysFit DEF LifeInv
    <3>10. Range(fifo') = Range(fifo) \cup {j}
      BY <3>3, RangeAppend DEF TypeOK
    <3>11. \A i \in Range(fifo') : Open(i)' /\ ~Started(i)'
      BY <2>0, <3>7, <3>8, <3>10 DEF LifeInv, Calm
    <3>12. WorkerFit'
      BY <3>3, <3>8 DEF LifeInv, WorkerFit, Calm, Open, Started, Emitted
    <3>13. \A i \in Jobs : /\ rows'[i] = "queued" => events'[i] = <<"queued">>
                           /\ rows'[i] = "running" =>
                                Emitted(i)' \cap Outcomes = {}
      BY <3>4 DEF LifeInv, Emitted
    <3> QED BY <2>0, <3>2, <3>3, <3>9, <3>11, <3>12, <3>13, EmptyQueue DEF LifeInv, WorkerFit
  <2>8. ASSUME NEW j \in Jobs, CancelRefused(j) PROVE LifeInv'
    <3>1. LineFit'
      BY <2>2, <2>8, LineStaysFit DEF CancelRefused, AtHead, LifeInv
    <3> QED BY <2>4, <2>8, <3>1 DEF CancelRefused
  \* A row that says "queued" is of a job that was not started.
  <2>9. ASSUME NEW j \in Jobs, CancelAccepted(j) PROVE LifeInv'
    <3>1. UNCHANGED <<rows, events, fifo, orphan, paging, worker>>
          /\ lockq # <<>>
      BY <2>9 DEF CancelAccepted, AtHead
    <3>2. CASE rows[j] = "queued"
      <4>1. Then("cancel_put", j)  BY <2>9, <3>2 DEF CancelAccepted
      <4>2. Emitted(j) = {"queued"}
        <5>1. events[j] = <<"queued">>  BY <3>2 DEF LifeInv
        <5> QED BY <5>1 DEF Emitted, Range
      <4>3. Open(j)' /\ ~Started(j)
        BY <3>1, <3>2, <4>2 DEF Open, Started, Emitted
      <4>4. Fit(Op("cancel_put", j))'
        BY <4>3, OpFields DEF Fit
      <4>5. LineFit'  BY <2>2, <3>1, <4>1, <4>3, <4>4, LineStaysFit DEF LifeInv
      <4> QED BY <2>4, <3>1, <4>5
    <3>3. CASE rows[j] # "queued"
      <4>1. Leave  BY <2>9, <3>3 DEF CancelAccepted
      <4>2. LineFit'  BY <2>2, <3>1, <4>1, LineStaysFit DEF LifeInv
      <4> QED BY <2>4, <3>1, <4>2
    <3> QED BY <3>2, <3>3
  \* The job's row and its event say "cancelled".
  <2>10. ASSUME NEW j \in Jobs, NEW name \in {"cancel_put", "marked_put"},
                AtHead(name, j), Write(name, j), Emit(j, "cancelled"), Leave,
                UNCHANGED <<fifo, orphan, paging>>,
                worker' = worker \/ worker'.pc # "running"
         PROVE  LifeInv'
    <3>1. /\ rows'[j] = "cancelled"
          /\ Emitted(j)' = Emitted(j) \cup {"cancelled"}
          /\ \A i \in Jobs : i # j => rows'[i] = rows[i] /\ events'[i] = events[i]
      BY <2>10, EmitAdds DEF Write, Writes, TypeOK
    <3>2. Calm  BY <3>1 DEF Calm, Open, Started, Emitted
    <3>3. lockq # <<>>  BY <2>10 DEF AtHead
    <3>4. LineFit'  BY <2>10, <3>2, <3>3, LineStaysFit DEF LifeInv
    <3> QED BY <2>0, <2>1, <2>10, <3>1, <3>2, <3>3, <3>4
  <2>11. ASSUME NEW j \in Jobs, CancelWrite(j) PROVE LifeInv'
    BY <2>10, <2>11 DEF CancelWrite
  <2>12. CASE ClearServe
    <3>1. /\ rows' = [i \in Jobs |-> "absent"] /\ Leave /\ lockq # <<>>
          /\ UNCHANGED <<events, fifo, orphan, paging, worker>>
      BY <2>12 DEF ClearServe, AtHead
    <3>2. Calm  BY <3>1 DEF Calm, Open, Started, Emitted
    <3>3. LineFit'  BY <3>1, <3>2, LineStaysFit DEF LifeInv
    <3> QED BY <2>1, <3>1, <3>2, <3>3
  \* The worker leaves, and nothing else changes.
  <2>13. ASSUME lockq # <<>>, Leave, worker'.pc # "running",
                UNCHANGED <<rows, events, fifo, orphan, paging>>
         PROVE  LifeInv'
    <3>1. LineFit'  BY <2>2, <2>13, LineStaysFit DEF LifeInv
    <3> QED BY <2>4, <2>13, <3>1
  \* The worker asks for an operation of the same kind on the same job.
  <2>14. ASSUME NEW j \in Jobs, NEW name \in WorkerOps, NEW next \in WorkerOps,
                AtHead(name, j), Then(next, j),
                next \in StartOps => name \in StartOps,
                next \in LateOps => name \in LateOps,
                UNCHANGED <<rows, events, fifo, orphan, paging, worker>>
         PROVE  LifeInv'
    <3>1. Op(name, j) \in Range(lockq) /\ lockq # <<>>  BY <2>14, HeadWaits
    <3>2. Fit(Op(name, j))'
      <4>1. Fit(Op(name, j))  BY <3>1 DEF LifeInv, LineFit
      <4> QED BY <2>0, <2>2, <2>14, <3>1, <4>1, FitStays
    <3>3. Fit(Op(next, j))'
      BY <2>14, <3>2, OpFields DEF Fit
    <3>4. LineFit'  BY <2>2, <2>14, <3>1, <3>3, LineStaysFit DEF LifeInv
    <3> QED BY <2>4, <2>14, <3>4
  <2>15. ASSUME NEW j \in Jobs, WorkerLoad(j) \/ MarkRead(j) PROVE LifeInv'
    <3>1. PICK name \in WorkerOps, next \in WorkerOps :
            /\ AtHead(name, j)
            /\ next \in StartOps => name \in StartOps
            /\ next \notin LateOps
            /\ UNCHANGED <<rows, events, fifo, orphan, paging>>
            /\ \/ Leave /\ worker' = Idle
               \/ Then(next, j) /\ worker' = worker
      BY <2>15 DEF WorkerLoad, MarkRead
    <3> QED BY <2>13, <2>14, <3>1 DEF AtHead
  <2>16. ASSUME NEW j \in Jobs, WorkerStart(j) PROVE LifeInv'
    <3>1. /\ worker.job = j /\ server = "up" /\ lockq # <<>>
          /\ Op("start_put", j) \in Range(lockq)
          /\ Leave /\ \A x \in Range(lockq') : x.op \notin WorkerOps
      BY <2>16, WorkerHead DEF WorkerStart
    <3>2. Open(j)
      BY <3>1, OpFields DEF LifeInv, LineFit, Fit
    <3>3. /\ rows'[j] = "running"
          /\ Emitted(j)' = Emitted(j) \cup {"started"}
          /\ \A i \in Jobs : i # j => rows'[i] = rows[i] /\ events'[i] = events[i]
          /\ worker'.job = j
          /\ UNCHANGED <<fifo, orphan, paging>>
      BY <2>16, <3>1, EmitAdds DEF WorkerStart, Write, Writes, TypeOK
    <3>4. Open(j)' /\ Started(j)' /\ Emitted(j)' \cap Outcomes = {}
      BY <3>2, <3>3 DEF Open, Started
    <3>5. ASSUME NEW i \in Jobs, i # j
          PROVE  /\ Open(i) <=> Open(i)'
                 /\ Started(i)' <=> Started(i)
      BY <3>3, <3>5 DEF Open, Started, Emitted
    <3>6. ASSUME NEW x \in Range(lockq') PROVE Fit(x)'
      <4>1. /\ Range(lockq') \subseteq Range(lockq)
            /\ x \in Operations /\ Fit(x) /\ x.op \notin WorkerOps
        BY <2>0, <3>1, <3>6, LineAfter DEF LifeInv, LineFit
      <4>2. x.op = "cancel_put" => x.job \in Jobs
        BY <4>1 DEF Operations, Op
      <4>3. x.op = "cancel_put" => Open(x.job)'
        BY <3>4, <3>5, <4>1, <4>2 DEF Fit
      <4> QED BY <4>1, <4>3 DEF Fit
    <3>7. CancelFirst(lockq')
      BY <2>0, <3>1, FirstTail DEF LifeInv, LineFit, Leave
    <3>8. LineFit'  BY <3>6, <3>7 DEF LineFit
    <3>9. \A i \in Range(fifo) : i # j /\ Open(i)' /\ ~Started(i)'
      BY <2>0, <3>1, <3>5 DEF LifeInv, OnceInv
    <3>10. \A i \in Jobs : /\ rows'[i] = "queued" => events'[i] = <<"queued">>
                           /\ rows'[i] = "running" =>
                                Emitted(i)' \cap Outcomes = {}
      BY <3>3, <3>4 DEF LifeInv, Emitted
    <3> QED BY <2>0, <3>1, <3>3, <3>4, <3>8, <3>9, <3>10, EmptyQueue DEF LifeInv, WorkerFit
  <2>17. ASSUME NEW j \in Jobs, StoreArtifact(j) PROVE LifeInv'
    BY <2>14, <2>17 DEF StoreArtifact
  \* The outcome of the worker's job.  Nobody holds the job any more: the
  \* worker's operation was the only one, it is not queued, and every cancel
  \* that was to write its row has done so.
  <2>18. ASSUME NEW j \in Jobs, NEW name \in LateOps, NEW kind \in Outcomes,
                AtHead(name, j), Leave, Emit(j, kind), worker' = Idle,
                UNCHANGED <<fifo, orphan, paging>>,
                rows'[j] \notin {"queued", "running"},
                \A i \in Jobs : i # j => rows'[i] = rows[i]
         PROVE  LifeInv'
    <3>1. /\ worker.job = j /\ server = "up" /\ lockq # <<>>
          /\ \A x \in Range(lockq') : x.op \notin WorkerOps
      BY <2>18, WorkerHead
    <3>2. \A i \in Jobs : i # j => events'[i] = events[i]
      BY <2>18, EmitAdds DEF TypeOK
    <3>3. ASSUME NEW i \in Jobs, i # j
          PROVE  /\ Open(i) <=> Open(i)'
                 /\ Started(i)' <=> Started(i)
      BY <2>18, <3>2, <3>3 DEF Open, Started, Emitted
    <3>4. ASSUME NEW x \in Range(lockq') PROVE Fit(x)'
      <4>1. /\ Range(lockq') \subseteq Range(lockq)
            /\ x \in Operations /\ Fit(x) /\ x.op \notin WorkerOps
        BY <2>0, <2>18, <3>1, <3>4, LineAfter DEF LifeInv, LineFit
      <4>2. Head(lockq).op = name /\ Head(lockq).job = j
        BY <2>18, OpFields DEF AtHead
      <4>3. x.op = "cancel_put" => x.job # j
        BY <2>0, <3>1, <3>4, <4>1, <4>2, FirstTail DEF LifeInv, LineFit
      <4>4. x.op = "cancel_put" => x.job \in Jobs
        BY <4>1 DEF Operations, Op
      <4>5. x.op = "cancel_put" => Open(x.job)'
        BY <3>3, <4>1, <4>3, <4>4 DEF Fit
      <4> QED BY <4>1, <4>5 DEF Fit
    <3>5. CancelFirst(lockq')
      BY <2>0, <2>18, <3>1, FirstTail DEF LifeInv, LineFit, Leave
    <3>6. LineFit'  BY <3>4, <3>5 DEF LineFit
    <3>7. \A i \in Range(fifo) : i # j /\ Open(i)' /\ ~Started(i)'
      BY <2>0, <3>1, <3>3 DEF LifeInv, OnceInv
    <3>8. \A i \in Jobs : /\ rows'[i] = "queued" => events'[i] = <<"queued">>
                          /\ rows'[i] = "running" =>
                               Emitted(i)' \cap Outcomes = {}
      BY <2>18, <3>2 DEF LifeInv, Emitted
    <3> QED BY <2>0, <2>18, <3>1, <3>6, <3>7, <3>8, EmptyQueue DEF LifeInv, WorkerFit
  <2>19. ASSUME NEW j \in Jobs, FinalRead(j) \/ ErrorRead(j) PROVE LifeInv'
    <3>1. PICK name \in LateOps, next \in LateOps, kind \in Outcomes :
            /\ AtHead(name, j)
            /\ UNCHANGED <<rows, fifo, orphan, paging>>
            /\ \/ /\ Leave /\ worker' = Idle /\ Emit(j, kind)
                  /\ rows[j] = "absent"
               \/ Then(next, j) /\ worker' = worker /\ UNCHANGED events
      BY <2>19 DEF FinalRead, ErrorRead, ReadToEnd
    <3>2. name \in WorkerOps /\ next \in WorkerOps
          /\ next \notin StartOps
      OBVIOUS
    <3>3. CASE Leave /\ worker' = Idle /\ Emit(j, kind) /\ rows[j] = "absent"
      BY <2>18, <3>1, <3>3
    <3>4. CASE Then(next, j) /\ worker' = worker /\ UNCHANGED events
      BY <2>14, <3>1, <3>2, <3>4
    <3> QED BY <3>1, <3>3, <3>4
  <2>20. ASSUME NEW j \in Jobs, FinalWrite(j) \/ ErrorWrite(j) PROVE LifeInv'
    <3>1. PICK name \in {"final_put", "error_put"}, kind \in Outcomes :
            EndWith(name, kind, j)
      BY <2>20 DEF FinalWrite, ErrorWrite
    <3>2. /\ AtHead(name, j) /\ Leave /\ Emit(j, kind) /\ worker' = Idle
          /\ UNCHANGED <<fifo, orphan, paging>>
          /\ rows'[j] \notin {"queued", "running"}
          /\ \A i \in Jobs : i # j => rows'[i] = rows[i]
      BY <3>1 DEF EndWith, Write, Writes, TypeOK
    <3> QED BY <2>18, <3>2
  <2>21. ASSUME NEW j \in Jobs, MarkWrite(j) PROVE LifeInv'
    BY <2>10, <2>21 DEF MarkWrite, EndWith
  <2>22. CASE WorkerTake
    <3>0. PICK h \in Jobs : h = Head(fifo)
      BY <2>22, TailElements DEF WorkerTake, TypeOK
    <3>1. /\ fifo # <<>> /\ fifo \in Seq(Jobs) /\ fifo' = Tail(fifo)
          /\ worker'.pc = "busy"
          /\ UNCHANGED <<rows, events, orphan, paging>>
          /\ \/ Enqueue("marked_get", h)
             \/ Enqueue("start_get", h)
      BY <2>22, <3>0 DEF WorkerTake, TypeOK
    <3>2. h \in Range(fifo) /\ Range(fifo') \subseteq Range(fifo)
      BY <3>0, <3>1, RangeTail
    <3>3. Open(h)' /\ ~Started(h)'
      BY <3>1, <3>2 DEF LifeInv, Open, Started, Emitted
    <3>4. Fit(Op("marked_get", h))' /\ Fit(Op("start_get", h))'
      BY <3>2, <3>3, OpFields DEF Fit
    <3>5. LineFit'
      BY <2>2, <3>1, <3>2, <3>4, LineStaysFit DEF LifeInv
    <3>6. \A i \in Range(fifo') : Open(i)' /\ ~Started(i)'
      BY <3>1, <3>2 DEF LifeInv, Open, Started, Emitted
    <3>7. Calm  BY <2>2, <3>1
    <3>8. \A x \in Range(orphan) : Fit(x)'
      BY <2>0, <3>7, FitStays DEF LifeInv
    <3>9. \A j \in paging.todo : events'[j] = <<"queued">> /\ Open(j)'
      BY <3>1 DEF LifeInv, Open, Emitted
    <3> QED BY <3>1, <3>5, <3>6, <3>8, <3>9 DEF LifeInv, WorkerFit, Emitted
  \* The worker's first operation after the runner.
  <2>23. ASSUME NEW j \in Jobs, NEW next \in WorkerOps \ StartOps,
                AfterRunner(j, next)
         PROVE  LifeInv'
    <3>1. /\ worker.pc = "running" /\ worker.job = j /\ worker'.pc = "busy"
          /\ Enqueue(next, j)
          /\ UNCHANGED <<rows, events, fifo, orphan, paging>>
      BY <2>23 DEF AfterRunner, TypeOK
    <3>2. Open(j)' /\ Started(j)'
      BY <3>1 DEF LifeInv, WorkerFit, Open, Started, Emitted
    <3>3. Fit(Op(next, j))'  BY <3>2, OpFields DEF Fit
    <3>4. LineFit'  BY <2>2, <3>1, <3>3, LineStaysFit DEF LifeInv
    <3> QED BY <2>4, <3>1, <3>4
  <2>24. CASE RunnerEnds
    BY <2>23, <2>24 DEF RunnerEnds, RunnerReturns, RunnerRaises, RunnerCancelled
  <2>25. CASE BackendFault
    <3>1. /\ lockq # <<>> /\ Leave
          /\ UNCHANGED <<rows, events, fifo, orphan, paging>>
          /\ worker' = worker \/ worker'.pc # "running"
      BY <2>25 DEF BackendFault, TypeOK
    <3>2. LineFit'  BY <2>2, <3>1, LineStaysFit DEF LifeInv
    <3> QED BY <2>4, <3>1, <3>2
  <2>26. ASSUME NEW j \in Jobs, RunnerAborts(j) PROVE LifeInv'
    <3>1. /\ UNCHANGED <<rows, events, fifo, orphan, paging, lockq>>
          /\ worker'.pc = "dead"
      BY <2>26 DEF RunnerAborts, TypeOK
    <3>2. LineFit'  BY <2>2, <3>1, LineStaysFit DEF LifeInv
    <3> QED BY <2>4, <3>1, <3>2
  <2>27. ASSUME lockq' = <<>> PROVE LineFit'
    BY <2>27, EmptyQueue, EmptySeq DEF LineFit, CancelFirst
  <2>28. CASE Crash \/ ShutdownAborts \/ ShutdownEnd
    <3>1. ForgetMemory /\ UNCHANGED <<rows, events>>
      BY <2>28 DEF Crash, ShutdownAborts, ShutdownEnd
    <3>2. /\ worker'.pc = "stopped" /\ fifo' = <<>> /\ orphan' = <<>>
          /\ paging'.todo = {} /\ LineFit'
      BY <2>27, <3>1 DEF ForgetMemory
    <3> QED BY <3>1, <3>2, EmptyQueue DEF LifeInv, WorkerFit, Emitted
  <2>29. CASE ShutdownBegin
    <3>1. /\ UNCHANGED <<rows, events, fifo, paging>> /\ orphan' = lockq
          /\ worker'.pc = "stopped" /\ LineFit'
      BY <2>27, <2>29 DEF ShutdownBegin
    <3>2. \A x \in Range(lockq) : Fit(x)'
      BY <2>0, <2>2, <3>1, FitStays DEF LifeInv, LineFit
    <3> QED BY <3>1, <3>2 DEF LifeInv, WorkerFit, Open, Started, Emitted
  \* The thread that was left behind finds its job as it was.
  <2>30. CASE OrphanLands
    <3> DEFINE o == Head(orphan)
    <3>1. /\ o \in Range(orphan) /\ o \in Operations
          /\ o.op \in WorkerOps /\ Fit(o)
      BY <2>0, <2>30, RangeTail DEF OrphanLands, TypeOK, OnceInv, LifeInv
    <3>2. o.job \in Jobs  BY <3>1 DEF Operations, Op
    <3>3. /\ \A i \in Jobs : i # o.job => rows'[i] = rows[i]
          /\ \/ rows'[o.job] = rows[o.job]
             \/ o.op = "start_put" /\ rows'[o.job] = "running"
             \/ o.op = "marked_put" /\ rows'[o.job] = "cancelled"
             \/ o.op \in LateOps /\ rows'[o.job] \in {"complete", "error"}
      BY <2>30, <3>1, <3>2 DEF OrphanLands, Writes, TypeOK
    <3>4. /\ UNCHANGED <<events, fifo, paging, lockq, worker>>
          /\ orphan' = <<>> /\ server = "stopping"
      BY <2>30 DEF OrphanLands
    <3>5. worker.pc = "stopped" /\ lockq = <<>>
      BY <3>4 DEF StrandInv
    <3> HIDE DEF o
    <3>6. Open(o.job) /\ (o.op \in LateOps => Started(o.job))
      BY <3>1 DEF Fit
    <3>7. ASSUME NEW i \in Jobs, Open(i), ~Started(i) PROVE Open(i)' /\ ~Started(i)'
      BY <3>3, <3>4, <3>6, <3>7 DEF Open, Started, Emitted
    <3>8. \A i \in Range(fifo) : Open(i)' /\ ~Started(i)'
      BY <2>0, <3>7 DEF LifeInv
    <3>9. ASSUME NEW i \in paging.todo PROVE events'[i] = <<"queued">> /\ Open(i)'
      <4>1. events[i] = <<"queued">> /\ Open(i) /\ i \in Jobs
        BY <2>0 DEF LifeInv
      <4>2. ~Started(i)  BY <4>1 DEF Started, Emitted, Range
      <4> QED BY <3>4, <3>7, <4>1, <4>2
    <3>10. ASSUME NEW i \in Jobs
           PROVE  /\ rows'[i] = "queued" => events'[i] = <<"queued">>
                  /\ rows'[i] = "running" => Emitted(i)' \cap Outcomes = {}
      BY <3>3, <3>4, <3>6 DEF LifeInv, Emitted, Open
    <3>11. LineFit'  BY <2>27, <3>4, <3>5
    <3> QED BY <3>4, <3>5, <3>8, <3>9, <3>10, <3>11, EmptyQueue DEF LifeInv, WorkerFit
  <2>31. CASE ShutdownPage
    <3>1. /\ \A j \in paging'.todo : j \in Jobs /\ rows[j] = "queued"
          /\ UNCHANGED <<rows, events, fifo, orphan, lockq, worker>>
      BY <2>31 DEF ShutdownPage
    <3>2. ASSUME NEW j \in paging'.todo
          PROVE  events'[j] = <<"queued">> /\ Open(j)'
      <4>1. events'[j] = <<"queued">> /\ rows'[j] = "queued"
        BY <3>1 DEF LifeInv
      <4> QED BY <4>1 DEF Open, Emitted, Range
    <3>3. Calm /\ LineFit'  BY <2>2, <3>1, LineStaysFit DEF LifeInv
    <3>4. \A x \in Range(orphan) : Fit(x)'
      BY <2>0, <3>3, FitStays DEF LifeInv
    <3> QED BY <3>1, <3>2, <3>3, <3>4 DEF LifeInv, WorkerFit, Open, Started, Emitted
  <2>32. ASSUME NEW j \in Jobs, ShutdownMark(j) PROVE LifeInv'
    <3>1. /\ rows' = [rows EXCEPT ![j] = "cancelled"]
          /\ paging'.todo \subseteq paging.todo
          /\ UNCHANGED <<events, fifo, orphan, lockq, worker>>
      BY <2>32 DEF ShutdownMark, TypeOK
    <3>2. \A i \in Jobs : rows'[i] = rows[i] \/ rows'[i] = "cancelled"
      BY <3>1 DEF TypeOK
    <3>3. Calm  BY <3>1, <3>2 DEF Calm, Open, Started, Emitted
    <3>4. LineFit'  BY <3>1, <3>3, LineStaysFit DEF LifeInv
    <3>5. \A x \in Range(orphan) : Fit(x)'
      BY <2>0, <3>3, FitStays DEF LifeInv
    <3>6. \A i \in Range(fifo) : Open(i)' /\ ~Started(i)'
      BY <2>0, <3>3 DEF LifeInv, Calm
    <3>7. WorkerFit'
      BY <3>1, <3>3 DEF LifeInv, WorkerFit, Calm, Open, Started, Emitted
    <3>8. \A i \in paging'.todo : events'[i] = <<"queued">> /\ Open(i)'
      BY <2>0, <3>1, <3>3 DEF LifeInv, Calm
    <3>9. \A i \in Jobs : /\ rows'[i] = "queued" => events'[i] = <<"queued">>
                          /\ rows'[i] = "running" =>
                               Emitted(i)' \cap Outcomes = {}
      BY <3>1, <3>2 DEF LifeInv, Emitted
    <3> QED BY <3>1, <3>4, <3>5, <3>6, <3>7, <3>8, <3>9 DEF LifeInv
  <2>33. CASE Restart
    <3>1. /\ UNCHANGED <<rows, events, fifo, orphan, paging, lockq>>
          /\ worker'.pc = "idle"
      BY <2>33 DEF Restart
    <3>2. LineFit'  BY <2>2, <3>1, LineStaysFit DEF LifeInv
    <3> QED BY <2>4, <3>1, <3>2
  <2>34. CASE UNCHANGED vars
    <3>1. LineFit'  BY <2>2, <2>34, LineStaysFit DEF LifeInv, vars
    <3> QED BY <2>4, <2>34, <3>1 DEF vars
  <2> QED
    BY <2>5, <2>6, <2>7, <2>8, <2>9, <2>11, <2>12, <2>15, <2>16, <2>17, <2>19,
       <2>20, <2>21, <2>22, <2>24, <2>25, <2>26, <2>28, <2>29, <2>30, <2>31,
       <2>32, <2>33, <2>34
    DEF Next, ClientCall, Serve, Failure, StopStart
<1> QED BY <1>1, <1>2, TypeCorrect, StrandInvHolds, SubmittedOnce, PTL DEF Spec

-----------------------------------------------------------------------------
(* A cancellation is not forgotten.                                        *)

\* The job's row or its history says "cancelled", or will as soon as a waiting
\* cancel writes it, or a cancel in time was acknowledged.
Cancelling(j) ==
  \/ rows[j] = "cancelled"
  \/ "cancelled" \in Emitted(j)
  \/ acked[j] = "early"
  \/ Op("cancel_put", j) \in Range(lockq)

\* The worker has still to look at the cancel mark of the job, and will find
\* it, unless it has nothing to do with the job any more.
Marked(j) ==
  /\ j \in Range(fifo) => j \in cancelled
  /\ worker.pc = "running" /\ worker.job = j => j \in cancelled
  /\ \A x \in Range(lockq) : x.job = j =>
       /\ x.op \notin LateOps
       /\ x.op \in StartOps => j \in cancelled

MarkInv ==
  /\ server = "up" => \A j \in Jobs \ cleared : Cancelling(j) => Marked(j)
  /\ \A j \in Jobs \ cleared :
       /\ acked[j] = "early" => Open(j)
       /\ Cancelling(j) =>
            \A x \in Range(orphan) : x.job = j => x.op \notin LateOps

\* Every operation of the worker in the line is one that waited, or the next
\* of one that waited; and no cancel asked to write.
LineGoesOn ==
  \A x \in Range(lockq') :
    /\ x.op = "cancel_put" => x \in Range(lockq)
    /\ x.op \in LateOps \cup StartOps =>
         \E y \in Range(lockq) :
           /\ y.job = x.job
           /\ x.op \in LateOps => y.op \in LateOps
           /\ x.op \in StartOps => y.op \in StartOps

LEMMA LineGoes ==
  ASSUME TypeOK
  PROVE  /\ UNCHANGED lockq => LineGoesOn
         /\ lockq # <<>> /\ Leave => LineGoesOn
         /\ \A name \in JobOps \ (LateOps \cup StartOps \cup {"cancel_put"}),
               j \in Jobs :
              \/ Enqueue(name, j)
              \/ lockq # <<>> /\ Then(name, j)
              => LineGoesOn
         /\ \A name, next \in WorkerOps, j \in Jobs :
              /\ AtHead(name, j) /\ Then(next, j)
              /\ next \in LateOps => name \in LateOps
              /\ next \in StartOps => name \in StartOps
              => LineGoesOn
  <1>1. ASSUME Range(lockq') \subseteq Range(lockq) PROVE LineGoesOn
    BY <1>1 DEF LineGoesOn
  <1>2. ASSUME NEW name \in JobOps \ (LateOps \cup StartOps \cup {"cancel_put"}),
               NEW j \in Jobs, Range(lockq') \subseteq Range(lockq) \cup {Op(name, j)}
        PROVE  LineGoesOn
    BY <1>2, OpFields DEF LineGoesOn
  <1>3. ASSUME NEW name \in WorkerOps, NEW next \in WorkerOps, NEW j \in Jobs,
               AtHead(name, j), Then(next, j),
               next \in LateOps => name \in LateOps,
               next \in StartOps => name \in StartOps
        PROVE  LineGoesOn
    <2>1. Op(name, j) \in Range(lockq) /\ lockq # <<>>  BY <1>3, HeadWaits
    <2>2. Range(lockq') \subseteq Range(lockq) \cup {Op(next, j)}
      BY <1>3, <2>1, LineAfter
    <2>3. /\ Op(name, j).op = name /\ Op(name, j).job = j
          /\ Op(next, j).op = next /\ Op(next, j).job = j
      BY OpFields
    <2>4. next # "cancel_put"  OBVIOUS
    <2> QED BY <1>3, <2>1, <2>2, <2>3, <2>4 DEF LineGoesOn
  <1>4. ASSUME NEW name \in JobOps \ (LateOps \cup StartOps \cup {"cancel_put"}),
               NEW j \in Jobs, Enqueue(name, j) \/ (lockq # <<>> /\ Then(name, j))
        PROVE  LineGoesOn
    BY <1>2, <1>4, LineAfter
  <1> QED BY <1>1, <1>3, <1>4, LineAfter

LEMMA CancelsKept == Spec => []MarkInv
<1> USE DEF StartOps, LateOps, Outcomes
<1>1. Init => MarkInv
  BY EmptyQueue DEF Init, MarkInv, Cancelling, Emitted
<1>2. TypeOK /\ KnownInv /\ StrandInv /\ OnceInv /\ LifeInv /\ MarkInv
        /\ [Next]_vars => MarkInv'
  <2> SUFFICES ASSUME TypeOK, KnownInv, StrandInv, OnceInv, LifeInv, MarkInv,
                      [Next]_vars
               PROVE  MarkInv'
    OBVIOUS
  <2> USE DEF database, memory, history, control
  <2>0. /\ lockq \in Seq(Operations) /\ Range(lockq) \subseteq Operations
        /\ Range(orphan) \subseteq Operations /\ Range(fifo) \subseteq Jobs
        /\ lockq # <<>> => server = "up"
        /\ server = "up" => orphan = <<>>
    BY RangeOf DEF TypeOK, StrandInv, OnceInv
  \* While the process is up nothing is left in a thread.
  <2>1. ASSUME server = "up", UNCHANGED <<server, orphan>>,
               \A i \in Jobs \ cleared' :
                 /\ Cancelling(i)' => Marked(i)'
                 /\ acked'[i] = "early" => Open(i)'
        PROVE  MarkInv'
    BY <2>0, <2>1, EmptyQueue DEF MarkInv
  \* The worker goes on, and no job is newly cancelled.
  <2>2. ASSUME server = "up", UNCHANGED <<server, orphan, cleared, fifo, acked,
                                          cancelled>>,
               LineGoesOn, worker' = worker \/ worker'.pc # "running",
               \A i \in Jobs \ cleared :
                 /\ rows'[i] = "cancelled" \/ "cancelled" \in Emitted(i)'
                      => Cancelling(i)
                 /\ acked[i] = "early" /\ Open(i) => Open(i)'
        PROVE  MarkInv'
    <3>1. ASSUME NEW i \in Jobs \ cleared, Cancelling(i)'
          PROVE  Marked(i)'
      <4>1. Cancelling(i)
        <5>1. CASE Op("cancel_put", i) \in Range(lockq')
          <6>1. Op("cancel_put", i).op = "cancel_put"  BY OpFields
          <6> QED BY <2>2, <5>1, <6>1 DEF LineGoesOn, Cancelling
        <5> QED BY <2>2, <3>1, <5>1 DEF Cancelling
      <4>2. Marked(i)  BY <2>2, <4>1 DEF MarkInv
      <4>3. \A x \in Range(lockq') : x.job = i =>
              /\ x.op \notin LateOps
              /\ x.op \in StartOps => i \in cancelled
        <5>1. ASSUME NEW x \in Range(lockq'), x.job = i,
                     x.op \in LateOps \cup StartOps
              PROVE  x.op \notin LateOps /\ i \in cancelled
          <6>1. PICK y \in Range(lockq) :
                  /\ y.job = x.job
                  /\ x.op \in LateOps => y.op \in LateOps
                  /\ x.op \in StartOps => y.op \in StartOps
            BY <2>2, <5>1 DEF LineGoesOn
          <6> QED BY <4>2, <5>1, <6>1 DEF Marked
        <5> QED BY <5>1
      <4> QED BY <2>2, <4>2, <4>3 DEF Marked
    <3> QED BY <2>1, <2>2, <3>1 DEF MarkInv
  <2>3. ASSUME UNCHANGED <<rows, events>>, NEW i \in Jobs
        PROVE  /\ rows'[i] = "cancelled" \/ "cancelled" \in Emitted(i)'
                    => Cancelling(i)
               /\ Open(i) => Open(i)'
    BY <2>3 DEF Cancelling, Emitted, Open
  \* Neither a row nor an event changes.
  <2>4. ASSUME server = "up", UNCHANGED <<server, orphan, cleared, fifo, acked,
                                          cancelled, rows, events>>,
               LineGoesOn, worker' = worker \/ worker'.pc # "running"
        PROVE  MarkInv'
    BY <2>2, <2>3, <2>4
  <2>5. ASSUME NEW j \in Jobs, SubmitCall(j) \/ CancelCall(j) PROVE MarkInv'
    <3>1. PICK name \in {"submit_put", "cancel_get"} :
            /\ Enqueue(name, j) /\ server = "up"
            /\ UNCHANGED <<server, orphan, cleared, fifo, acked, cancelled,
                           rows, events, worker>>
      BY <2>5 DEF SubmitCall, CancelCall, CallAdmitted
    <3>2. LineGoesOn  BY <3>1, LineGoes
    <3> QED BY <2>4, <3>1, <3>2
  <2>6. CASE ClearCall
    <3>1. /\ Op("clear", NoJob) \in Operations /\ Op("clear", NoJob).op = "clear"
          /\ lockq' = Append(lockq, Op("clear", NoJob)) /\ server = "up"
          /\ UNCHANGED <<server, orphan, cleared, fifo, acked, cancelled,
                         rows, events, worker>>
      BY <2>6 DEF Op, Operations, ClearCall, Enqueue, CallAdmitted
    <3>2. Range(lockq') = Range(lockq) \cup {Op("clear", NoJob)}
      BY <2>0, <3>1, RangeAppend
    <3>3. LineGoesOn  BY <3>1, <3>2 DEF LineGoesOn
    <3> QED BY <2>4, <3>1, <3>3
  <2>7. ASSUME NEW j \in Jobs, SubmitServe(j) PROVE MarkInv'
    <3>1. /\ Op("submit_put", j) \in Range(lockq) /\ lockq # <<>>
          /\ Leave /\ fifo' = Append(fifo, j) /\ Emit(j, "queued")
          /\ UNCHANGED <<server, orphan, cleared, acked, cancelled, worker>>
      BY <2>7, HeadWaits DEF SubmitServe
    <3>2. events[j] = <<>> /\ server = "up" /\ acked[j] = "no"
      BY <2>0, <3>1, OpFields DEF OnceInv, LineOnce
    <3>3. /\ Emitted(j)' = {"queued"} /\ rows'[j] = "queued"
          /\ \A i \in Jobs : i # j => rows'[i] = rows[i] /\ events'[i] = events[i]
      <4>1. Emitted(j) = {}  BY <3>2, EmptyQueue DEF Emitted
      <4> QED BY <2>7, <4>1, EmitAdds DEF SubmitServe, Write, Writes, TypeOK
    <3>4. Range(lockq') \subseteq Range(lockq)  BY <3>1, LineAfter
    <3>5. ~Cancelling(j)'
      <4>1. Op("cancel_put", j) \notin Range(lockq)
        BY <3>2, OpFields DEF OnceInv, LineOnce
      <4> QED BY <3>1, <3>2, <3>3, <3>4, <4>1 DEF Cancelling
    <3>6. Range(fifo') = Range(fifo) \cup {j}
      BY <3>1, RangeAppend DEF TypeOK
    <3>7. ASSUME NEW i \in Jobs \ cleared, i # j, Cancelling(i)' PROVE Marked(i)'
      <4>1. Cancelling(i)
        BY <3>1, <3>3, <3>4, <3>7 DEF Cancelling, Emitted
      <4>2. Marked(i)  BY <3>2, <4>1 DEF MarkInv
      <4> QED BY <3>1, <3>4, <3>6, <3>7, <4>2 DEF Marked
    <3>8. \A i \in Jobs \ cleared : acked[i] = "early" => Open(i)'
      BY <3>2, <3>3 DEF MarkInv, Open, Emitted
    <3> QED BY <2>1, <3>1, <3>2, <3>5, <3>7, <3>8
  <2>8. ASSUME NEW j \in Jobs, CancelRefused(j) PROVE MarkInv'
    <3>1. LineGoesOn /\ lockq # <<>>
      BY <2>8, LineGoes DEF CancelRefused, AtHead
    <3> QED BY <2>0, <2>4, <2>8, <3>1 DEF CancelRefused
  \* The mark is set; no operation of PastCheck waits, if the cancel is in time.
  <2>9. ASSUME NEW j \in Jobs, CancelAccepted(j) PROVE MarkInv'
    <3>1. /\ lockq # <<>> /\ server = "up"
          /\ rows[j] \in {"queued", "running"}
          /\ cancelled' = cancelled \cup {j}
          /\ \A i \in Jobs : i # j => acked'[i] = acked[i]
          /\ acked'[j] = "early" => acked[j] = "early" \/ ~PastCheck(j)
          /\ \/ Leave
             \/ rows[j] = "queued" /\ Then("cancel_put", j)
          /\ UNCHANGED <<rows, events, fifo, worker, server, orphan, cleared>>
      <4>1. lockq # <<>>  BY <2>9 DEF CancelAccepted, AtHead
      <4> QED BY <2>0, <2>9, <4>1 DEF CancelAccepted, TypeOK
    <3>2. Range(lockq') \subseteq Range(lockq) \cup {Op("cancel_put", j)}
      BY <3>1, LineAfter
    <3>3. /\ Op("cancel_put", j).op = "cancel_put" /\ Op("cancel_put", j).job = j
      BY OpFields
    <3>4. ASSUME NEW i \in Jobs \ cleared, i # j, Cancelling(i)' PROVE Marked(i)'
      <4>1. Op("cancel_put", i) \in Range(lockq')
              => Op("cancel_put", i) \in Range(lockq)
        BY <3>2, <3>4 DEF Op
      <4>2. Cancelling(i)
        BY <3>1, <3>4, <4>1 DEF Cancelling, Emitted
      <4>3. Marked(i)  BY <3>1, <4>2 DEF MarkInv
      <4> QED BY <3>1, <3>2, <3>3, <3>4, <4>3 DEF Marked
    <3>5. ASSUME j \notin cleared, Cancelling(j)' PROVE Marked(j)'
      <4>1. ASSUME NEW x \in Range(lockq), x.job = j, x.op \in LateOps
            PROVE  FALSE
        <5>1. Started(j)  BY <4>1 DEF LifeInv, LineFit, Fit
        <5>2. rows[j] # "queued"
          BY <5>1 DEF LifeInv, Started, Emitted, Range
        <5>3. PastCheck(j)
          BY <4>1 DEF PastCheck, Range
        <5>4. Leave  BY <3>1, <5>2
        <5>5. Range(lockq') \subseteq Range(lockq)  BY <3>1, <5>4, LineAfter
        <5>6. Cancelling(j)
          BY <3>1, <3>5, <5>3, <5>5 DEF Cancelling, Emitted
        <5>7. Marked(j)  BY <3>1, <3>5, <5>6 DEF MarkInv
        <5> QED BY <4>1, <5>7 DEF Marked
      <4>2. \A x \in Range(lockq') : x.job = j => x.op \notin LateOps
        BY <3>2, <3>3, <4>1
      <4> QED BY <3>1, <4>2 DEF Marked
    <3>6. \A i \in Jobs \ cleared : acked'[i] = "early" => Open(i)'
      <4>1. Open(j)
        <5>1. CASE rows[j] = "queued"
          BY <5>1 DEF LifeInv, Open, Emitted, Range
        <5>2. CASE rows[j] = "running"
          BY <5>2 DEF LifeInv, Open
        <5> QED BY <3>1, <5>1, <5>2
      <4>2. \A i \in Jobs : Open(i) => Open(i)'
        BY <3>1 DEF Open, Emitted
      <4>3. \A i \in Jobs \ cleared : i # j /\ acked'[i] = "early" => Open(i)
        BY <3>1 DEF MarkInv
      <4> QED BY <4>1, <4>2, <4>3
    <3>7. ASSUME NEW i \in Jobs \ cleared, Cancelling(i)' PROVE Marked(i)'
      <4>1. CASE i = j
        <5>1. j \notin cleared /\ Cancelling(j)'  BY <3>7, <4>1
        <5>2. Marked(j)'  BY <3>5, <5>1
        <5> QED BY <4>1, <5>2
      <4> QED BY <3>4, <3>7, <4>1
    <3>8. UNCHANGED <<server, orphan>> /\ cleared' = cleared  BY <3>1
    <3> QED BY <2>1, <3>1, <3>6, <3>7, <3>8
  <2>10. ASSUME NEW j \in Jobs, CancelWrite(j) PROVE MarkInv'
    <3>1. /\ Op("cancel_put", j) \in Range(lockq) /\ lockq # <<>> /\ Leave
          /\ UNCHANGED <<server, orphan, cleared, fifo, acked, cancelled, worker>>
      BY <2>10, HeadWaits DEF CancelWrite
    <3>2. /\ Cancelling(j) /\ rows'[j] = "cancelled"
          /\ Emitted(j)' = Emitted(j) \cup {"cancelled"}
          /\ \A i \in Jobs : i # j => rows'[i] = rows[i] /\ events'[i] = events[i]
      BY <2>10, <3>1, EmitAdds DEF CancelWrite, Write, Writes, TypeOK, Cancelling
    <3>3. LineGoesOn  BY <3>1, LineGoes
    <3>4. ASSUME NEW i \in Jobs
          PROVE  /\ rows'[i] = "cancelled" \/ "cancelled" \in Emitted(i)'
                      => Cancelling(i)
                 /\ Open(i) => Open(i)'
      BY <3>2 DEF Cancelling, Emitted, Open
    <3> QED BY <2>0, <2>2, <3>1, <3>3, <3>4
  \* Every job that has a history was cleared.
  <2>11. CASE ClearServe
    <3>1. /\ lockq # <<>> /\ Leave /\ cleared' = Range(created)
          /\ rows' = [i \in Jobs |-> "absent"]
          /\ UNCHANGED <<server, orphan, events, acked>>
      BY <2>11 DEF ClearServe, AtHead
    <3>2. Range(lockq') \subseteq Range(lockq)  BY <3>1, LineAfter
    <3>3. ASSUME NEW i \in Jobs \ cleared'
          PROVE  ~Cancelling(i)' /\ acked'[i] # "early"
      <4>1. i \notin Known
        BY <3>1, <3>3, JobQueueAssumption DEF Known
      <4>2. events[i] = <<>> /\ acked[i] = "no"
        BY <4>1 DEF KnownInv, OnceInv
      <4>3. Op("cancel_put", i) \notin Range(lockq)
        <5>1. Op("cancel_put", i).job = i  BY OpFields
        <5> QED BY <4>1, <5>1 DEF KnownInv, Among, Range
      <4> QED BY <3>1, <3>2, <4>2, <4>3, EmptyQueue DEF Cancelling, Emitted
    <3> QED BY <2>0, <2>1, <3>1, <3>3
  \* The worker's next operation is of the same kind.
  <2>12. ASSUME NEW j \in Jobs, NEW name \in WorkerOps, NEW next \in WorkerOps,
                AtHead(name, j), Then(next, j),
                next \in LateOps => name \in LateOps,
                next \in StartOps => name \in StartOps,
                UNCHANGED <<server, orphan, cleared, fifo, acked, cancelled, rows,
                            events, worker>>
         PROVE  MarkInv'
    <3>1. LineGoesOn /\ lockq # <<>>  BY <2>12, LineGoes DEF AtHead
    <3> QED BY <2>0, <2>4, <2>12, <3>1
  <2>13. ASSUME NEW j \in Jobs, WorkerLoad(j) \/ MarkRead(j) PROVE MarkInv'
    <3>1. PICK name \in WorkerOps, next \in WorkerOps :
            /\ AtHead(name, j)
            /\ next \in StartOps => name \in StartOps
            /\ next \notin LateOps
            /\ UNCHANGED <<server, orphan, cleared, fifo, acked, cancelled, rows,
                           events>>
            /\ \/ Leave /\ worker' = Idle
               \/ Then(next, j) /\ worker' = worker
      BY <2>13 DEF WorkerLoad, MarkRead
    <3>2. CASE Leave /\ worker' = Idle
      <4>1. LineGoesOn /\ lockq # <<>>  BY <3>1, <3>2, LineGoes DEF AtHead
      <4> QED BY <2>0, <2>4, <3>1, <3>2, <4>1
    <3> QED BY <2>12, <3>1, <3>2
  \* A job that starts and is being cancelled carries the mark.
  <2>14. ASSUME NEW j \in Jobs, WorkerStart(j) PROVE MarkInv'
    <3>1. /\ worker.job = j /\ server = "up" /\ lockq # <<>>
          /\ Op("start_put", j) \in Range(lockq)
          /\ Op("start_put", j).op = "start_put" /\ Op("start_put", j).job = j
          /\ Leave
      BY <2>14, WorkerHead, OpFields DEF WorkerStart
    <3>2. Range(lockq') \subseteq Range(lockq)  BY <3>1, LineAfter
    <3>3. /\ rows'[j] = "running"
          /\ Emitted(j)' = Emitted(j) \cup {"started"}
          /\ \A i \in Jobs : i # j => rows'[i] = rows[i] /\ events'[i] = events[i]
          /\ worker'.job = j
          /\ UNCHANGED <<server, orphan, cleared, fifo, acked, cancelled>>
      BY <2>14, <3>1, EmitAdds DEF WorkerStart, Write, Writes, TypeOK
    <3>4. ASSUME NEW i \in Jobs \ cleared, Cancelling(i)' PROVE Marked(i)'
      <4>1. Cancelling(i)
        BY <3>2, <3>3, <3>4 DEF Cancelling, Emitted
      <4>2. Marked(i)  BY <3>1, <4>1 DEF MarkInv
      <4>3. i = j => i \in cancelled  BY <3>1, <4>2 DEF Marked
      <4> QED BY <3>2, <3>3, <4>2, <4>3 DEF Marked
    <3>5. \A i \in Jobs \ cleared : acked[i] = "early" => Open(i)'
      BY <3>3 DEF MarkInv, Open, Emitted
    <3> QED BY <2>1, <3>1, <3>3, <3>4, <3>5
  <2>15. ASSUME NEW j \in Jobs, StoreArtifact(j) PROVE MarkInv'
    BY <2>12, <2>15 DEF StoreArtifact
  \* An outcome is only of a job that nobody cancels.
  <2>16. ASSUME NEW j \in Jobs, NEW name \in LateOps, NEW kind \in Outcomes,
                AtHead(name, j), Leave, Emit(j, kind), worker' = Idle,
                UNCHANGED <<server, orphan, cleared, fifo, acked, cancelled>>,
                rows'[j] # "cancelled",
                \A i \in Jobs : i # j => rows'[i] = rows[i]
         PROVE  MarkInv'
    <3>1. /\ server = "up" /\ lockq # <<>> /\ Op(name, j) \in Range(lockq)
          /\ Op(name, j).op = name /\ Op(name, j).job = j
      BY <2>16, WorkerHead, OpFields
    <3>2. j \notin cleared => ~Cancelling(j)
      BY <2>16, <3>1 DEF MarkInv, Marked
    <3>3. /\ Emitted(j)' = Emitted(j) \cup {kind}
          /\ \A i \in Jobs : i # j => events'[i] = events[i]
      BY <2>16, EmitAdds DEF TypeOK
    <3>4. ASSUME NEW i \in Jobs \ cleared
          PROVE  /\ rows'[i] = "cancelled" \/ "cancelled" \in Emitted(i)'
                      => Cancelling(i)
                 /\ acked[i] = "early" /\ Open(i) => Open(i)'
      <4>1. CASE i = j
        BY <2>16, <3>2, <3>3, <4>1 DEF Cancelling
      <4>2. CASE i # j
        BY <2>16, <3>3, <4>2 DEF Cancelling, Emitted, Open
      <4> QED BY <4>1, <4>2
    <3>5. LineGoesOn  BY <2>16, <3>1, LineGoes
    <3> QED BY <2>2, <2>16, <3>1, <3>4, <3>5
  <2>17. ASSUME NEW j \in Jobs, FinalRead(j) \/ ErrorRead(j) PROVE MarkInv'
    <3>1. PICK name \in LateOps, next \in LateOps, kind \in Outcomes :
            /\ AtHead(name, j)
            /\ UNCHANGED <<rows, server, orphan, cleared, fifo, acked, cancelled>>
            /\ \/ /\ Leave /\ worker' = Idle /\ Emit(j, kind)
                  /\ rows[j] = "absent"
               \/ Then(next, j) /\ worker' = worker /\ UNCHANGED events
      BY <2>17 DEF FinalRead, ErrorRead, ReadToEnd
    <3>2. name \in WorkerOps /\ next \in WorkerOps /\ next \notin StartOps
      OBVIOUS
    <3>3. CASE Leave /\ worker' = Idle /\ Emit(j, kind) /\ rows[j] = "absent"
      BY <2>16, <3>1, <3>3
    <3>4. CASE Then(next, j) /\ worker' = worker /\ UNCHANGED events
      BY <2>12, <3>1, <3>2, <3>4
    <3> QED BY <3>1, <3>3, <3>4
  <2>18. ASSUME NEW j \in Jobs, FinalWrite(j) \/ ErrorWrite(j) PROVE MarkInv'
    <3>1. PICK name \in {"final_put", "error_put"}, kind \in Outcomes :
            EndWith(name, kind, j)
      BY <2>18 DEF FinalWrite, ErrorWrite
    <3>2. /\ AtHead(name, j) /\ Leave /\ Emit(j, kind) /\ worker' = Idle
          /\ UNCHANGED <<server, orphan, cleared, fifo, acked, cancelled>>
          /\ rows'[j] # "cancelled"
          /\ \A i \in Jobs : i # j => rows'[i] = rows[i]
      BY <3>1 DEF EndWith, Write, Writes, TypeOK
    <3> QED BY <2>16, <3>2
  \* The worker is done with the job it cancels.
  <2>19. ASSUME NEW j \in Jobs, MarkWrite(j) PROVE MarkInv'
    <3>1. /\ worker.job = j /\ server = "up" /\ lockq # <<>> /\ Leave
          /\ \A x \in Range(lockq') : x.op \notin WorkerOps
      BY <2>19, WorkerHead DEF MarkWrite, EndWith
    <3>2. /\ rows'[j] = "cancelled" /\ worker' = Idle
          /\ Emitted(j)' = Emitted(j) \cup {"cancelled"}
          /\ \A i \in Jobs : i # j => rows'[i] = rows[i] /\ events'[i] = events[i]
          /\ UNCHANGED <<server, orphan, cleared, fifo, acked, cancelled>>
      BY <2>19, EmitAdds DEF MarkWrite, EndWith, Write, Writes, TypeOK
    <3>3. Range(lockq') \subseteq Range(lockq)  BY <3>1, LineAfter
    <3>4. Marked(j)'
      <4>1. j \notin Range(fifo)  BY <3>1 DEF OnceInv
      <4> QED BY <3>1, <3>2, <4>1 DEF Marked
    <3>5. ASSUME NEW i \in Jobs \ cleared, i # j, Cancelling(i)' PROVE Marked(i)'
      <4>1. Cancelling(i)
        BY <3>2, <3>3, <3>5 DEF Cancelling, Emitted
      <4>2. Marked(i)  BY <3>1, <4>1 DEF MarkInv
      <4> QED BY <3>2, <3>3, <4>2 DEF Marked
    <3>6. \A i \in Jobs \ cleared : acked[i] = "early" => Open(i)'
      BY <3>2 DEF MarkInv, Open, Emitted
    <3> QED BY <2>1, <3>1, <3>2, <3>4, <3>5, <3>6
  \* A marked job goes to the marking; one that goes to its start is not being
  \* cancelled.
  <2>20. CASE WorkerTake
    <3>0. PICK h \in Jobs : h = Head(fifo)
      BY <2>20, TailElements DEF WorkerTake, TypeOK
    <3>1. /\ fifo # <<>> /\ fifo \in Seq(Jobs) /\ fifo' = Tail(fifo)
          /\ worker.pc = "idle" /\ server = "up"
          /\ worker'.pc = "busy" /\ cancelled' = cancelled \ {h}
          /\ UNCHANGED <<rows, events, server, orphan, cleared, acked>>
          /\ \/ h \in cancelled /\ Enqueue("marked_get", h)
             \/ h \notin cancelled /\ Enqueue("start_get", h)
      BY <2>20, <3>0 DEF WorkerTake, TypeOK
    <3>2. /\ h \in Range(fifo) /\ Range(fifo') \subseteq Range(fifo)
          /\ h \notin Range(fifo')
      BY <3>0, <3>1, RangeTail, UniqueTail DEF OnceInv
    <3>3. \A x \in Range(lockq) : x.op \notin WorkerOps
      BY <3>1 DEF StrandInv, OneWorkerOp, Range
    <3>4. PICK name \in {"marked_get", "start_get"} :
            /\ Range(lockq') = Range(lockq) \cup {Op(name, h)}
            /\ Op(name, h).op = name /\ Op(name, h).job = h
            /\ name = "start_get" => h \notin cancelled
      BY <3>1, LineAfter, OpFields
    <3>5. ASSUME NEW i \in Jobs \ cleared, Cancelling(i)' PROVE Marked(i)'
      <4>1. Cancelling(i)
        <5>1. Op("cancel_put", i) # Op(name, h)  BY <3>4, OpFields
        <5> QED BY <3>1, <3>4, <3>5, <5>1 DEF Cancelling, Emitted
      <4>2. Marked(i)  BY <3>1, <4>1 DEF MarkInv
      <4>3. CASE i = h
        <5>1. name = "marked_get"  BY <3>2, <3>4, <4>2, <4>3 DEF Marked
        <5>2. \A x \in Range(lockq') : x.op \notin LateOps \cup StartOps
          BY <3>3, <3>4, <5>1
        <5> QED BY <3>1, <3>2, <4>3, <5>2 DEF Marked
      <4>4. CASE i # h
        BY <3>1, <3>2, <3>4, <4>2, <4>4 DEF Marked
      <4> QED BY <4>3, <4>4
    <3>6. \A i \in Jobs \ cleared : acked[i] = "early" => Open(i)'
      BY <3>1 DEF MarkInv, Open, Emitted
    <3> QED BY <2>1, <3>1, <3>5, <3>6
  \* The worker looks at the mark when the runner is over.
  <2>21. ASSUME NEW j \in Jobs, NEW next \in WorkerOps \ StartOps,
                AfterRunner(j, next),
                next \in LateOps => j \notin cancelled
         PROVE  MarkInv'
    <3>1. /\ worker.pc = "running" /\ worker.job = j /\ worker'.pc = "busy"
          /\ server = "up"
          /\ Enqueue(next, j)
          /\ \A i \in Jobs : i # j /\ i \in cancelled => i \in cancelled'
          /\ UNCHANGED <<rows, events, fifo, server, orphan, cleared, acked>>
      BY <2>21 DEF AfterRunner, TypeOK, StrandInv
    <3>2. \A x \in Range(lockq) : x.op \notin WorkerOps
      BY <3>1 DEF StrandInv, OneWorkerOp, Range
    <3>3. /\ Range(lockq') = Range(lockq) \cup {Op(next, j)}
          /\ Op(next, j).op = next /\ Op(next, j).job = j
      BY <3>1, LineAfter, OpFields
    <3>4. ASSUME NEW i \in Jobs \ cleared, Cancelling(i)' PROVE Marked(i)'
      <4>1. Cancelling(i)
        <5>1. Op("cancel_put", i) # Op(next, j)  BY <3>3, OpFields
        <5> QED BY <3>1, <3>3, <3>4, <5>1 DEF Cancelling, Emitted
      <4>2. Marked(i)  BY <3>1, <4>1 DEF MarkInv
      <4>3. CASE i = j
        <5>1. next \notin LateOps  BY <2>21, <3>1, <4>2, <4>3 DEF Marked
        <5>2. \A x \in Range(lockq') : x.op \notin LateOps \cup StartOps
          BY <3>2, <3>3, <5>1
        <5>3. j \notin Range(fifo)  BY <3>1 DEF OnceInv
        <5> QED BY <3>1, <4>3, <5>2, <5>3 DEF Marked
      <4>4. CASE i # j
        BY <3>1, <3>3, <4>2, <4>4 DEF Marked
      <4> QED BY <4>3, <4>4
    <3>5. \A i \in Jobs \ cleared : acked[i] = "early" => Open(i)'
      BY <3>1 DEF MarkInv, Open, Emitted
    <3> QED BY <2>1, <3>1, <3>4, <3>5
  <2>22. CASE RunnerEnds
    BY <2>21, <2>22 DEF RunnerEnds, RunnerReturns, RunnerRaises, RunnerCancelled
  <2>23. CASE BackendFault
    <3>1. /\ lockq # <<>> /\ Leave /\ LineGoesOn
          /\ UNCHANGED <<server, orphan, cleared, fifo, acked, cancelled, rows,
                         events>>
          /\ worker' = worker \/ worker'.pc # "running"
      BY <2>23, LineGoes DEF BackendFault, TypeOK
    <3> QED BY <2>0, <2>4, <3>1
  <2>24. ASSUME NEW j \in Jobs, RunnerAborts(j) PROVE MarkInv'
    <3>1. /\ UNCHANGED <<server, orphan, cleared, fifo, acked, cancelled, rows,
                         events, lockq>>
          /\ worker'.pc # "running" /\ worker.pc = "running"
      BY <2>24 DEF RunnerAborts, TypeOK
    <3>2. server = "up"  BY <3>1 DEF StrandInv
    <3> QED BY <2>4, <3>1, <3>2, LineGoes
  <2>25. ASSUME server' # "up", UNCHANGED <<events, acked, cleared>>,
                \A i \in Jobs \ cleared : acked[i] = "early" /\ Open(i) => Open(i)',
                \/ Range(orphan') = {}
                \/ /\ Range(orphan') = Range(orphan)
                   /\ \A i \in Jobs \ cleared : Cancelling(i)' => Cancelling(i)
         PROVE  MarkInv'
    BY <2>25 DEF MarkInv
  <2>26. CASE Crash \/ ShutdownAborts \/ ShutdownEnd
    <3>1. /\ UNCHANGED <<rows, events, acked, cleared>> /\ server' # "up"
          /\ Range(orphan') = {}
      BY <2>26, EmptyQueue
      DEF Crash, ShutdownAborts, ShutdownEnd, ForgetMemory
    <3> QED BY <2>3, <2>25, <3>1
  <2>27. CASE ShutdownBegin
    <3>1. /\ UNCHANGED <<rows, events, acked, cleared>> /\ server' # "up"
          /\ orphan' = lockq /\ server = "up"
      BY <2>27 DEF ShutdownBegin
    <3>2. ASSUME NEW i \in Jobs \ cleared, acked[i] = "early" PROVE Open(i)'
      BY <2>3, <3>1, <3>2 DEF MarkInv
    <3>3. ASSUME NEW i \in Jobs \ cleared, Cancelling(i)'
          PROVE  \A x \in Range(orphan') : x.job = i => x.op \notin LateOps
      <4>1. lockq' = <<>>  BY <2>27 DEF ShutdownBegin
      <4>2. Cancelling(i)
        BY <3>1, <3>3, <4>1, EmptyQueue DEF Cancelling, Emitted
      <4> QED BY <3>1, <4>2 DEF MarkInv, Marked
    <3> QED BY <3>1, <3>2, <3>3 DEF MarkInv
  \* The write left in its thread is not the outcome of a job being cancelled.
  <2>28. CASE OrphanLands
    <3> DEFINE o == Head(orphan)
    <3>1. o \in Range(orphan) /\ o \in Operations
      BY <2>0, <2>28, RangeTail DEF OrphanLands, TypeOK
    <3>2. /\ \A i \in Jobs : i # o.job => rows'[i] = rows[i]
          /\ o.job \in Jobs =>
               \/ o.op \in LateOps
               \/ rows'[o.job] \in {rows[o.job], "queued", "running", "cancelled"}
          /\ UNCHANGED <<events, acked, cleared, server>>
          /\ server # "up" /\ Range(orphan') = {}
      BY <2>28, <3>1, EmptyQueue DEF OrphanLands, Writes, TypeOK
    <3> HIDE DEF o
    <3>3. ASSUME NEW i \in Jobs \ cleared, acked[i] = "early", Open(i)
          PROVE  Open(i)'
      BY <3>1, <3>2, <3>3 DEF MarkInv, Cancelling, Open, Emitted
    <3> QED BY <2>25, <3>2, <3>3
  <2>29. CASE ShutdownPage
    <3>1. UNCHANGED <<rows, events, acked, cleared, server, orphan, lockq>>
          /\ server # "up"
      BY <2>29 DEF ShutdownPage
    <3>2. \A i \in Jobs : Cancelling(i)' => Cancelling(i)
      BY <3>1 DEF Cancelling, Emitted
    <3> QED BY <2>3, <2>25, <3>1, <3>2
  \* A queued row is marked: no result of its job is left in a thread.
  <2>30. ASSUME NEW j \in Jobs, ShutdownMark(j) PROVE MarkInv'
    <3>1. /\ UNCHANGED <<events, acked, cleared, server, orphan, lockq>>
          /\ server # "up" /\ j \in paging.todo
          /\ rows' = [rows EXCEPT ![j] = "cancelled"]
      BY <2>30 DEF ShutdownMark
    <3>2. \A i \in Jobs : Open(i) => Open(i)'
      BY <3>1 DEF Open, Emitted, TypeOK
    <3>3. \A i \in Jobs : Cancelling(i)' => i = j \/ Cancelling(i)
      BY <3>1 DEF Cancelling, Emitted, TypeOK
    <3>4. ~Started(j)
      <4>1. events[j] = <<"queued">>  BY <3>1 DEF LifeInv
      <4> QED BY <4>1 DEF Started, Emitted, Range
    <3>5. \A x \in Range(orphan) : x.job = j => x.op \notin LateOps
      BY <3>4 DEF LifeInv, Fit
    <3> QED BY <3>1, <3>2, <3>3, <3>5 DEF MarkInv
  \* A new process holds no job.
  <2>31. CASE Restart
    <3>1. /\ UNCHANGED <<rows, events, acked, cleared, orphan>>
          /\ lockq' = <<>> /\ fifo' = <<>> /\ worker'.pc = "idle"
      BY <2>31 DEF Restart, StrandInv, OnceInv
    <3>2. \A i \in Jobs : Marked(i)'  BY <3>1, EmptyQueue DEF Marked
    <3>3. Range(orphan') = {}  BY <2>31, <3>1, EmptyQueue DEF Restart, OnceInv
    <3> QED BY <2>3, <3>1, <3>2, <3>3 DEF MarkInv
  <2>32. CASE UNCHANGED vars
    <3>1. UNCHANGED <<rows, events, acked, cleared, server, orphan, fifo, cancelled,
                      lockq, worker>>
      BY <2>32 DEF vars
    <3>2. CASE server = "up"  BY <2>4, <3>1, <3>2, LineGoes
    <3>3. CASE server # "up"
      <4>1. \A i \in Jobs : Cancelling(i)' => Cancelling(i)
        BY <3>1 DEF Cancelling, Emitted
      <4> QED BY <2>3, <2>25, <3>1, <3>3, <4>1
    <3> QED BY <3>2, <3>3
  <2> QED
    BY <2>5, <2>6, <2>7, <2>8, <2>9, <2>10, <2>11, <2>13, <2>14, <2>15, <2>17,
       <2>18, <2>19, <2>20, <2>22, <2>23, <2>24, <2>26, <2>27, <2>28, <2>29,
       <2>30, <2>31, <2>32
    DEF Next, ClientCall, Serve, Failure, StopStart
<1> QED
  BY <1>1, <1>2, TypeCorrect, OnlyKnown, StrandInvHolds, SubmittedOnce,
     JobsInPlace, PTL
  DEF Spec

-----------------------------------------------------------------------------
(* The payload of a job.                                                   *)

\* A job that waits has its payload, and the worker took it with the job,
\* unless a clear dropped it.
PayInv ==
  /\ \A j \in Range(fifo) : j \in payloads \cup cleared
  /\ worker.job \in Jobs => worker.payload = "held" \/ worker.job \in cleared

LEMMA PayloadTaken == Spec => []PayInv
<1>1. Init => PayInv
  BY EmptyQueue, JobQueueAssumption DEF Init, PayInv
<1>2. TypeOK /\ KnownInv /\ OnceInv /\ PayInv /\ [Next]_vars => PayInv'
  <2> SUFFICES ASSUME TypeOK, KnownInv, OnceInv, PayInv, [Next]_vars
               PROVE  PayInv'
    OBVIOUS
  <2> USE DEF database, memory, history, control
  <2>0. NoJob \notin Jobs  BY JobQueueAssumption
  <2>1. ASSUME UNCHANGED <<fifo, payloads, cleared>>,
               \/ worker'.job = worker.job /\ worker'.payload = worker.payload
               \/ worker'.job = NoJob
        PROVE  PayInv'
    BY <2>0, <2>1 DEF PayInv
  <2>2. CASE ClientCall
    BY <2>1, <2>2 DEF ClientCall, SubmitCall, CancelCall, ClearCall
  <2>3. ASSUME NEW j \in Jobs, SubmitServe(j) PROVE PayInv'
    <3>1. Range(fifo') = Range(fifo) \cup {j}
      BY <2>3, RangeAppend DEF SubmitServe, TypeOK
    <3> QED BY <2>3, <3>1 DEF SubmitServe, PayInv
  <2>4. CASE ClearServe
    <3>1. \A i \in Jobs : i \in Known => i \in cleared'
      BY <2>0, <2>4 DEF ClearServe, Known
    <3>2. Range(fifo) \subseteq Known \cap Jobs
      BY RangeOf DEF KnownInv, TypeOK
    <3>3. worker.job \in Known  BY DEF KnownInv
    <3> QED BY <2>4, <3>1, <3>2, <3>3 DEF ClearServe, PayInv
  \* The payload of another job stays: each waits once.
  <2>5. CASE WorkerTake
    <3>0. PICK h \in Jobs : h = Head(fifo)
      BY <2>5, TailElements DEF WorkerTake, TypeOK
    <3>1. /\ fifo # <<>> /\ fifo \in Seq(Jobs) /\ fifo' = Tail(fifo)
          /\ payloads' = payloads \ {h} /\ UNCHANGED cleared
          /\ worker'.job = h
          /\ worker'.payload = IF h \in payloads THEN "held" ELSE "none"
      BY <2>5, <3>0 DEF WorkerTake, TypeOK
    <3>2. /\ h \in Range(fifo) /\ Range(fifo') \subseteq Range(fifo)
          /\ h \notin Range(fifo')
      BY <3>0, <3>1, RangeTail, UniqueTail DEF OnceInv
    <3> QED BY <3>1, <3>2 DEF PayInv
  <2>6. ASSUME NEW j \in Jobs,
               \/ CancelRefused(j) \/ CancelAccepted(j) \/ CancelWrite(j)
               \/ WorkerLoad(j) \/ WorkerStart(j) \/ StoreArtifact(j)
               \/ MarkRead(j) \/ FinalRead(j) \/ ErrorRead(j)
        PROVE  PayInv'
    BY <2>1, <2>6
    DEF CancelRefused, CancelAccepted, CancelWrite, WorkerLoad, WorkerStart,
        StoreArtifact, MarkRead, FinalRead, ErrorRead, ReadToEnd, TypeOK
  <2>7. ASSUME NEW j \in Jobs, FinalWrite(j) \/ MarkWrite(j) \/ ErrorWrite(j)
        PROVE  PayInv'
    BY <2>1, <2>7 DEF FinalWrite, MarkWrite, ErrorWrite, EndWith
  <2>8. CASE RunnerEnds
    BY <2>1, <2>8
    DEF RunnerEnds, RunnerReturns, RunnerRaises, RunnerCancelled, AfterRunner,
        TypeOK
  <2>9. CASE Failure
    BY <2>1, <2>9 DEF Failure, BackendFault, RunnerAborts, TypeOK
  <2>10. CASE Crash \/ ShutdownAborts \/ ShutdownEnd
    BY <2>0, <2>10, EmptyQueue
    DEF Crash, ShutdownAborts, ShutdownEnd, ForgetMemory, PayInv
  <2>11. CASE ShutdownBegin \/ Restart
    BY <2>1, <2>11 DEF ShutdownBegin, Restart
  <2>12. CASE OrphanLands \/ ShutdownPage \/ \E j \in Jobs : ShutdownMark(j)
    BY <2>1, <2>12 DEF OrphanLands, ShutdownPage, ShutdownMark
  <2>13. CASE UNCHANGED vars
    BY <2>1, <2>13 DEF vars
  <2> QED
    BY <2>2, <2>3, <2>4, <2>5, <2>6, <2>7, <2>8, <2>9, <2>10, <2>11, <2>12,
       <2>13
    DEF Next, Serve, StopStart
<1> QED BY <1>1, <1>2, TypeCorrect, OnlyKnown, SubmittedOnce, PTL DEF Spec

\* The runner is called without its payload only for a job whose payload a
\* clear dropped: no order of submissions, cancels and failures makes the
\* worker take a job whose payload it popped before.
THEOREM PayloadAtRunner == Spec => []RunsWithPayload
<1>1. TypeOK /\ LifeInv /\ PayInv => RunsWithPayload
  BY DEF LifeInv, WorkerFit, PayInv, RunsWithPayload, TypeOK
<1> QED BY <1>1, TypeCorrect, JobsInPlace, PayloadTaken, PTL

-----------------------------------------------------------------------------
(* What follows from the three invariants.                                 *)

\* A cancel acknowledged before the worker's last look at the cancel mark
\* wins: whatever is in flight then, the job ends neither complete nor in
\* error, and no such event is emitted.
THEOREM EarlyCancels == Spec => []EarlyCancelWins
<1>1. MarkInv => EarlyCancelWins
  BY DEF MarkInv, EarlyCancelWins, Open, Outcomes
<1> QED BY <1>1, CancelsKept, PTL

\* The row of an operation at the head has no outcome, if a worker or a cancel
\* that waited is to write it.
LEMMA HeadOpen ==
  ASSUME TypeOK, LifeInv, NEW j \in Jobs,
         NEW name \in WorkerOps \cup {"cancel_put"}, AtHead(name, j)
  PROVE  /\ Open(j)
         /\ name \in StartOps => ~Started(j)
         /\ name \in LateOps => Started(j)
  <1>1. Op(name, j) \in Range(lockq)  BY HeadWaits
  <1>2. Op(name, j).op = name /\ Op(name, j).job = j  BY OpFields
  <1> QED BY <1>1, <1>2 DEF LifeInv, LineFit, Fit

\* The rows that a step writes: one row, of a job without an outcome, or every
\* row when they are cleared.
LEMMA RowsWritten ==
  ASSUME TypeOK, OnceInv, LifeInv, [Next]_vars
  PROVE  \/ UNCHANGED rows
         \/ rows' = [j \in Jobs |-> "absent"]
         \/ \E j \in Jobs : /\ Open(j)
                            /\ \A i \in Jobs : i # j => rows'[i] = rows[i]
  <1> USE DEF database, memory, history, control
  <1>1. ASSUME NEW j \in Jobs, SubmitServe(j)
        PROVE  /\ Open(j)
               /\ \A i \in Jobs : i # j => rows'[i] = rows[i]
    <2>1. Op("submit_put", j) \in Range(lockq)
      BY <1>1, HeadWaits DEF SubmitServe
    <2>2. events[j] = <<>> /\ rows[j] = "absent"
      BY <2>1, OpFields DEF OnceInv, LineOnce
    <2>3. Open(j)  BY <2>2, EmptyQueue DEF Open, Emitted
    <2> QED BY <1>1, <2>3 DEF SubmitServe, Write, TypeOK
  <1>2. ASSUME NEW j \in Jobs, NEW name \in WorkerOps \cup {"cancel_put"},
               AtHead(name, j), Write(name, j)
        PROVE  /\ Open(j)
               /\ \A i \in Jobs : i # j => rows'[i] = rows[i]
    BY <1>2, HeadOpen DEF Write, TypeOK
  <1>3. ASSUME NEW j \in Jobs,
               \/ CancelWrite(j) \/ WorkerStart(j)
               \/ FinalWrite(j) \/ ErrorWrite(j) \/ MarkWrite(j)
        PROVE  /\ Open(j)
               /\ \A i \in Jobs : i # j => rows'[i] = rows[i]
    <2>1. PICK name \in WorkerOps \cup {"cancel_put"} :
            AtHead(name, j) /\ Write(name, j)
      BY <1>3
      DEF CancelWrite, WorkerStart, FinalWrite, ErrorWrite, MarkWrite, EndWith
    <2> QED BY <1>2, <2>1
  <1>4. ASSUME NEW j \in Jobs,
               \/ CancelRefused(j) \/ CancelAccepted(j) \/ WorkerLoad(j)
               \/ StoreArtifact(j) \/ MarkRead(j) \/ FinalRead(j) \/ ErrorRead(j)
        PROVE  UNCHANGED rows
    BY <1>4
    DEF CancelRefused, CancelAccepted, WorkerLoad, StoreArtifact, MarkRead,
        FinalRead, ErrorRead, ReadToEnd
  <1>5. CASE Serve
    BY <1>1, <1>3, <1>4, <1>5 DEF Serve, ClearServe
  <1>6. CASE ClientCall \/ WorkerTake \/ RunnerEnds \/ Failure \/ UNCHANGED vars
    BY <1>6
    DEF ClientCall, SubmitCall, CancelCall, ClearCall, WorkerTake, RunnerEnds,
        RunnerReturns, RunnerRaises, RunnerCancelled, AfterRunner, Failure,
        BackendFault, RunnerAborts, vars
  <1>7. CASE OrphanLands
    <2>1. Head(orphan) \in Range(orphan) /\ Range(orphan) \subseteq Operations
      BY <1>7, RangeTail, RangeOf DEF OrphanLands, TypeOK
    <2>2. /\ Head(orphan).op \in WorkerOps /\ Head(orphan).job \in Jobs
          /\ Open(Head(orphan).job)
      BY <2>1 DEF OnceInv, LifeInv, Fit, Operations, Op
    <2>3. \A i \in Jobs : i # Head(orphan).job => rows'[i] = rows[i]
      BY <1>7 DEF OrphanLands, TypeOK
    <2> QED BY <2>2, <2>3
  <1>8. ASSUME NEW j \in Jobs, ShutdownMark(j)
        PROVE  /\ Open(j)
               /\ \A i \in Jobs : i # j => rows'[i] = rows[i]
    BY <1>8 DEF ShutdownMark, LifeInv, TypeOK
  <1>9. CASE StopStart
    BY <1>7, <1>8, <1>9
    DEF StopStart, Crash, ShutdownBegin, ShutdownAborts, ShutdownPage,
        ShutdownEnd, Restart
  <1> QED BY <1>5, <1>6, <1>9 DEF Next

\* A row that says "complete" or "error" is never rewritten from a snapshot
\* that was read before it: only a clear removes it.
THEOREM FinishedStays == Spec => FinishedRowIsFinal
<1> DEFINE Keeps == \A j \in Jobs : rows[j] \in {"complete", "error"}
                      => rows'[j] \in {rows[j], "absent"}
<1>1. TypeOK /\ OnceInv /\ LifeInv /\ [Next]_vars => [Keeps]_vars
  <2> SUFFICES ASSUME TypeOK, OnceInv, LifeInv, [Next]_vars PROVE Keeps
    OBVIOUS
  <2> QED BY RowsWritten DEF Open
<1>2. Spec => [][Keeps]_vars
  BY <1>1, TypeCorrect, SubmittedOnce, JobsInPlace, PTL DEF Spec
<1> QED BY <1>2 DEF FinishedRowIsFinal

\* A cancelled row is overwritten only by the start of its job that was on its
\* way, and the worker will then find the cancel mark; when the process stops,
\* by a start left in its thread, never by a result left there.
THEOREM CancelOutlivesStart == Spec => CancelSurvivesStart
<1> DEFINE Survives ==
      \A j \in Jobs \ cleared :
        rows[j] = "cancelled" /\ rows'[j] \notin {"cancelled", "absent"}
          => /\ rows'[j] = "running"
             /\ \/ server = "up" /\ worker.job = j /\ j \in cancelled
                \/ /\ server = "stopping" /\ orphan # <<>>
                   /\ Head(orphan) = Op("start_put", j)
<1>1. TypeOK /\ StrandInv /\ OnceInv /\ LifeInv /\ MarkInv /\ [Next]_vars
        => [Survives]_vars
  <2> SUFFICES ASSUME TypeOK, StrandInv, OnceInv, LifeInv, MarkInv, [Next]_vars,
                      NEW j \in Jobs \ cleared,
                      rows[j] = "cancelled", rows'[j] \notin {"cancelled", "absent"}
               PROVE  /\ rows'[j] = "running"
                      /\ \/ server = "up" /\ worker.job = j /\ j \in cancelled
                         \/ /\ server = "stopping" /\ orphan # <<>>
                            /\ Head(orphan) = Op("start_put", j)
    OBVIOUS
  <2> USE DEF database, memory, history, control
  <2>1. Cancelling(j)  BY DEF Cancelling
  <2>2. ASSUME NEW i \in Jobs, NEW name \in JobOps,
               AtHead(name, i), Write(name, i)
        PROVE  j = i /\ server = "up" /\ Marked(j) /\ name \notin LateOps
    <3>1. j = i  BY <2>2 DEF Write, TypeOK
    <3>2. Op(name, i) \in Range(lockq) /\ Op(name, i).op = name
          /\ Op(name, i).job = i /\ lockq # <<>>
      BY <2>2, HeadWaits, OpFields DEF AtHead
    <3>3. server = "up"  BY <3>2 DEF StrandInv
    <3>4. Marked(j)  BY <2>1, <3>3 DEF MarkInv
    <3> QED BY <3>1, <3>2, <3>3, <3>4 DEF Marked
  <2>3. ASSUME NEW i \in Jobs, SubmitServe(i) PROVE FALSE
    <3>1. Op("submit_put", i) \in Range(lockq)
      BY <2>3, HeadWaits DEF SubmitServe
    <3>2. rows[i] = "absent"  BY <3>1, OpFields DEF OnceInv, LineOnce
    <3> QED BY <2>2, <2>3, <3>2 DEF SubmitServe
  <2>4. ASSUME NEW i \in Jobs, CancelWrite(i) \/ MarkWrite(i) PROVE FALSE
    BY <2>4 DEF CancelWrite, MarkWrite, EndWith, Write, Writes, TypeOK
  <2>5. ASSUME NEW i \in Jobs, FinalWrite(i) \/ ErrorWrite(i) PROVE FALSE
    BY <2>2, <2>5 DEF FinalWrite, ErrorWrite, EndWith, LateOps
  <2>6. ASSUME NEW i \in Jobs, WorkerStart(i)
        PROVE  /\ rows'[j] = "running"
               /\ server = "up" /\ worker.job = j /\ j \in cancelled
    <3>1. /\ AtHead("start_put", i) /\ i = j /\ Write("start_put", i)
          /\ worker.job = j /\ server = "up" /\ Marked(j)
      BY <2>2, <2>6, WorkerHead DEF WorkerStart
    <3>2. Op("start_put", j) \in Range(lockq)  BY <3>1, HeadWaits
    <3>3. j \in cancelled
      BY <3>1, <3>2, OpFields DEF Marked, StartOps
    <3> QED BY <3>1, <3>3 DEF Write, Writes, TypeOK
  <2>7. ASSUME NEW i \in Jobs,
               \/ CancelRefused(i) \/ CancelAccepted(i) \/ WorkerLoad(i)
               \/ StoreArtifact(i) \/ MarkRead(i) \/ FinalRead(i) \/ ErrorRead(i)
        PROVE  FALSE
    BY <2>7
    DEF CancelRefused, CancelAccepted, WorkerLoad, StoreArtifact, MarkRead,
        FinalRead, ErrorRead, ReadToEnd
  <2>8. CASE Serve
    BY <2>3, <2>4, <2>5, <2>6, <2>7, <2>8 DEF Serve, ClearServe
  <2>9. ASSUME UNCHANGED rows PROVE FALSE
    BY <2>9
  <2>10. CASE ClientCall \/ WorkerTake \/ RunnerEnds \/ Failure \/ UNCHANGED vars
    BY <2>9, <2>10
    DEF ClientCall, SubmitCall, CancelCall, ClearCall, WorkerTake, RunnerEnds,
        RunnerReturns, RunnerRaises, RunnerCancelled, AfterRunner, Failure,
        BackendFault, RunnerAborts, vars
  \* What was left in its thread is the worker's, and no result of the job.
  <2>11. CASE OrphanLands
    <3> DEFINE o == Head(orphan)
    <3>1. /\ orphan # <<>> /\ o \in Range(orphan) /\ o \in Operations
          /\ server = "stopping"
      BY <2>11, RangeTail, RangeOf DEF OrphanLands, TypeOK
    <3>2. o.op \in WorkerOps  BY <3>1 DEF OnceInv
    <3>3. /\ o.op \in DOMAIN Writes /\ o.job = j
          /\ rows'[j] = Writes[o.op]
      BY <2>11, <3>1 DEF OrphanLands, TypeOK
    <3>4. o.op \notin LateOps  BY <2>1, <3>1, <3>3 DEF MarkInv
    <3>5. o.op = "start_put"
      BY <3>2, <3>3, <3>4 DEF Writes, LateOps
    <3>6. o = Op("start_put", j)
      BY <3>1, <3>2, <3>3, <3>5 DEF Operations, Op
    <3> QED BY <3>1, <3>3, <3>5, <3>6 DEF Writes
  <2>12. CASE StopStart
    BY <2>9, <2>11, <2>12
    DEF StopStart, Crash, ShutdownBegin, ShutdownAborts, ShutdownPage,
        ShutdownEnd, Restart, ShutdownMark, TypeOK
  <2> QED BY <2>8, <2>10, <2>12 DEF Next
<1>2. Spec => [][Survives]_vars
  BY <1>1, TypeCorrect, StrandInvHolds, SubmittedOnce, JobsInPlace, CancelsKept,
     PTL
  DEF Spec
<1> QED BY <1>2 DEF CancelSurvivesStart

-----------------------------------------------------------------------------
(* The queue implements JobLifecycle.                                      *)

\* What was cleared had been submitted, and an id is submitted once.
CreatedInv ==
  /\ \A i, k \in DOMAIN created : created[i] = created[k] => i = k
  /\ cleared \subseteq Range(created)

LEMMA DrawnOnce == Spec => []CreatedInv
<1>1. Init => CreatedInv
  BY EmptySeq DEF Init, CreatedInv
<1>2. TypeOK /\ CreatedInv /\ [Next]_vars => CreatedInv'
  <2> SUFFICES ASSUME TypeOK, CreatedInv, [Next]_vars PROVE CreatedInv'
    OBVIOUS
  <2> USE DEF database, memory, history, control
  <2>1. ASSUME NEW j \in Jobs, SubmitCall(j) PROVE CreatedInv'
    <3>1. /\ \A i \in 1 .. 1 + Len(created) :
               created'[i] = IF i <= 1 THEN j ELSE created[i - 1]
          /\ Range(created') = Range(created) \cup {j}
          /\ DOMAIN created' = 1 .. 1 + Len(created)
      BY <2>1, NewestFirst, LenProperties
    <3>2. /\ DOMAIN created = 1 .. Len(created) /\ Len(created) \in Nat
          /\ \A i \in DOMAIN created : created[i] # j
      BY <2>1, LenProperties DEF SubmitCall, TypeOK, Range
    <3>3. \A i \in DOMAIN created' :
            IF i = 1 THEN created'[i] = j
            ELSE created'[i] = created[i - 1] /\ i - 1 \in DOMAIN created
      BY <3>1, <3>2
    <3>4. ASSUME NEW i \in DOMAIN created', NEW k \in DOMAIN created',
                 created'[i] = created'[k]
          PROVE  i = k
      <4>1. i = 1 <=> k = 1  BY <3>2, <3>3, <3>4
      <4>2. CASE i # 1
        <5>1. i - 1 = k - 1  BY <3>3, <3>4, <4>1, <4>2 DEF CreatedInv
        <5> QED BY <3>1, <5>1
      <4> QED BY <4>1, <4>2
    <3> QED BY <2>1, <3>1, <3>4 DEF SubmitCall, CreatedInv
  <2>2. ASSUME UNCHANGED created, cleared' \in {cleared, Range(created)}
        PROVE  CreatedInv'
    BY <2>2 DEF CreatedInv
  <2>3. CASE ClientCall
    BY <2>1, <2>2, <2>3 DEF ClientCall, CancelCall, ClearCall
  <2>4. CASE Serve
    BY <2>2, <2>4
    DEF Serve, SubmitServe, CancelRefused, CancelAccepted, CancelWrite,
        WorkerLoad, WorkerStart, StoreArtifact, FinalRead, FinalWrite, MarkRead,
        MarkWrite, ErrorRead, ErrorWrite, ReadToEnd, EndWith, ClearServe
  <2>5. CASE WorkerTake \/ RunnerEnds \/ Failure \/ UNCHANGED vars
    BY <2>2, <2>5
    DEF WorkerTake, RunnerEnds, RunnerReturns, RunnerRaises, RunnerCancelled,
        AfterRunner, Failure, BackendFault, RunnerAborts, vars
  <2>6. CASE StopStart
    BY <2>2, <2>6
    DEF StopStart, Crash, ShutdownBegin, ShutdownAborts, OrphanLands,
        ShutdownPage, ShutdownMark, ShutdownEnd, Restart
  <2> QED BY <2>3, <2>4, <2>5, <2>6 DEF Next
<1> QED BY <1>1, <1>2, TypeCorrect, PTL DEF Spec

\* What the three invariants say of a job whose operation is at the head is
\* what MayFollow asks of the event that its caller then emits.
LEMMA EventMayFollow ==
  ASSUME TypeOK, StrandInv, OnceInv, LifeInv, MarkInv, NEW j \in Jobs
  PROVE  /\ AtHead("submit_put", j)
              => Lifecycle!MayFollow(events[j], "queued", j \in cleared)
         /\ AtHead("cancel_put", j) \/ AtHead("marked_put", j)
              => Lifecycle!MayFollow(events[j], "cancelled", j \in cleared)
         /\ AtHead("start_put", j)
              => Lifecycle!MayFollow(events[j], "started", j \in cleared)
         /\ \A name \in LateOps, kind \in Outcomes :
              AtHead(name, j)
                => Lifecycle!MayFollow(events[j], kind, j \in cleared)
  <1> USE DEF Outcomes, Lifecycle!Results
  <1>0. Lifecycle!Range(events[j]) = Range(events[j])
    BY DEF Lifecycle!Range, Range
  <1>1. AtHead("submit_put", j) => events[j] = <<>>
    BY HeadWaits, OpFields DEF OnceInv, LineOnce
  <1>2. ASSUME NEW name \in WorkerOps \cup {"cancel_put"}, AtHead(name, j)
        PROVE  /\ events[j] # <<>>
               /\ Range(events[j]) \cap Lifecycle!Results = {}
               /\ name \in StartOps => "started" \notin Range(events[j])
               /\ name \in LateOps => "started" \in Range(events[j])
    <2>1. Op(name, j) \in Range(lockq)  BY <1>2, HeadWaits
    <2>2. events[j] # <<>>  BY <2>1, OpFields DEF OnceInv, LineOnce
    <2> QED BY <1>2, <2>2, HeadOpen DEF Open, Started, Emitted
  <1>3. ASSUME NEW name \in LateOps, AtHead(name, j), j \notin cleared
        PROVE  "cancelled" \notin Range(events[j])
    <2>1. server = "up" /\ Op(name, j) \in Range(lockq)
      BY <1>3, WorkerHead DEF LateOps
    <2>2. Op(name, j).op = name /\ Op(name, j).job = j
      BY OpFields DEF LateOps
    <2> QED BY <1>3, <2>1, <2>2 DEF MarkInv, Marked, Cancelling, Emitted
  <1>4. AtHead("submit_put", j)
          => Lifecycle!MayFollow(events[j], "queued", j \in cleared)
    BY <1>1, EmptyQueue DEF Lifecycle!MayFollow
  <1>5. AtHead("cancel_put", j) \/ AtHead("marked_put", j)
          => Lifecycle!MayFollow(events[j], "cancelled", j \in cleared)
    BY <1>0, <1>2 DEF Lifecycle!MayFollow
  <1>6. AtHead("start_put", j)
          => Lifecycle!MayFollow(events[j], "started", j \in cleared)
    BY <1>0, <1>2 DEF Lifecycle!MayFollow, StartOps
  <1>7. ASSUME NEW name \in LateOps, NEW kind \in Outcomes, AtHead(name, j)
        PROVE  Lifecycle!MayFollow(events[j], kind, j \in cleared)
    BY <1>0, <1>2, <1>3, <1>7 DEF Lifecycle!MayFollow, LateOps
  <1> QED BY <1>4, <1>5, <1>6, <1>7

\* The queue implements JobLifecycle: whatever the order of cancels, clears,
\* failures, shutdowns and restarts, each step of the queue emits one event that
\* may follow the job's history, erases jobs, or leaves both alone.
THEOREM QueueRefines == Spec => ImplementsLifecycle
<1>1. Init => Lifecycle!Init
  BY DEF Init, Lifecycle!Init
<1>2. /\ TypeOK /\ StrandInv /\ OnceInv /\ LifeInv /\ MarkInv /\ CreatedInv
      /\ [Next]_vars
      => [Lifecycle!Next]_(Lifecycle!vars)
  <2> SUFFICES ASSUME TypeOK, StrandInv, OnceInv, LifeInv, MarkInv, CreatedInv,
                      [Next]_vars
               PROVE  Lifecycle!Next \/ UNCHANGED <<events, cleared>>
    BY DEF Lifecycle!vars
  <2> USE DEF database, memory, history, control
  <2>1. ASSUME NEW j \in Jobs, NEW kind \in Kinds, Emit(j, kind),
               UNCHANGED cleared,
               Lifecycle!MayFollow(events[j], kind, j \in cleared)
        PROVE  Lifecycle!Next
    <3>1. Lifecycle!Emit(j, kind)  BY <2>1 DEF Lifecycle!Emit, Emit
    <3> QED BY <3>1 DEF Lifecycle!Next, Lifecycle!Kinds
  <2>2. ASSUME NEW j \in Jobs, SubmitServe(j) PROVE Lifecycle!Next
    BY <2>1, <2>2, EventMayFollow DEF SubmitServe
  <2>3. ASSUME NEW j \in Jobs, CancelWrite(j) \/ MarkWrite(j)
        PROVE  Lifecycle!Next
    BY <2>1, <2>3, EventMayFollow DEF CancelWrite, MarkWrite, EndWith
  <2>4. ASSUME NEW j \in Jobs, WorkerStart(j) PROVE Lifecycle!Next
    BY <2>1, <2>4, EventMayFollow DEF WorkerStart
  <2>5. ASSUME NEW j \in Jobs,
               FinalRead(j) \/ ErrorRead(j) \/ FinalWrite(j) \/ ErrorWrite(j)
        PROVE  Lifecycle!Next \/ UNCHANGED <<events, cleared>>
    <3>1. PICK name \in LateOps, kind \in Outcomes :
            /\ AtHead(name, j)
            /\ UNCHANGED cleared
            /\ Emit(j, kind) \/ UNCHANGED events
      BY <2>5
      DEF FinalRead, ErrorRead, FinalWrite, ErrorWrite, ReadToEnd, EndWith,
          LateOps, Outcomes
    <3>2. kind \in Kinds  BY DEF Outcomes
    <3> QED BY <2>1, <3>1, <3>2, EventMayFollow
  <2>6. CASE ClearServe
    <3>1. cleared \subseteq cleared' /\ cleared' \subseteq Jobs
      BY <2>6, RangeOf DEF ClearServe, CreatedInv, TypeOK
    <3>2. Lifecycle!Erase  BY <2>6, <3>1 DEF ClearServe, Lifecycle!Erase
    <3> QED BY <3>2 DEF Lifecycle!Next
  <2>7. CASE Serve
    BY <2>2, <2>3, <2>4, <2>5, <2>6, <2>7
    DEF Serve, CancelRefused, CancelAccepted, WorkerLoad, StoreArtifact, MarkRead
  <2>8. CASE ClientCall \/ WorkerTake \/ RunnerEnds \/ Failure \/ UNCHANGED vars
    BY <2>8
    DEF ClientCall, SubmitCall, CancelCall, ClearCall, WorkerTake, RunnerEnds,
        RunnerReturns, RunnerRaises, RunnerCancelled, AfterRunner, Failure,
        BackendFault, RunnerAborts, vars
  <2>9. CASE StopStart
    BY <2>9
    DEF StopStart, Crash, ShutdownBegin, ShutdownAborts, OrphanLands,
        ShutdownPage, ShutdownMark, ShutdownEnd, Restart
  <2> QED BY <2>7, <2>8, <2>9 DEF Next
<1> QED
  BY <1>1, <1>2, TypeCorrect, StrandInvHolds, SubmittedOnce, JobsInPlace,
     CancelsKept, DrawnOnce, PTL
  DEF Spec, ImplementsLifecycle, Lifecycle!Spec

-----------------------------------------------------------------------------
(* What JobLifecycle promises, and with it the queue.                      *)

\* A history to which MayFollow lets another event be added holds no result.
LEMMA NoResultYet ==
  ASSUME NEW h \in Seq(Lifecycle!Kinds), NEW kind, NEW forgotten,
         Lifecycle!MayFollow(h, kind, forgotten), NEW m \in DOMAIN h
  PROVE  h[m] \notin Lifecycle!Results
  <1>1. h # <<>>  BY EmptySeq
  <1> QED BY <1>1 DEF Lifecycle!MayFollow, Lifecycle!Range

\* Event histories are sequences of the kinds of events, under the guards of
\* JobLifecycle alone.
THEOREM LifecycleType == Lifecycle!Spec => []Lifecycle!TypeOK
<1>1. Lifecycle!Init => Lifecycle!TypeOK
  BY EmptySeq DEF Lifecycle!Init, Lifecycle!TypeOK
<1>2. Lifecycle!TypeOK /\ [Lifecycle!Next]_(Lifecycle!vars)
        => Lifecycle!TypeOK'
  <2> SUFFICES ASSUME Lifecycle!TypeOK, [Lifecycle!Next]_(Lifecycle!vars)
               PROVE  Lifecycle!TypeOK'
    OBVIOUS
  <2>1. ASSUME NEW j \in Jobs, NEW kind \in Lifecycle!Kinds,
               Lifecycle!Emit(j, kind)
        PROVE  Lifecycle!TypeOK'
    <3>1. Append(events[j], kind) \in Seq(Lifecycle!Kinds)
      BY AppendElements DEF Lifecycle!TypeOK
    <3> QED BY <2>1, <3>1 DEF Lifecycle!TypeOK, Lifecycle!Emit
  <2>2. CASE Lifecycle!Erase
    BY <2>2 DEF Lifecycle!TypeOK, Lifecycle!Erase
  <2>3. CASE UNCHANGED Lifecycle!vars
    BY <2>3 DEF Lifecycle!TypeOK, Lifecycle!vars
  <2> QED BY <2>1, <2>2, <2>3 DEF Lifecycle!Next
<1> QED BY <1>1, <1>2, PTL DEF Lifecycle!Spec

\* A job reports one result at most, and none next to a cancellation unless
\* DELETE /api/jobs made the queue forget it: what MayFollow allows of each
\* event adds up to this, whatever the order of the events.
THEOREM LifecycleOutcome == Lifecycle!Spec => []Lifecycle!OneOutcome
<1>1. Lifecycle!Init => Lifecycle!OneOutcome
  BY EmptySeq DEF Lifecycle!Init, Lifecycle!OneOutcome
<1>2. /\ Lifecycle!TypeOK /\ Lifecycle!OneOutcome
      /\ [Lifecycle!Next]_(Lifecycle!vars)
      => Lifecycle!OneOutcome'
  <2> SUFFICES ASSUME Lifecycle!TypeOK, Lifecycle!OneOutcome,
                      [Lifecycle!Next]_(Lifecycle!vars)
               PROVE  Lifecycle!OneOutcome'
    OBVIOUS
  <2>1. ASSUME NEW j \in Jobs, NEW kind \in Lifecycle!Kinds,
               Lifecycle!Emit(j, kind)
        PROVE  Lifecycle!OneOutcome'
    <3> DEFINE h == events[j]
    <3>1. h \in Seq(Lifecycle!Kinds)  BY DEF Lifecycle!TypeOK
    <3>2. \A m \in DOMAIN Append(h, kind) :
            \/ m \in DOMAIN h /\ Append(h, kind)[m] = h[m]
            \/ m = Len(h) + 1 /\ Append(h, kind)[m] = kind
      BY <3>1, AppendProperties, LenProperties
    <3>3. \A m \in DOMAIN h : h[m] \notin Lifecycle!Results
      BY <2>1, <3>1, NoResultYet DEF Lifecycle!Emit
    <3>4. kind \in Lifecycle!Results /\ j \notin cleared =>
            \A m \in DOMAIN h : h[m] # "cancelled"
      BY <2>1 DEF Lifecycle!Emit, Lifecycle!MayFollow, Lifecycle!Range
    <3>5. kind \in Lifecycle!Results => kind # "cancelled"
      BY DEF Lifecycle!Results
    <3>6. /\ events' = [events EXCEPT ![j] = Append(h, kind)]
          /\ cleared' = cleared
      BY <2>1 DEF Lifecycle!Emit
    <3>7. events'[j] = Append(h, kind)
          /\ \A i \in Jobs : i # j => events'[i] = events[i]
      BY <3>6 DEF Lifecycle!TypeOK
    <3> HIDE DEF h
    <3>8. ASSUME NEW m \in DOMAIN Append(h, kind),
                 NEW n \in DOMAIN Append(h, kind),
                 Append(h, kind)[m] \in Lifecycle!Results
          PROVE  /\ Append(h, kind)[n] \in Lifecycle!Results => m = n
                 /\ Append(h, kind)[n] = "cancelled" => j \in cleared
      BY <3>2, <3>3, <3>4, <3>5, <3>8
    <3> QED BY <3>6, <3>7, <3>8 DEF Lifecycle!OneOutcome
  <2>2. CASE Lifecycle!Erase
    BY <2>2 DEF Lifecycle!OneOutcome, Lifecycle!Erase
  <2>3. CASE UNCHANGED Lifecycle!vars
    BY <2>3 DEF Lifecycle!OneOutcome, Lifecycle!vars
  <2> QED BY <2>1, <2>2, <2>3 DEF Lifecycle!Next
<1> QED BY <1>1, <1>2, LifecycleType, PTL DEF Lifecycle!Spec

\* So the queue never tells its listeners two outcomes of a job, nor an outcome
\* beside a cancellation that no clear made it forget.
THEOREM QueueOutcome == Spec => []Lifecycle!OneOutcome
  BY QueueRefines, LifecycleOutcome, PTL DEF ImplementsLifecycle

-----------------------------------------------------------------------------
(* The walk of shutdown.                                                   *)

\* A row that comes later has more rows ahead of it.
LEMMA AheadGrows ==
  ASSUME TypeOK, NEW i \in Listed, NEW k \in Listed, i < k
  PROVE  Ahead(i) < Ahead(k)
  <1> DEFINE before(n) == {m \in Listed : m < n}
  <1>1. /\ i \in Nat /\ k \in Nat /\ Listed \subseteq Nat
        /\ IsFiniteSet(before(k))
    BY AheadType, FS_Subset
  <1>2. before(i) \subseteq before(k) /\ i \in before(k) /\ i \notin before(i)
    <2>1. ASSUME NEW m \in before(i) PROVE m \in before(k)
      <3>1. m \in Nat /\ m < i  BY <1>1
      <3> QED BY <1>1, <3>1
    <2>2. i \in before(k) /\ i \notin before(i)  BY <1>1
    <2> QED BY <2>1, <2>2
  <1>3. Cardinality(before(i)) <= Cardinality(before(k))
        /\ Cardinality(before(i)) # Cardinality(before(k))
    BY <1>1, <1>2, FS_Subset
  <1>4. Ahead(i) \in Nat /\ Ahead(k) \in Nat  BY AheadType DEF Listed
  <1> QED BY <1>3, <1>4 DEF Ahead

LEMMA AheadDistinct ==
  ASSUME TypeOK, NEW i \in Listed, NEW k \in Listed, Ahead(i) = Ahead(k)
  PROVE  i = k
  <1>1. Listed \subseteq Nat /\ Ahead(i) \in Nat
    BY AheadType DEF Listed
  <1> QED BY <1>1, AheadGrows

\* A page holds PageSize rows at most.
LEMMA PageFits ==
  ASSUME TypeOK, NEW offset \in Nat
  PROVE  Cardinality(PageFrom(offset)) <= PageSize
  <1> DEFINE f == [i \in PageFrom(offset) |-> Ahead(i) - offset]
  <1>1. f \in Injection(PageFrom(offset), 0 .. PageSize - 1)
    <2>1. \A i \in PageFrom(offset) :
            Ahead(i) - offset \in 0 .. PageSize - 1 /\ Ahead(i) \in Nat
      BY AheadType DEF PageFrom, Listed
    <2>2. ASSUME NEW i \in PageFrom(offset), NEW k \in PageFrom(offset),
                 f[i] = f[k]
          PROVE  i = k
      <3>1. Ahead(i) = Ahead(k)  BY <2>1, <2>2
      <3> QED BY <3>1, AheadDistinct DEF PageFrom
    <2> QED BY <2>1, <2>2 DEF Injection, IsInjective
  <1>2. /\ IsFiniteSet(0 .. PageSize - 1)
        /\ Cardinality(0 .. PageSize - 1) = PageSize
    BY FS_Interval, JobQueueAssumption
  <1> QED BY <1>1, <1>2, FS_Injection

\* A page is not empty while a row is left: no number is skipped when the rows
\* are counted.
LEMMA PageThere ==
  ASSUME TypeOK, NEW offset \in Nat, NEW i \in Listed, Ahead(i) >= offset
  PROVE  PageFrom(offset) # {}
  <1> DEFINE n == Cardinality(Listed)
             f == [k \in Listed |-> Ahead(k)]
  <1>1. IsFiniteSet(Listed) /\ n \in Nat /\ \A k \in Listed : Ahead(k) \in Nat
    BY AheadType, FS_CardinalityType DEF Listed
  <1>2. ASSUME NEW k \in Listed PROVE Ahead(k) < n
    <2> DEFINE before == {m \in Listed : m < k}
    <2>1. k \in Nat  BY AheadType
    <2>2. before \subseteq Listed /\ k \notin before  BY <2>1
    <2>3. Cardinality(before) <= n /\ Cardinality(before) # n
      BY <1>1, <1>2, <2>2, FS_Subset
    <2> QED BY <1>1, <2>3 DEF Ahead
  <1> HIDE DEF n
  <1>3. f \in Injection(Listed, 0 .. n - 1)
    BY <1>1, <1>2, AheadDistinct DEF Injection, IsInjective
  <1>4. IsFiniteSet(0 .. n - 1) /\ Cardinality(0 .. n - 1) = n
    <2>1. n \in Nat /\ n - 1 \in Int  BY <1>1
    <2> QED BY <2>1, FS_Interval
  <1>5. f \in Surjection(Listed, 0 .. n - 1)
    BY <1>3, <1>4, FS_Injection DEF n
  <1>6. offset \in 0 .. n - 1  BY <1>1, <1>2
  <1>7. PICK k \in Listed : Ahead(k) = offset
    BY <1>5, <1>6 DEF Surjection
  <1>8. Ahead(k) - offset \in 0 .. PageSize - 1
    BY <1>7, JobQueueAssumption
  <1> QED BY <1>8 DEF PageFrom

\* ShutdownLeavesNoQueued is not inductive: a row that still waits is on the
\* page being marked, or further on in the listing than the walk has come.
WalkInv ==
  /\ server # "stopping" => paging.offset = 0
  /\ server = "stopping" => \A j \in paging.todo : rows[j] # "absent"
  /\ server = "stopping" =>
       \A i \in Listed : rows[created[i]] = "queued" =>
         created[i] \in paging.todo \/ Ahead(i) >= paging.offset
  /\ ShutdownLeavesNoQueued

\* A step that leaves the listing as long as it was: every row keeps its place
\* or has more rows ahead of it.
LEMMA AheadStays ==
  ASSUME TypeOK, TypeOK', UNCHANGED created, Listed \subseteq Listed',
         NEW i \in Listed
  PROVE  Ahead(i)' >= Ahead(i)
  <1> DEFINE before == {m \in Listed : m < i}
             after == {m \in Listed' : m < i}
  <1>1. IsFiniteSet(Listed') /\ i \in DOMAIN created /\ i \in DOMAIN created'
    <2>1. IsFiniteSet(DOMAIN created')
      BY FS_Interval, LenProperties DEF TypeOK
    <2> QED BY <2>1, FS_Subset DEF Listed
  <1>2. IsFiniteSet(after) /\ before \subseteq after
    BY <1>1, FS_Subset
  <1>3. Cardinality(before) <= Cardinality(after)
        /\ Cardinality(after) \in Nat /\ Cardinality(before) \in Nat
    BY <1>2, FS_Subset, FS_CardinalityType
  <1>4. Ahead(i)' = Cardinality(after)  BY DEF Ahead
  <1> QED BY <1>3, <1>4 DEF Ahead

LEMMA WalkCovers == Spec => []WalkInv
<1>1. Init => WalkInv
  BY DEF Init, WalkInv, ShutdownLeavesNoQueued
<1>2. TypeOK /\ KnownInv /\ OnceInv /\ StrandInv /\ TypeOK' /\ WalkInv
        /\ [Next]_vars
        => WalkInv'
  <2> SUFFICES ASSUME TypeOK, KnownInv, OnceInv, StrandInv, TypeOK', WalkInv,
                      [Next]_vars
               PROVE  WalkInv'
    OBVIOUS
  <2> USE DEF database, memory, history, control
  \* While the process is up there is no walk.
  <2>1. ASSUME server # "stopping", server' \notin {"stopping", "stopped"},
               UNCHANGED paging
        PROVE  WalkInv'
    BY <2>1 DEF WalkInv, ShutdownLeavesNoQueued
  <2>2. CASE ClientCall \/ WorkerTake
    <3>1. server = "up" /\ UNCHANGED <<server, paging>>
      BY <2>2
      DEF ClientCall, SubmitCall, CancelCall, ClearCall, CallAdmitted, WorkerTake
    <3> QED BY <2>1, <3>1
  <2>3. CASE Serve
    <3>1. lockq # <<>> /\ UNCHANGED <<server, paging>>
      BY <2>3
      DEF Serve, SubmitServe, CancelRefused, CancelAccepted, CancelWrite,
          WorkerLoad, WorkerStart, StoreArtifact, FinalRead, FinalWrite,
          MarkRead, MarkWrite, ErrorRead, ErrorWrite, ReadToEnd, EndWith,
          ClearServe, AtHead
    <3> QED BY <2>1, <3>1 DEF StrandInv
  <2>4. CASE RunnerEnds \/ Failure
    <3>1. (lockq # <<>> \/ worker.pc = "running") /\ UNCHANGED <<server, paging>>
      BY <2>4
      DEF RunnerEnds, RunnerReturns, RunnerRaises, RunnerCancelled, AfterRunner,
          Failure, BackendFault, RunnerAborts
    <3> QED BY <2>1, <3>1 DEF StrandInv
  <2>5. CASE Crash \/ ShutdownAborts
    BY <2>5
    DEF Crash, ShutdownAborts, ForgetMemory, WalkInv, ShutdownLeavesNoQueued
  \* The walk begins at the first row.
  <2>6. CASE ShutdownBegin
    <3>1. /\ server = "up" /\ server' = "stopping"
          /\ UNCHANGED <<rows, created, paging>> /\ paging.offset = 0
          /\ paging.todo = {}
      BY <2>6 DEF ShutdownBegin, WalkInv, OnceInv
    <3>2. ASSUME NEW i \in Listed' PROVE Ahead(i)' >= paging'.offset
      <4>1. i \in DOMAIN created /\ Listed' = Listed  BY <3>1, <3>2 DEF Listed
      <4>2. Ahead(i)' = Ahead(i)  BY <4>1 DEF Ahead
      <4>3. Ahead(i) \in Nat  BY <4>1, AheadType
      <4> QED BY <3>1, <4>2, <4>3
    <3> QED BY <3>1, <3>2 DEF WalkInv, ShutdownLeavesNoQueued
  \* A row that was cleared may come back, but it does not wait.
  <2>7. CASE OrphanLands
    <3>1. /\ server = "stopping" /\ UNCHANGED <<created, server, paging>>
          /\ \A j \in Jobs : rows'[j] = "queued" => rows[j] = "queued"
          /\ \A j \in Jobs : rows[j] # "absent" => rows'[j] # "absent"
      <4>1. Head(orphan).op \in WorkerOps /\ Head(orphan).job \in Jobs
        <5>1. Head(orphan) \in Range(orphan) /\ Range(orphan) \subseteq Operations
          BY <2>7, RangeTail, RangeOf DEF OrphanLands, TypeOK
        <5> QED BY <5>1 DEF OnceInv, Operations, Op
      <4> QED BY <2>7, <4>1 DEF OrphanLands, Writes, TypeOK
    <3>2. Listed \subseteq Listed'  BY <3>1 DEF Listed, TypeOK
    <3>3. ASSUME NEW i \in Listed', rows'[created'[i]] = "queued"
          PROVE  created'[i] \in paging'.todo \/ Ahead(i)' >= paging'.offset
      <4>1. i \in DOMAIN created /\ created[i] \in Jobs
        BY <3>1, <3>3 DEF Listed, TypeOK
      <4>2. i \in Listed /\ rows[created[i]] = "queued"
        BY <3>1, <3>3, <4>1 DEF Listed
      <4>3. created[i] \in paging.todo \/ Ahead(i) >= paging.offset
        BY <3>1, <4>2 DEF WalkInv
      <4>4. Ahead(i)' >= Ahead(i)  BY <3>1, <3>2, <4>2, AheadStays
      <4>5. Ahead(i) \in Nat /\ Ahead(i)' \in Nat /\ paging.offset \in Nat
        <5>1. Ahead(i) \in Nat /\ paging.offset \in Nat
          BY <4>1, AheadType DEF TypeOK
        <5>2. Ahead(i)' \in Nat
          <6>1. i \in DOMAIN created'  BY <3>3 DEF Listed
          <6>2. IsFiniteSet(DOMAIN created')
            BY FS_Interval, LenProperties DEF TypeOK
          <6>3. IsFiniteSet({m \in Listed' : m < i})
            BY <6>2, FS_Subset DEF Listed
          <6> QED BY <6>3, FS_CardinalityType DEF Ahead
        <5> QED BY <5>1, <5>2
      <4> QED BY <3>1, <4>3, <4>4, <4>5
    <3>4. \A j \in paging'.todo : rows'[j] # "absent"
      BY <3>1 DEF WalkInv, TypeOK
    <3> QED BY <3>1, <3>3, <3>4 DEF WalkInv, ShutdownLeavesNoQueued
  \* The rows that wait are on the page that is read, or behind it.
  <2>8. CASE ShutdownPage
    <3> DEFINE page == PageFrom(paging.offset)
    <3>1. /\ server = "stopping" /\ paging.todo = {}
          /\ paging'.offset = paging.offset + Cardinality(page)
          /\ paging'.todo = {j \in Jobs : rows[j] = "queued"
                               /\ \E i \in page : created[i] = j}
          /\ UNCHANGED <<rows, created, server>>
      BY <2>8 DEF ShutdownPage
    <3>2. /\ paging.offset \in Nat /\ Cardinality(page) \in Nat
          /\ Cardinality(page) <= PageSize /\ PageSize \in Nat
      BY PageFromFinite, PageFits, JobQueueAssumption DEF TypeOK
    <3>3. ASSUME NEW i \in Listed', rows'[created'[i]] = "queued"
          PROVE  created'[i] \in paging'.todo \/ Ahead(i)' >= paging'.offset
      <4>1. /\ Listed' = Listed /\ i \in Listed /\ rows[created[i]] = "queued"
            /\ i \in DOMAIN created /\ created[i] \in Jobs
        BY <3>1, <3>3 DEF Listed, TypeOK
      <4>2. Ahead(i)' = Ahead(i)  BY <4>1 DEF Ahead
      <4>3. Ahead(i) >= paging.offset /\ Ahead(i) \in Nat
        BY <3>1, <4>1, AheadType DEF WalkInv
      <4>4. CASE i \in page
        <5>1. created[i] \in paging'.todo  BY <3>1, <4>1, <4>4
        <5> QED BY <3>1, <5>1
      <4>5. CASE i \notin page
        <5>1. ~(Ahead(i) - paging.offset \in 0 .. PageSize - 1)
          BY <4>1, <4>5 DEF PageFrom
        <5> HIDE DEF page
        <5>2. Ahead(i) >= paging.offset + Cardinality(page)
          BY <3>2, <4>3, <5>1
        <5> QED BY <3>1, <4>2, <5>2
      <4> QED BY <4>4, <4>5
    <3> QED BY <3>1, <3>3 DEF WalkInv, ShutdownLeavesNoQueued
  <2>9. ASSUME NEW j \in Jobs, ShutdownMark(j) PROVE WalkInv'
    <3>1. /\ server = "stopping" /\ UNCHANGED <<created, server>>
          /\ rows'[j] = "cancelled" /\ \A i \in Jobs : i # j => rows'[i] = rows[i]
          /\ paging'.offset = paging.offset /\ paging'.todo = paging.todo \ {j}
          /\ rows[j] # "absent"
      BY <2>9 DEF ShutdownMark, TypeOK, WalkInv
    <3>2. Listed' = Listed  BY <3>1 DEF Listed, TypeOK
    <3>3. ASSUME NEW i \in Listed', rows'[created'[i]] = "queued"
          PROVE  created'[i] \in paging'.todo \/ Ahead(i)' >= paging'.offset
      <4>0. i \in Listed /\ i \in DOMAIN created /\ created' = created
        BY <3>1, <3>2, <3>3 DEF Listed
      <4>1. created[i] \in Jobs /\ created[i] # j /\ rows[created[i]] = "queued"
        <5>1. created[i] \in Jobs  BY <4>0 DEF TypeOK
        <5>2. rows'[created[i]] = "queued"  BY <3>3, <4>0
        <5>3. created[i] # j  BY <3>1, <5>2
        <5> QED BY <3>1, <5>1, <5>2, <5>3
      <4>2. Ahead(i)' = Ahead(i)  BY <3>2 DEF Ahead
      <4> QED BY <3>1, <4>0, <4>1, <4>2 DEF WalkInv
    <3>4. \A i \in paging'.todo : rows'[i] # "absent"
      BY <3>1 DEF WalkInv, TypeOK
    <3> QED BY <3>1, <3>3, <3>4 DEF WalkInv, ShutdownLeavesNoQueued
  \* An empty page: no row is left behind the walk.
  <2>10. CASE ShutdownEnd
    <3>1. /\ server = "stopping" /\ paging.todo = {} /\ server' = "stopped"
          /\ PageFrom(paging.offset) = {} /\ UNCHANGED rows
          /\ paging'.offset = 0
      BY <2>10 DEF ShutdownEnd, ForgetMemory
    <3>2. ASSUME NEW j \in Jobs, rows[j] = "queued" PROVE FALSE
      <4>1. j \in Range(created)
        BY <3>2, JobQueueAssumption DEF KnownInv, Known
      <4>2. PICK i \in DOMAIN created : created[i] = j  BY <4>1 DEF Range
      <4>3. i \in Listed  BY <3>2, <4>2 DEF Listed
      <4>4. Ahead(i) >= paging.offset
        BY <3>1, <3>2, <4>2, <4>3 DEF WalkInv
      <4> QED BY <3>1, <4>3, <4>4, PageThere DEF TypeOK
    <3> QED BY <3>1, <3>2 DEF WalkInv, ShutdownLeavesNoQueued
  <2>11. CASE Restart
    <3>1. /\ server # "stopping" /\ server' = "up" /\ UNCHANGED paging
      BY <2>11 DEF Restart
    <3> QED BY <2>11, <3>1 DEF WalkInv, ShutdownLeavesNoQueued
  <2>12. CASE UNCHANGED vars
    <3>1. UNCHANGED <<rows, created, server, paging>>  BY <2>12 DEF vars
    <3>2. Listed' = Listed  BY <3>1 DEF Listed
    <3>3. \A i \in Listed : Ahead(i)' = Ahead(i)  BY <3>2 DEF Ahead
    <3> QED BY <3>1, <3>2, <3>3 DEF WalkInv, ShutdownLeavesNoQueued
  <2> QED
    BY <2>2, <2>3, <2>4, <2>5, <2>6, <2>7, <2>8, <2>9, <2>10, <2>11, <2>12
    DEF Next, StopStart
<1> QED
  BY <1>1, <1>2, TypeCorrect, OnlyKnown, SubmittedOnce, StrandInvHolds, PTL
  DEF Spec

\* When an orderly shutdown has ended no row waits for a worker: the walk of
\* the listing, a page at a time while rows are marked and a late write lands,
\* misses none.
THEOREM ShutdownSweeps == Spec => []ShutdownLeavesNoQueued
<1>1. WalkInv => ShutdownLeavesNoQueued  BY DEF WalkInv
<1> QED BY <1>1, WalkCovers, PTL

=============================================================================
