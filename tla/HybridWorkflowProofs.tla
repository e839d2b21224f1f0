------------------------ MODULE HybridWorkflowProofs ------------------------
(***************************************************************************)
(* Theorems about HybridWorkflow, for any number of pages, boxes and       *)
(* permits, any settings, layouts and readings.                            *)
(***************************************************************************)
EXTENDS HybridEngine, AlignmentProofs, FiniteSetTheorems, SequenceTheorems,
        WellFoundedInduction, TLAPS

\* The states of a task that is not there or has ended.
Idle == {"none", "ok", "fail", "told", "gone"}

CallsBounded == IsFiniteSet(InFlight) /\ Cardinality(InFlight) <= Concurrency

\* Outside the groups no task is left.
Settled == ~InGroup => \A t \in Tasks : task[t] \in Idle

\* A box of a page is only being read while the page's task waits for it.
BoxesInside ==
  phase = "ocr" =>
    /\ DOMAIN doc = Pages
    /\ \A t \in Tasks : BoxOf(t) # 0 =>
         \/ task[t] \in Idle
         \/ /\ task[<<PageOf(t), 0>>] \in {"inner", "closing"}
            /\ BoxOf(t) \in DOMAIN doc[PageOf(t)]

GroupInv == TypeOK /\ CallsBounded /\ Settled /\ BoxesInside

-----------------------------------------------------------------------------
(* The parts of the actions.                                               *)

LEMMA TasksAre ==
  /\ \A p \in Pages : <<p, 0>> \in Tasks
  /\ \A t \in Tasks : /\ PageOf(t) \in Pages /\ BoxOf(t) \in 0 .. MaxBoxes
                      /\ t = <<PageOf(t), BoxOf(t)>>
                      /\ BoxOf(t) = 0 => t = <<PageOf(t), 0>>
  BY HybridAssumption DEF Tasks, PageOf, BoxOf, Pages

\* What stopping does to a task.
LEMMA StoppedTasks ==
  ASSUME NEW S, task \in [Tasks -> TaskStates]
  PROVE  /\ Stopped(S) \in [Tasks -> TaskStates]
         /\ \A t \in Tasks :
              /\ task[t] \in Idle => Stopped(S)[t] = task[t]
              /\ task[t] \in {"inner", "closing"}
                   => Stopped(S)[t] \in {"inner", "closing"}
              /\ Stopped(S)[t] \in {"call", "stopping"}
                   => task[t] \in {"call", "stopping"}
  BY DEF Stopped, TaskStates, Idle

\* No task makes a call that did not make one.
LEMMA NoNewCalls ==
  ASSUME CallsBounded,
         \A t \in Tasks : task'[t] \in {"call", "stopping"}
                            => task[t] \in {"call", "stopping"}
  PROVE  CallsBounded'
  <1>1. InFlight' \subseteq InFlight
    BY DEF InFlight
  <1>2. /\ IsFiniteSet(InFlight') 
        /\ Cardinality(InFlight') <= Cardinality(InFlight)
    BY <1>1, FS_Subset DEF CallsBounded
  <1>3. Cardinality(InFlight) \in Nat /\ Cardinality(InFlight') \in Nat
    BY <1>2, FS_CardinalityType DEF CallsBounded
  <1> QED BY <1>2, <1>3, HybridAssumption DEF CallsBounded

\* One more call, when a permit is free.
LEMMA OneMoreCall ==
  ASSUME CallsBounded, Free, NEW t \in Tasks,
         task \in [Tasks -> TaskStates], task' = [task EXCEPT ![t] = "call"]
  PROVE  CallsBounded'
  <1>1. InFlight' \subseteq InFlight \cup {t}
    BY DEF InFlight
  <1>2. /\ IsFiniteSet(InFlight \cup {t})
        /\ \/ Cardinality(InFlight \cup {t}) = Cardinality(InFlight)
           \/ Cardinality(InFlight \cup {t}) = Cardinality(InFlight) + 1
    BY FS_AddElement DEF CallsBounded
  <1>3. /\ IsFiniteSet(InFlight')
        /\ Cardinality(InFlight') <= Cardinality(InFlight \cup {t})
    BY <1>1, <1>2, FS_Subset
  <1>4. /\ Cardinality(InFlight) \in Nat /\ Cardinality(InFlight') \in Nat
        /\ Cardinality(InFlight) < Concurrency
    BY <1>3, FS_CardinalityType DEF CallsBounded, Free
  <1> QED BY <1>2, <1>3, <1>4, HybridAssumption DEF CallsBounded

\* Where the loops of the repair go.
LEMMA AdvanceFacts ==
  ASSUME TypeOK, NEW b, Advance(b)
  PROVE  /\ cur' \in [page : 0 .. MaxPages, block : 0 .. MaxBoxes,
                      attempt : 0 .. MaxRetries]
         /\ phase' \in {phase, "finalize"}
  <1> USE HybridAssumption
  <1>1. CASE cur' = NoBlock /\ phase' = "finalize"
    BY <1>1 DEF NoBlock
  <1>2. CASE phase' = phase /\ cur' \in After(b.page, b.block)
    <2>1. cur' \in [page : 1 .. n, block : 1 .. MaxBoxes, attempt : {1}]
      BY <1>2 DEF After
    <2>2. n \in 0 .. MaxPages
      BY DEF TypeOK
    <2> QED BY <1>2, <2>1, <2>2
  <1> QED BY <1>1, <1>2 DEF Advance

LEMMA EscapeFacts ==
  \A E : Escape(E) \in {"interrupted", "cancelled", "circuit", "group"}
  BY DEF Escape

-----------------------------------------------------------------------------

\* Every variable keeps its type.
LEMMA TypeStep == TypeOK /\ [Next]_vars => TypeOK'
<1> SUFFICES ASSUME TypeOK, [Next]_vars PROVE TypeOK'
  OBVIOUS
<1> USE HybridAssumption
<1>1. CASE Convert
  BY <1>1 DEF Convert, TypeOK, group, history
<1>2. CASE EnterDetection
  BY <1>2 DEF EnterDetection, End, TypeOK, group, history
<1>3. CASE Detect
  <2>1. dense' \subseteq Pages /\ task' \in [Tasks -> TaskStates]
    BY <1>3 DEF Detect, TypeOK, Pages, TaskStates
  <2> QED BY <1>3, <2>1 DEF Detect, TypeOK, history
<1>4. CASE PreparationFails \/ DecodeFails
  <2>1. NoTasks \in [Tasks -> TaskStates]
    BY DEF NoTasks, TaskStates
  <2> QED
    BY <1>4, <2>1 DEF PreparationFails, DecodeFails, End, TypeOK, group, history
<1>5. ASSUME NEW t \in Tasks, Acquire(t) PROVE TypeOK'
  <2>1. task' \in [Tasks -> TaskStates]
    BY <1>5 DEF Acquire, TypeOK, TaskStates
  <2> QED BY <1>5, <2>1 DEF Acquire, TypeOK, history
<1>6. ASSUME NEW p \in Pages, OpenDense(p) PROVE TypeOK'
  <2>1. task' \in [Tasks -> TaskStates]
    BY <1>6 DEF OpenDense, TypeOK, TaskStates
  <2> QED BY <1>6, <2>1 DEF OpenDense, TypeOK, history
<1>7. ASSUME NEW p \in Pages, ReadPage(p) PROVE TypeOK'
  <2>1. task' \in [Tasks -> TaskStates]
    BY <1>7 DEF ReadPage, TypeOK, TaskStates
  <2> QED BY <1>7, <2>1 DEF ReadPage, TypeOK
<1>8. ASSUME NEW p \in Pages, PageFails(p) PROVE TypeOK'
  <2>1. task' \in [Tasks -> TaskStates]
    BY <1>8 DEF PageFails, TypeOK, TaskStates
  <2> QED BY <1>8, <2>1 DEF PageFails, TypeOK
<1>9. ASSUME NEW t \in Tasks, ReadCrop(t) PROVE TypeOK'
  <2>1. task' \in [Tasks -> TaskStates]
    BY <1>9 DEF ReadCrop, TypeOK, TaskStates
  <2> QED BY <1>9, <2>1 DEF ReadCrop, TypeOK, history
<1>10. ASSUME NEW t \in Tasks, CircuitOpens(t) PROVE TypeOK'
  <2>1. task' \in [Tasks -> TaskStates]
    BY <1>10 DEF CircuitOpens, TypeOK, TaskStates
  <2> QED BY <1>10, <2>1 DEF CircuitOpens, TypeOK, history
<1>11. ASSUME NEW t \in Tasks, Notice(t) PROVE TypeOK'
  <2>1. \A S : [Stopped(S) EXCEPT ![t] = "told"] \in [Tasks -> TaskStates]
    BY StoppedTasks DEF TypeOK, TaskStates
  <2>2. task' \in [Tasks -> TaskStates]
    <3>1. \E S : task' = [Stopped(S) EXCEPT ![t] = "told"]
      BY <1>11, Zenon DEF Notice
    <3> QED BY <2>1, <3>1
  <2>3. /\ errs' \in {errs, errs \cup {"circuit"}}
        /\ body' \in {body, "exit"}
    BY <1>11 DEF Notice
  <2>4. UNCHANGED <<phase, opts, n, doc, dense, emitting, collected, failed, cur,
                    below, cancelled, interrupted, outcome, erred>>
    BY <1>11, Zenon DEF Notice, history
  <2>5. errs' \subseteq {"cancel", "circuit"} /\ body' \in {"collect", "emit", "exit"}
    BY <2>3 DEF TypeOK
  <2> QED BY <2>2, <2>4, <2>5 DEF TypeOK
<1>12. ASSUME NEW t \in Tasks, Resume(t) PROVE TypeOK'
  <2>1. task' \in [Tasks -> TaskStates]
    BY <1>12 DEF Resume, TypeOK, TaskStates
  <2> QED BY <1>12, <2>1 DEF Resume, TypeOK, history
<1>13. ASSUME NEW p \in Pages, CloseDense(p) PROVE TypeOK'
  <2>1. task' \in [Tasks -> TaskStates]
    BY <1>13 DEF CloseDense, TypeOK, TaskStates
  <2> QED BY <1>13, <2>1 DEF CloseDense, TypeOK, history
<1>14. ASSUME NEW t \in Tasks, Collect(t) PROVE TypeOK'
  <2>1. Stopped(Tasks) \in [Tasks -> TaskStates]
    BY StoppedTasks DEF TypeOK
  <2>2. CASE cancelled
    BY <1>14, <2>1, <2>2 DEF Collect, TypeOK, history
  <2>3. CASE ~cancelled
    BY <1>14, <2>3 DEF Collect, TypeOK, history
  <2> QED BY <2>2, <2>3
<1>15. CASE Emitted
  BY <1>15 DEF Emitted, TypeOK, history
<1>16. CASE LeaveGroup
  BY <1>16, EscapeFacts DEF LeaveGroup, End, TypeOK, group, history
<1>17. CASE FinishOcr
  <2>1. task' \in [Tasks -> TaskStates]
    BY <1>17 DEF FinishOcr, TaskStates
  <2> QED BY <1>17, <2>1 DEF FinishOcr, NoBlock, TypeOK, history
<1>18. CASE FinishRefine
  <2>1. task' \in [Tasks -> TaskStates]
    BY <1>18 DEF FinishRefine, NoTasks, TaskStates
  <2> QED BY <1>18, <2>1 DEF FinishRefine, TypeOK, history
<1>19. CASE StartRepair
  BY <1>19, AdvanceFacts DEF StartRepair, TypeOK, group, history
<1>20. CASE RepairReads
  <2>1. PICK text \in Crops \cup {<<>>} :
          LET old == Confidence(doc[cur.page][cur.block].text)
              new == Confidence(text)
          IN  IF new <= old
                THEN Advance(cur) /\ below' = below + 1
                ELSE IF new >= Target \/ cur.attempt = MaxRetries
                       THEN /\ Advance(cur)
                            /\ below' = IF new < Target THEN below + 1 ELSE below
                       ELSE /\ cur' = [cur EXCEPT !.attempt = @ + 1]
                            /\ UNCHANGED <<phase, below>>
    BY <1>20 DEF RepairReads
  <2>2. CASE Advance(cur) /\ below' \in {below, below + 1}
    <3>1. UNCHANGED <<opts, n, dense, group, failed, cancelled, interrupted,
                      outcome, history>>
      BY <1>20, Zenon DEF RepairReads
    <3>2. below' \in Nat
      BY <2>2 DEF TypeOK
    <3>3. phase = "repair"
      BY <1>20, Zenon DEF RepairReads
    <3> QED BY <2>2, <3>1, <3>2, <3>3, AdvanceFacts DEF TypeOK, group, history
  <2>3. CASE /\ cur' = [cur EXCEPT !.attempt = @ + 1]
             /\ cur.attempt # MaxRetries
             /\ UNCHANGED <<phase, below>>
    <3>1. cur' \in [page : 0 .. MaxPages, block : 0 .. MaxBoxes,
                    attempt : 0 .. MaxRetries]
      <4>1. /\ cur \in [page : 0 .. MaxPages, block : 0 .. MaxBoxes,
                       attempt : 0 .. MaxRetries]
            /\ cur' = [cur EXCEPT !.attempt = cur.attempt + 1]
        BY <2>3 DEF TypeOK
      <4>2. cur.attempt + 1 \in 0 .. MaxRetries
        BY <2>3, <4>1, HybridAssumption
      <4> QED BY <4>1, <4>2
    <3> QED
      BY <1>20, <2>3, <3>1 DEF RepairReads, TypeOK, group, history
  <2> QED BY <2>1, <2>2, <2>3
<1>21. CASE RepairFails
  BY <1>21, AdvanceFacts DEF RepairFails, TypeOK, group, history
<1>22. CASE RepairAborts
  BY <1>22 DEF RepairAborts, End, TypeOK, group, history
<1>23. CASE Finalize
  BY <1>23 DEF Finalize, End, TypeOK, group, history
<1>24. CASE Write
  BY <1>24 DEF Write, End, TypeOK, group, history
<1>25. CASE Cancel
  BY <1>25 DEF Cancel, TypeOK, group, history
<1>26. CASE Interrupt
  <2>1. \A S : Stopped(S) \in [Tasks -> TaskStates]
    BY StoppedTasks DEF TypeOK
  <2>2. CASE InGroup
    BY <1>26, <2>1, <2>2 DEF Interrupt, TypeOK, history
  <2>3. CASE ~InGroup
    BY <1>26, <2>3 DEF Interrupt, End, TypeOK, history
  <2> QED BY <2>2, <2>3
<1>27. CASE UNCHANGED vars
  BY <1>27 DEF vars, TypeOK, group, history
<1> QED
  BY <1>1, <1>2, <1>3, <1>4, <1>5, <1>6, <1>7, <1>8, <1>9, <1>10, <1>11,
     <1>12, <1>13, <1>14, <1>15, <1>16, <1>17, <1>18, <1>19, <1>20, <1>21,
     <1>22, <1>23, <1>24, <1>25, <1>26, <1>27
  DEF Next, Run, GroupStep, PageStep, TaskStep, BodyStep, RepairStep, PhaseStep

-----------------------------------------------------------------------------

\* A step that leaves the tasks alone, and changes at most the phase.
LEMMA TasksRest ==
  ASSUME GroupInv, UNCHANGED task, ~InGroup, ~InGroup'
  PROVE  CallsBounded' /\ Settled' /\ BoxesInside'
<1>1. CallsBounded'
  BY NoNewCalls DEF GroupInv
<1> QED BY <1>1 DEF GroupInv, Settled, BoxesInside, InGroup

\* A step of a task t of an open group that makes no call.  It is not the
\* task of a page whose boxes are being read, or ends none of those.
LEMMA TaskMoves ==
  ASSUME GroupInv, InGroup, NEW t \in Tasks, NEW to,
         task' = [task EXCEPT ![t] = to], to \notin {"call", "stopping"},
         UNCHANGED <<phase, doc>>,
         BoxOf(t) # 0 => to \in Idle,
         phase = "ocr" /\ task[t] \in {"inner", "closing"} =>
           \A u \in Tasks : PageOf(u) = PageOf(t) /\ BoxOf(u) # 0
                              => task[u] \in Idle
  PROVE  CallsBounded' /\ Settled' /\ BoxesInside'
<1>1. CallsBounded'
  BY NoNewCalls DEF GroupInv, TypeOK
<1>2. Settled'
  BY DEF Settled, InGroup
<1>3. BoxesInside'
  <2> SUFFICES ASSUME phase = "ocr"
               PROVE  BoxesInside'
    BY DEF BoxesInside
  <2>1. DOMAIN doc' = Pages
    BY DEF GroupInv, BoxesInside
  <2>2. ASSUME NEW u \in Tasks, BoxOf(u) # 0, task'[u] \notin Idle
        PROVE  /\ task'[<<PageOf(u), 0>>] \in {"inner", "closing"}
               /\ BoxOf(u) \in DOMAIN doc'[PageOf(u)]
    <3>1. u # t /\ task'[u] = task[u]
      BY <2>2 DEF GroupInv, TypeOK
    <3>2. /\ task[<<PageOf(u), 0>>] \in {"inner", "closing"}
          /\ BoxOf(u) \in DOMAIN doc[PageOf(u)]
      BY <2>2, <3>1 DEF GroupInv, BoxesInside
    <3>3. t # <<PageOf(u), 0>>
      BY <2>2, <3>1, <3>2 DEF PageOf
    <3> QED BY <3>2, <3>3 DEF GroupInv, TypeOK
  <2> QED BY <2>1, <2>2 DEF BoxesInside
<1> QED BY <1>1, <1>2, <1>3

\* A step that stops tasks, and ends t when t is not between them.
LEMMA TasksStopped ==
  ASSUME GroupInv, InGroup, NEW S,
         \A u \in Tasks : \/ task'[u] = Stopped(S)[u]
                          \/ /\ task[u] \notin {"inner", "closing"}
                             /\ task'[u] \in Idle,
         UNCHANGED phase,
         phase = "ocr" => DOMAIN doc' = Pages,
         phase = "ocr" => \A p \in Pages :
           doc'[p] = doc[p] \/ task[<<p, 0>>] \notin {"inner", "closing"}
  PROVE  CallsBounded' /\ Settled' /\ BoxesInside'
<1> USE StoppedTasks
<1>0. task \in [Tasks -> TaskStates]
  BY DEF GroupInv, TypeOK
<1>1. CallsBounded'
  BY <1>0, NoNewCalls DEF GroupInv, Idle
<1>2. Settled'
  BY DEF Settled, InGroup
<1>3. ASSUME phase = "ocr", NEW u \in Tasks, BoxOf(u) # 0, task'[u] \notin Idle
      PROVE  /\ task'[<<PageOf(u), 0>>] \in {"inner", "closing"}
             /\ BoxOf(u) \in DOMAIN doc'[PageOf(u)]
  <2>1. task[u] \notin Idle
    BY <1>0, <1>3
  <2>2. /\ task[<<PageOf(u), 0>>] \in {"inner", "closing"}
        /\ BoxOf(u) \in DOMAIN doc[PageOf(u)]
    BY <1>3, <2>1 DEF GroupInv, BoxesInside
  <2>3. PageOf(u) \in Pages /\ <<PageOf(u), 0>> \in Tasks
    BY TasksAre
  <2> QED BY <1>0, <1>3, <2>2, <2>3
<1> QED BY <1>1, <1>2, <1>3 DEF BoxesInside

\* Every step keeps the calls structured.
LEMMA CallsStep ==
  GroupInv /\ [Next]_vars => CallsBounded' /\ Settled' /\ BoxesInside'
<1> SUFFICES ASSUME GroupInv, [Next]_vars
             PROVE  CallsBounded' /\ Settled' /\ BoxesInside'
  OBVIOUS
<1>0. TypeOK /\ CallsBounded /\ Settled /\ BoxesInside
  BY DEF GroupInv
<1>1. CASE \/ Convert \/ EnterDetection \/ PreparationFails
           \/ Finalize \/ Write \/ RepairAborts
  <2>1. UNCHANGED task /\ ~InGroup /\ ~InGroup'
    BY <1>0, <1>1
    DEF Convert, EnterDetection, PreparationFails, Finalize, Write,
        RepairAborts, End, InGroup, group
  <2> QED BY <2>1, TasksRest
<1>2. CASE StartRepair \/ RepairReads \/ RepairFails
  <2>1. UNCHANGED task /\ phase = "repair"
    BY <1>2 DEF StartRepair, RepairReads, RepairFails, group
  <2>2. phase' \in {"repair", "finalize"}
    <3>1. CASE \E b : Advance(b)
      BY <1>0, <2>1, <3>1, AdvanceFacts
    <3>2. CASE UNCHANGED phase
      BY <2>1, <3>2
    <3> QED BY <1>2, <3>1, <3>2 DEF StartRepair, RepairReads, RepairFails
  <2> QED BY <2>1, <2>2, TasksRest DEF InGroup
<1>3. CASE Detect
  <2>1. \A t \in Tasks : /\ task'[t] \in {"wait", "none"}
                         /\ BoxOf(t) # 0 => task'[t] = "none"
    BY <1>3 DEF Detect
  <2>2. phase' = "ocr" /\ DOMAIN doc' = Pages
    BY <1>3 DEF Detect
  <2>3. CallsBounded'
    BY <1>0, <2>1, NoNewCalls
  <2> QED BY <2>1, <2>2, <2>3 DEF Settled, InGroup, BoxesInside, Idle
<1>4. ASSUME NEW t \in Tasks, Acquire(t)
      PROVE  CallsBounded' /\ Settled' /\ BoxesInside'
  <2>1. CASE task' = [task EXCEPT ![t] = "call"]
    <3>1. CallsBounded'
      BY <1>0, <1>4, <2>1, OneMoreCall DEF Acquire, TypeOK
    <3>2. ASSUME phase = "ocr", NEW u \in Tasks, BoxOf(u) # 0,
                 task'[u] \notin Idle
          PROVE  /\ task'[<<PageOf(u), 0>>] \in {"inner", "closing"}
                 /\ BoxOf(u) \in DOMAIN doc'[PageOf(u)]
      <4>1. task[u] \notin Idle
        BY <1>0, <1>4, <2>1, <3>2 DEF Acquire, TypeOK, Idle
      <4>2. /\ task[<<PageOf(u), 0>>] \in {"inner", "closing"}
            /\ BoxOf(u) \in DOMAIN doc[PageOf(u)]
        BY <1>0, <3>2, <4>1 DEF BoxesInside
      <4>3. <<PageOf(u), 0>> # t
        BY <1>4, <4>2 DEF Acquire
      <4> QED BY <1>0, <1>4, <2>1, <4>2, <4>3 DEF Acquire, TypeOK
    <3> QED
      BY <1>0, <1>4, <3>1, <3>2 DEF Acquire, Settled, InGroup, BoxesInside
  <2>2. CASE task' = [task EXCEPT ![t] = "ok"]
    <3>1. /\ InGroup /\ task[t] = "wait" /\ UNCHANGED <<phase, doc>>
          /\ "ok" \in Idle
      BY <1>4 DEF Acquire, Idle
    <3> QED BY <2>2, <3>1, TaskMoves
  <2> QED BY <1>4, <2>1, <2>2 DEF Acquire
<1>5. ASSUME NEW p \in Pages, OpenDense(p)
      PROVE  CallsBounded' /\ Settled' /\ BoxesInside'
  <2>1. phase = "ocr" /\ UNCHANGED <<phase, doc>> /\ task[<<p, 0>>] = "wait"
    BY <1>5 DEF OpenDense
  <2>2. \A t \in Tasks :
          /\ t = <<p, 0>> => task'[t] = "inner"
          /\ t # <<p, 0>> /\ t \in Inside(p) => task'[t] = "wait"
          /\ t # <<p, 0>> /\ t \notin Inside(p) => task'[t] = task[t]
    BY <1>5 DEF OpenDense
  <2>3. CallsBounded'
    BY <1>0, <2>1, <2>2, NoNewCalls
  <2>4. ASSUME NEW u \in Tasks, BoxOf(u) # 0, task'[u] \notin Idle
        PROVE  /\ task'[<<PageOf(u), 0>>] \in {"inner", "closing"}
               /\ BoxOf(u) \in DOMAIN doc'[PageOf(u)]
    <3>1. u # <<p, 0>> /\ <<PageOf(u), 0>> \in Tasks
      BY <2>4, TasksAre DEF BoxOf
    <3>2. CASE u \in Inside(p)
      BY <2>1, <2>2, <3>1, <3>2 DEF Inside
    <3>3. CASE u \notin Inside(p)
      <4>1. /\ task[<<PageOf(u), 0>>] \in {"inner", "closing"}
            /\ BoxOf(u) \in DOMAIN doc[PageOf(u)]
        BY <1>0, <2>1, <2>2, <2>4, <3>1, <3>3 DEF BoxesInside
      <4>2. <<PageOf(u), 0>> # <<p, 0>> /\ <<PageOf(u), 0>> \notin Inside(p)
        BY <2>1, <4>1, <2>4, <3>3 DEF Inside, PageOf, BoxOf
      <4> QED BY <2>1, <2>2, <3>1, <4>1, <4>2
    <3> QED BY <3>2, <3>3
  <2> QED BY <1>0, <2>1, <2>3, <2>4 DEF Settled, InGroup, BoxesInside
<1>6. ASSUME NEW p \in Pages, ReadPage(p) \/ PageFails(p)
      PROVE  CallsBounded' /\ Settled' /\ BoxesInside'
  <2>1. /\ phase = "ocr" /\ task[<<p, 0>>] \in {"call", "wait"}
        /\ UNCHANGED <<phase, doc>>
        /\ \E to \in {"ok", "fail"} : task' = [task EXCEPT ![<<p, 0>>] = to]
    <3>1. CASE ReadPage(p)
      <4>1. task' = [task EXCEPT ![<<p, 0>>] = "ok"]
        BY <3>1, Zenon DEF ReadPage
      <4> QED BY <3>1, <4>1 DEF ReadPage
    <3>2. CASE PageFails(p)
      <4>1. task' = [task EXCEPT ![<<p, 0>>] = "fail"]
        BY <3>2, Zenon DEF PageFails
      <4> QED BY <3>2, <4>1 DEF PageFails
    <3> QED BY <1>6, <3>1, <3>2
  <2>2. PICK to \in {"ok", "fail"} : task' = [task EXCEPT ![<<p, 0>>] = to]
    BY <2>1
  <2>3. <<p, 0>> \in Tasks /\ BoxOf(<<p, 0>>) = 0
    BY TasksAre DEF BoxOf
  <2> QED BY <2>1, <2>2, <2>3, TaskMoves DEF InGroup
<1>7. ASSUME NEW t \in Tasks, ReadCrop(t) \/ Resume(t)
      PROVE  CallsBounded' /\ Settled' /\ BoxesInside'
  <2>1. /\ InGroup /\ task[t] \in {"call", "stop", "stopping"}
        /\ UNCHANGED <<phase, doc>>
        /\ \E to \in {"ok", "gone"} : task' = [task EXCEPT ![t] = to]
    <3>1. CASE ReadCrop(t)
      <4>1. task' = [task EXCEPT ![t] = "ok"]
        BY <3>1, Zenon DEF ReadCrop
      <4> QED BY <3>1, <4>1 DEF ReadCrop
    <3>2. CASE Resume(t)
      <4>1. task' = [task EXCEPT ![t] = "gone"]
        BY <3>2, Zenon DEF Resume
      <4> QED BY <3>2, <4>1 DEF Resume
    <3> QED BY <1>7, <3>1, <3>2
  <2>2. PICK to \in {"ok", "gone"} : task' = [task EXCEPT ![t] = to]
    BY <2>1
  <2> QED BY <2>1, <2>2, TaskMoves DEF Idle
<1>8. ASSUME NEW t \in Tasks, CircuitOpens(t)
      PROVE  CallsBounded' /\ Settled' /\ BoxesInside'
  <2>1. /\ InGroup /\ task[t] = "call" /\ UNCHANGED <<phase, doc>>
        /\ task' = [task EXCEPT ![t] = "raised"]
    BY <1>8 DEF CircuitOpens
  <2>2. CallsBounded'
    BY <1>0, <2>1, NoNewCalls DEF TypeOK
  <2>3. ASSUME phase = "ocr", NEW u \in Tasks, BoxOf(u) # 0,
               task'[u] \notin Idle
        PROVE  /\ task'[<<PageOf(u), 0>>] \in {"inner", "closing"}
               /\ BoxOf(u) \in DOMAIN doc'[PageOf(u)]
    <3>1. task[u] \notin Idle
      BY <1>0, <2>1, <2>3 DEF TypeOK, Idle
    <3>2. /\ task[<<PageOf(u), 0>>] \in {"inner", "closing"}
          /\ BoxOf(u) \in DOMAIN doc[PageOf(u)]
      BY <1>0, <2>3, <3>1 DEF BoxesInside
    <3> QED BY <1>0, <2>1, <3>2 DEF TypeOK
  <2> QED BY <1>0, <2>1, <2>2, <2>3 DEF Settled, InGroup, BoxesInside
<1>9. ASSUME NEW t \in Tasks, Notice(t)
      PROVE  CallsBounded' /\ Settled' /\ BoxesInside'
  <2>1. InGroup /\ task[t] = "raised" /\ UNCHANGED <<phase, doc>>
    BY <1>9 DEF Notice
  <2>2. PICK S : task' = [Stopped(S) EXCEPT ![t] = "told"]
    BY <1>9, Zenon DEF Notice
  <2>3. \A u \in Tasks : \/ task'[u] = Stopped(S)[u]
                         \/ u = t /\ task'[u] = "told"
    BY <1>0, <2>2, StoppedTasks DEF TypeOK
  <2>4. phase = "ocr" => DOMAIN doc' = Pages
    BY <1>0, <2>1 DEF BoxesInside
  <2> QED BY <2>1, <2>3, <2>4, TasksStopped DEF Idle
<1>10. ASSUME NEW p \in Pages, CloseDense(p)
       PROVE  CallsBounded' /\ Settled' /\ BoxesInside'
  <2>1. /\ phase = "ocr" /\ UNCHANGED <<phase, doc>>
        /\ \A t \in Inside(p) : Ended(t)
        /\ \E to \in {"ok", "raised", "gone"} :
             task' = [task EXCEPT ![<<p, 0>>] = to]
    BY <1>10 DEF CloseDense
  <2>2. PICK to \in {"ok", "raised", "gone"} :
          task' = [task EXCEPT ![<<p, 0>>] = to]
    BY <2>1
  <2>3. <<p, 0>> \in Tasks /\ BoxOf(<<p, 0>>) = 0 /\ PageOf(<<p, 0>>) = p
    BY TasksAre DEF BoxOf, PageOf
  <2>4. ASSUME NEW u \in Tasks, PageOf(u) = p, BoxOf(u) # 0
        PROVE  task[u] \in Idle
    BY <1>0, <2>1, <2>4 DEF BoxesInside, Inside, Ended, Idle
  <2> QED BY <2>1, <2>2, <2>3, <2>4, TaskMoves DEF InGroup
<1>11. ASSUME NEW t \in Tasks, Collect(t)
       PROVE  CallsBounded' /\ Settled' /\ BoxesInside'
  <2>1. /\ InGroup /\ UNCHANGED phase /\ task[t] \in {"ok", "fail"}
        /\ t \in RunTasks /\ doc' = Stored(t)
        /\ task' = Stopped(Tasks) \/ task' = task
    BY <1>11 DEF Collect
  <2>2. ASSUME phase = "ocr"
        PROVE  /\ DOMAIN doc' = Pages
               /\ \A p \in Pages :
                    doc'[p] = doc[p] \/ task[<<p, 0>>] \notin {"inner", "closing"}
    <3>1. t = <<PageOf(t), 0>> /\ PageOf(t) \in Pages
      BY <2>1, <2>2, TasksAre DEF RunTasks
    <3>2. doc' = [doc EXCEPT ![PageOf(t)] = ready[PageOf(t)]]
      BY <2>1, <2>2 DEF Stored
    <3> QED BY <1>0, <2>1, <2>2, <3>1, <3>2 DEF BoxesInside
  <2>3. \E S : \A u \in Tasks : task'[u] = Stopped(S)[u]
    <3>1. \A u \in Tasks : Stopped({})[u] = task[u]
      BY DEF Stopped
    <3> QED BY <2>1, <3>1
  <2>4. PICK S : \A u \in Tasks : task'[u] = Stopped(S)[u]
    BY <2>3
  <2> QED BY <2>1, <2>2, <2>4, TasksStopped
<1>12. CASE Emitted \/ Cancel \/ UNCHANGED vars
  <2>1. UNCHANGED <<task, phase, doc>>
    BY <1>12 DEF Emitted, Cancel, vars, group
  <2>2. CallsBounded'
    BY <1>0, <2>1, NoNewCalls
  <2> QED BY <1>0, <2>1, <2>2 DEF Settled, InGroup, BoxesInside
<1>13. CASE LeaveGroup
  <2>1. /\ InGroup /\ phase' = "ended" /\ UNCHANGED task
        /\ \A t \in RunTasks : Ended(t)
    BY <1>13 DEF LeaveGroup, End, group
  <2>2. ASSUME NEW t \in Tasks PROVE task[t] \in Idle
    <3>1. CASE t \in RunTasks
      BY <2>1, <3>1 DEF Ended, Idle
    <3>2. CASE t \notin RunTasks /\ task[t] # "none"
      <4>1. phase = "ocr" /\ BoxOf(t) # 0
        BY <2>1, <3>2 DEF RunTasks, InGroup
      <4>2. <<PageOf(t), 0>> \in Tasks /\ BoxOf(<<PageOf(t), 0>>) = 0
        BY TasksAre DEF BoxOf
      <4>3. task[<<PageOf(t), 0>>] \notin {"inner", "closing"}
        BY <2>1, <4>2 DEF RunTasks, Ended
      <4> QED BY <1>0, <4>1, <4>3 DEF BoxesInside
    <3> QED BY <3>1, <3>2 DEF Idle
  <2>3. CallsBounded'
    BY <1>0, <2>1, NoNewCalls
  <2> QED BY <2>1, <2>2, <2>3 DEF Settled, BoxesInside
<1>14. CASE FinishOcr
  <2>1. /\ \A t \in Tasks : task'[t] \in {"wait", "none"}
        /\ phase' \in {"refine", "repair"}
        /\ phase' = "repair" => \A t \in Tasks : task'[t] = "none"
    BY <1>14 DEF FinishOcr
  <2>2. CallsBounded'
    BY <1>0, <2>1, NoNewCalls
  <2> QED BY <2>1, <2>2 DEF Settled, InGroup, BoxesInside, Idle
<1>15. CASE FinishRefine
  <2>1. phase' = "repair" /\ \A t \in Tasks : task'[t] = "none"
    BY <1>15 DEF FinishRefine, NoTasks
  <2>2. CallsBounded'
    BY <1>0, <2>1, NoNewCalls
  <2> QED BY <2>1, <2>2 DEF Settled, BoxesInside, Idle
<1>16. CASE DecodeFails
  <2>1. phase' = "ended" /\ \A t \in Tasks : task'[t] = "none"
    BY <1>16 DEF DecodeFails, End, NoTasks
  <2>2. CallsBounded'
    BY <1>0, <2>1, NoNewCalls
  <2> QED BY <2>1, <2>2 DEF Settled, BoxesInside, Idle
<1>17. CASE Interrupt
  <2>1. CASE InGroup
    <3>1. PICK S : task' = Stopped(S)
      BY <1>17, <2>1, Zenon DEF Interrupt
    <3>2. UNCHANGED <<phase, doc>>
      BY <1>17, <2>1 DEF Interrupt
    <3>3. phase = "ocr" => DOMAIN doc' = Pages
      BY <1>0, <3>2 DEF BoxesInside
    <3> QED BY <2>1, <3>1, <3>2, <3>3, TasksStopped
  <2>2. CASE ~InGroup
    BY <1>17, <2>2, TasksRest DEF Interrupt, End, InGroup
  <2> QED BY <2>1, <2>2
<1> QED
  BY <1>1, <1>2, <1>3, <1>4, <1>5, <1>6, <1>7, <1>8, <1>9, <1>10, <1>11,
     <1>12, <1>13, <1>14, <1>15, <1>16, <1>17
  DEF Next, Run, GroupStep, PageStep, TaskStep, BodyStep, RepairStep, PhaseStep

\* A run starts with every variable in its type.
LEMMA TypeStart == Init => TypeOK
<1> SUFFICES ASSUME Init PROVE TypeOK
  OBVIOUS
<1>1. task \in [Tasks -> TaskStates]
  BY DEF Init, NoTasks, TaskStates
<1>2. cur \in [page : 0 .. MaxPages, block : 0 .. MaxBoxes,
               attempt : 0 .. MaxRetries]
  <2>1. 0 \in 0 .. MaxPages /\ 0 \in 0 .. MaxBoxes /\ 0 \in 0 .. MaxRetries
    BY HybridAssumption
  <2>2. cur = [page |-> 0, block |-> 0, attempt |-> 0]
    BY DEF Init, NoBlock
  <2> QED BY <2>1, <2>2
<1>3. n \in 0 .. MaxPages
  BY HybridAssumption DEF Init
<1> QED BY <1>1, <1>2, <1>3 DEF Init, TypeOK

LEMMA GroupInvariant == Spec => []GroupInv
<1>1. Init => GroupInv
  <2> SUFFICES ASSUME Init PROVE GroupInv
    OBVIOUS
  <2>1. TypeOK
    BY TypeStart
  <2>2. InFlight = {}
    BY DEF Init, NoTasks, InFlight
  <2>3. CallsBounded
    BY <2>2, FS_EmptySet, HybridAssumption DEF CallsBounded
  <2>4. Settled /\ BoxesInside
    BY DEF Init, NoTasks, Settled, BoxesInside, Idle
  <2> QED BY <2>1, <2>3, <2>4 DEF GroupInv
<1>2. GroupInv /\ [Next]_vars => GroupInv'
  BY TypeStep, CallsStep DEF GroupInv
<1> QED BY <1>1, <1>2, PTL DEF Spec

\* Every variable keeps its type; the attempts of a repair stay within their
\* limit.
THEOREM HybridType == Spec => []TypeOK
<1>1. GroupInv => TypeOK
  BY DEF GroupInv
<1> QED BY <1>1, GroupInvariant, PTL

\* Whatever stops a run, for any number of pages, boxes and permits: the calls
\* in flight never exceed the permits, and none outlives its group.
THEOREM CallsAreStructured == Spec => []StructuredCalls
<1>1. GroupInv => StructuredCalls
  BY DEF GroupInv, CallsBounded, Settled, StructuredCalls, Ended, Idle
<1> QED BY <1>1, GroupInvariant, PTL

-----------------------------------------------------------------------------
(* A stop is honoured.                                                     *)

Gated == {"convert", "detect", "detecting", "ocr", "refine", "repair",
          "finalize"}

\* An interrupted run is leaving its group, or has ended.
StopInv ==
  /\ phase # "ended" => outcome = "none"
  /\ interrupted => \/ InGroup /\ body = "exit"
                    \/ phase = "ended" /\ outcome # "done"

\* A run on its way to an end that is not "done".
Stopping ==
  /\ StopInv
  /\ \/ interrupted
     \/ cancelled /\ phase \in Gated
     \/ phase = "ended" /\ outcome # "done"

\* Where a step may lead, as far as a stop is concerned.
LEMMA StepKinds ==
  ASSUME TypeOK, [Next]_vars
  PROVE  \/ \* nothing of it changes
            UNCHANGED <<phase, outcome, interrupted, body, cancelled>>
         \/ \* a step inside the open group
            /\ InGroup /\ body # "exit"
            /\ UNCHANGED <<phase, outcome, interrupted, cancelled>>
         \/ \* the group is told to stop, or stopped once more
            /\ InGroup /\ body' = "exit"
            /\ interrupted => interrupted'
            /\ UNCHANGED <<phase, outcome, cancelled>>
         \/ \* on to the next phase, outside the groups or when all is taken
            /\ phase \in Gated
            /\ ~InGroup \/ body = "collect"
            /\ phase' \in Gated \cup {"write"}
            /\ phase' = "write" => ~cancelled
            /\ UNCHANGED <<outcome, interrupted, cancelled>>
         \/ \* the run ends; as done from the last phase only
            /\ phase # "ended" /\ phase' = "ended"
            /\ \/ outcome' \in {"failed", "cancelled", "circuit", "group",
                                "interrupted"}
               \/ phase = "write" /\ UNCHANGED interrupted
            /\ UNCHANGED cancelled
         \/ \* the job is cancelled
            cancelled' /\ UNCHANGED <<phase, outcome, interrupted, body>>
<1>1. CASE \/ Convert \/ EnterDetection \/ Detect \/ PreparationFails
           \/ DecodeFails \/ Write \/ RepairAborts \/ Cancel
  BY <1>1
  DEF Convert, EnterDetection, Detect, PreparationFails, DecodeFails, Write,
      RepairAborts, Cancel, End, InGroup, Gated, group
<1>2. CASE Finalize
  BY <1>2 DEF Finalize, End, InGroup, Gated, group
<1>3. CASE FinishOcr \/ FinishRefine
  BY <1>3 DEF FinishOcr, FinishRefine, AllCollected, Gated
<1>4. CASE StartRepair \/ RepairReads \/ RepairFails
  <2>1. /\ phase = "repair"
        /\ UNCHANGED <<outcome, interrupted, body, cancelled>>
    BY <1>4 DEF StartRepair, RepairReads, RepairFails, group
  <2>2. phase' \in {"repair", "finalize"}
    <3>1. CASE \E b : Advance(b)
      BY <2>1, <3>1, AdvanceFacts
    <3>2. CASE UNCHANGED phase
      BY <2>1, <3>2
    <3> QED BY <1>4, <3>1, <3>2 DEF StartRepair, RepairReads, RepairFails
  <2> QED BY <2>1, <2>2 DEF InGroup, Gated
<1>5. CASE PageStep
  BY <1>5 DEF PageStep, OpenDense, ReadPage, PageFails, CloseDense
<1>6. ASSUME NEW t \in Tasks,
             Acquire(t) \/ ReadCrop(t) \/ CircuitOpens(t) \/ Resume(t)
      PROVE  UNCHANGED <<phase, outcome, interrupted, body, cancelled>>
  BY <1>6 DEF Acquire, ReadCrop, CircuitOpens, Resume
<1>7. ASSUME NEW t \in Tasks, Notice(t)
      PROVE  /\ InGroup /\ body' \in {"exit", body}
             /\ UNCHANGED <<phase, outcome, cancelled, interrupted>>
  BY <1>7 DEF Notice
<1>8. ASSUME NEW t \in Tasks, Collect(t)
      PROVE  /\ InGroup /\ body # "exit"
             /\ UNCHANGED <<phase, outcome, interrupted, cancelled>>
  BY <1>8 DEF Collect
<1>9. CASE Emitted
  BY <1>9 DEF Emitted
<1>10. CASE LeaveGroup
  BY <1>10, EscapeFacts DEF LeaveGroup, End, InGroup
<1>11. CASE Interrupt
  <2>1. CASE InGroup
    BY <1>11, <2>1 DEF Interrupt
  <2>2. CASE ~InGroup
    BY <1>11, <2>2 DEF Interrupt, End
  <2> QED BY <2>1, <2>2
<1>12. CASE UNCHANGED vars
  BY <1>12 DEF vars, group
<1> QED
  BY <1>1, <1>2, <1>3, <1>4, <1>5, <1>6, <1>7, <1>8, <1>9, <1>10, <1>11, <1>12
  DEF Next, Run, GroupStep, TaskStep, BodyStep, RepairStep, PhaseStep

LEMMA StopStep == TypeOK /\ StopInv /\ [Next]_vars => StopInv'
<1> SUFFICES ASSUME TypeOK, StopInv, [Next]_vars PROVE StopInv'
  OBVIOUS
<1> QED BY StepKinds DEF StopInv, InGroup, Gated

LEMMA StoppingStep == TypeOK /\ Stopping /\ [Next]_vars => Stopping'
<1> SUFFICES ASSUME TypeOK, Stopping, [Next]_vars PROVE Stopping'
  OBVIOUS
<1>1. StopInv'
  BY StopStep DEF Stopping
<1>2. CASE interrupted
  BY <1>1, <1>2, StepKinds DEF Stopping, StopInv, InGroup, Gated
<1>3. CASE cancelled /\ phase \in Gated
  BY <1>1, <1>3, StepKinds DEF Stopping, StopInv, InGroup, Gated
<1>4. CASE phase = "ended" /\ outcome # "done"
  BY <1>1, <1>4, StepKinds DEF Stopping, StopInv, InGroup, Gated
<1> QED BY <1>2, <1>3, <1>4 DEF Stopping

\* For any document and any settings: a run that was interrupted, or cancelled
\* before its last gate, never ends as done.
THEOREM StopsAreHonoured == Spec => StopIsHonoured
<1>1. Init => StopInv
  BY DEF Init, StopInv
<1>2. StopInv
        /\ (interrupted \/ (cancelled /\ phase \in {"convert", "detect",
              "detecting", "ocr", "refine", "repair", "finalize"}))
      => Stopping
  BY DEF Stopping, Gated
<1>3. Stopping => outcome # "done"
  BY DEF Stopping, StopInv, InGroup, Gated
<1> QED
  BY <1>1, <1>2, <1>3, StopStep, StoppingStep, HybridType, PTL
  DEF Spec, StopIsHonoured

-----------------------------------------------------------------------------
(* The failed pages.                                                       *)

FailedPages == {p \in Pages : task[<<p, 0>>] = "fail"}

\* While pages are read, last_failed_pages holds those whose results were
\* taken and announced, each once.
Announced ==
  /\ ToSet(failed) = {p \in FailedPages :
                        /\ <<p, 0>> \in collected
                        /\ ~(body = "emit" /\ emitting = <<p, 0>>)}
  /\ Len(failed) = Cardinality(ToSet(failed))

\* A page that failed stays so until all results are taken; what is taken in
\* the refine stage never adds to the list, and a group that is being left
\* leads to no good end.
FailInv ==
  /\ failed \in Seq(Pages)
  /\ phase \in {"convert", "detect", "detecting"}
       => failed = <<>> /\ erred = {} /\ collected = {} /\ body = "collect"
  /\ phase = "ocr" =>
       /\ erred = FailedPages
       /\ \A t \in collected : BoxOf(t) = 0 /\ task[t] \in {"ok", "fail"}
       /\ body # "exit" => Announced
  /\ phase = "refine" => /\ FailedPages = {}
                         /\ \A t \in Tasks : task[t] # "fail"
                         /\ body # "exit" => FailuresNamed
  /\ InGroup /\ body = "emit" => emitting \in collected
  /\ phase \in {"repair", "finalize", "write"} => FailuresNamed
  /\ outcome = "done" => FailuresNamed

LEMMA AppendedSet ==
  ASSUME NEW S, IsFiniteSet(S), NEW q \in Seq(S), NEW x \in S
  PROVE  /\ Append(q, x) \in Seq(S)
         /\ ToSet(Append(q, x)) = ToSet(q) \cup {x}
         /\ /\ Len(q) = Cardinality(ToSet(q))
            /\ x \notin ToSet(q)
            => Len(Append(q, x)) = Cardinality(ToSet(Append(q, x)))
  <1> DEFINE a == Append(q, x)
  <1>1. /\ a \in Seq(S) /\ Len(a) = Len(q) + 1 /\ Len(q) \in Nat
        /\ DOMAIN a = 1 .. Len(q) + 1 /\ DOMAIN q = 1 .. Len(q)
        /\ a[Len(q) + 1] = x /\ \A i \in DOMAIN q : a[i] = q[i]
    OBVIOUS
  <1> HIDE DEF a
  <1>2. ToSet(a) = ToSet(q) \cup {x}
    BY <1>1 DEF ToSet
  <1>3. ToSet(q) \subseteq S
    BY DEF ToSet
  <1>4. IsFiniteSet(ToSet(q))
    BY <1>3, FS_Subset
  <1>5. x \notin ToSet(q)
          => Cardinality(ToSet(q) \cup {x}) = Cardinality(ToSet(q)) + 1
    BY <1>4, FS_AddElement
  <1> QED BY <1>1, <1>2, <1>5 DEF a

\* A step inside the open group that takes no result and makes no page fail.
LEMMA FailRest ==
  ASSUME FailInv, InGroup,
         UNCHANGED <<phase, failed, erred, collected, emitting, outcome>>,
         body' \in {body, "exit"},
         \A p \in Pages : task[<<p, 0>>] \in {"ok", "fail"}
                            => task'[<<p, 0>>] = task[<<p, 0>>],
         \A t \in Tasks : task'[t] = "fail" => task[t] = "fail",
         collected \subseteq Tasks
  PROVE  FailInv'
  <1>1. FailedPages' = FailedPages
    BY TasksAre DEF FailedPages
  <1>2. ASSUME phase = "ocr", NEW t \in collected
        PROVE  BoxOf(t) = 0 /\ task'[t] \in {"ok", "fail"}
    <2>1. BoxOf(t) = 0 /\ task[t] \in {"ok", "fail"}
      BY <1>2 DEF FailInv
    <2>2. t = <<PageOf(t), 0>> /\ PageOf(t) \in Pages
      BY <2>1, TasksAre
    <2> QED BY <2>1, <2>2
  <1>3. body' # "exit" => body' = body
    OBVIOUS
  <1>4. body' # "exit" => Announced' = Announced
    BY <1>1, <1>3 DEF Announced
  <1>5. FailuresNamed' = FailuresNamed
    BY DEF FailuresNamed
  <1> QED BY <1>1, <1>2, <1>3, <1>4, <1>5 DEF FailInv, InGroup

\* A step outside the groups, or to the end, that leaves the two lists alone.
LEMMA FailDone ==
  ASSUME FailInv, UNCHANGED <<failed, erred>>,
         outcome' = "done" => outcome = "done" \/ phase = "write",
         \/ phase' = "ended"
         \/ /\ phase \in {"repair", "finalize", "write"}
            /\ phase' \in {"repair", "finalize", "write"}
         \/ /\ phase \in {"convert", "detect", "detecting"}
            /\ phase' \in {"convert", "detect", "detecting"}
            /\ UNCHANGED <<collected, body>>
         \/ UNCHANGED <<phase, task, collected, body, emitting>>
  PROVE  FailInv'
  <1>1. FailuresNamed' = FailuresNamed
    BY DEF FailuresNamed
  <1>2. CASE UNCHANGED <<phase, task, collected, body, emitting>>
    BY <1>1, <1>2 DEF FailInv, InGroup, Announced, FailedPages
  <1>3. CASE ~UNCHANGED <<phase, task, collected, body, emitting>>
    BY <1>1, <1>3 DEF FailInv, InGroup
  <1> QED BY <1>2, <1>3

LEMMA FailStep ==
  TypeOK /\ StopInv /\ FailInv /\ [Next]_vars => FailInv'
<1> SUFFICES ASSUME TypeOK, StopInv, FailInv, [Next]_vars PROVE FailInv'
  OBVIOUS
<1>0. collected \subseteq Tasks /\ task \in [Tasks -> TaskStates]
  BY DEF TypeOK
<1>1. CASE Convert \/ EnterDetection \/ PreparationFails \/ DecodeFails
  BY <1>1, FailDone
  DEF Convert, EnterDetection, PreparationFails, DecodeFails, End, group, history
<1>2. CASE Detect
  <2>1. /\ phase = "detecting" /\ phase' = "ocr"
        /\ UNCHANGED <<failed, erred, collected, body, outcome>>
        /\ \A t \in Tasks : task'[t] \in {"wait", "none"}
    BY <1>2 DEF Detect, history
  <2>2. failed = <<>> /\ erred = {} /\ collected = {} /\ body = "collect"
    BY <2>1 DEF FailInv
  <2>3. FailedPages' = {}
    BY <2>1, TasksAre DEF FailedPages
  <2>4. ToSet(failed) = {} /\ Len(failed) = 0
    BY <2>2 DEF ToSet
  <2>5. Announced'
    BY <2>1, <2>2, <2>3, <2>4, FS_EmptySet DEF Announced
  <2> QED BY <2>1, <2>2, <2>3, <2>5 DEF FailInv, StopInv, InGroup
<1>3. ASSUME NEW t \in Tasks, Acquire(t) PROVE FailInv'
  <2>1. /\ InGroup /\ task[t] = "wait"
        /\ UNCHANGED <<phase, failed, erred, collected, emitting, outcome, body>>
        /\ \E to \in {"call", "ok"} : task' = [task EXCEPT ![t] = to]
    BY <1>3 DEF Acquire, history
  <2> QED BY <1>0, <2>1, FailRest
<1>4. ASSUME NEW p \in Pages, OpenDense(p) PROVE FailInv'
  <2>1. /\ InGroup /\ task[<<p, 0>>] = "wait"
        /\ UNCHANGED <<phase, failed, erred, collected, emitting, outcome, body>>
    BY <1>4 DEF OpenDense, InGroup, history
  <2>2. \A t \in Tasks : task'[t] = IF t = <<p, 0>> THEN "inner"
                                    ELSE IF t \in Inside(p) THEN "wait"
                                    ELSE task[t]
    BY <1>4 DEF OpenDense
  <2>3. ASSUME NEW q \in Pages, task[<<q, 0>>] \in {"ok", "fail"}
        PROVE  task'[<<q, 0>>] = task[<<q, 0>>]
    <3>1. <<q, 0>> \in Tasks /\ <<q, 0>> # <<p, 0>> /\ q # p
      BY <2>1, <2>3, TasksAre
    <3>2. <<q, 0>> \notin Inside(p)
      BY <3>1 DEF Inside, PageOf
    <3> QED BY <2>2, <3>1, <3>2
  <2> QED BY <1>0, <2>1, <2>2, <2>3, FailRest
<1>5. ASSUME NEW p \in Pages, ReadPage(p) PROVE FailInv'
  <2>1. /\ InGroup /\ task[<<p, 0>>] = "call"
        /\ UNCHANGED <<phase, failed, erred, collected, emitting, outcome, body>>
        /\ task' = [task EXCEPT ![<<p, 0>>] = "ok"]
    BY <1>5 DEF ReadPage, InGroup
  <2> QED BY <1>0, <2>1, TasksAre, FailRest
\* A page that fails has not been taken.
<1>6. ASSUME NEW p \in Pages, PageFails(p) PROVE FailInv'
  <2>1. /\ phase = "ocr" /\ task[<<p, 0>>] \notin {"ok", "fail"}
        /\ UNCHANGED <<phase, failed, collected, emitting, outcome, body>>
        /\ task' = [task EXCEPT ![<<p, 0>>] = "fail"]
        /\ erred' = erred \cup {p}
    BY <1>6 DEF PageFails
  <2>2. <<p, 0>> \in Tasks /\ <<p, 0>> \notin collected
    BY <2>1, TasksAre DEF FailInv
  <2>3. FailedPages' = FailedPages \cup {p}
    BY <1>0, <2>1, <2>2, TasksAre DEF FailedPages
  <2>4. Announced => Announced'
    BY <2>1, <2>2, <2>3 DEF Announced
  <2>5. \A t \in collected : BoxOf(t) = 0 /\ task'[t] \in {"ok", "fail"}
    BY <1>0, <2>1, <2>2 DEF FailInv
  <2> QED BY <2>1, <2>3, <2>4, <2>5 DEF FailInv, StopInv, InGroup
<1>7. ASSUME NEW t \in Tasks, ReadCrop(t) \/ Resume(t) \/ CircuitOpens(t)
      PROVE  FailInv'
  <2>1. /\ InGroup /\ task[t] \in {"call", "stop", "stopping"}
        /\ UNCHANGED <<phase, failed, erred, collected, emitting, outcome, body>>
        /\ \E to \in {"ok", "gone", "raised"} : task' = [task EXCEPT ![t] = to]
    BY <1>7 DEF ReadCrop, Resume, CircuitOpens, history
  <2> QED BY <1>0, <2>1, FailRest
<1>8. ASSUME NEW t \in Tasks, Notice(t) PROVE FailInv'
  <2>1. /\ InGroup /\ task[t] = "raised" /\ body' \in {body, "exit"}
        /\ UNCHANGED <<phase, failed, erred, collected, emitting, outcome>>
    BY <1>8 DEF Notice, history
  <2>2. PICK S : task' = [Stopped(S) EXCEPT ![t] = "told"]
    BY <1>8, Zenon DEF Notice
  <2>3. \A u \in Tasks : \/ u # t /\ task'[u] = Stopped(S)[u]
                         \/ u = t /\ task'[u] = "told"
    BY <1>0, <2>2, StoppedTasks
  <2>4. \A u \in Tasks : task[u] \in {"ok", "fail"} => task'[u] = task[u]
    BY <1>0, <2>1, <2>3, StoppedTasks DEF Idle
  <2>5. \A u \in Tasks : task'[u] = "fail" => task[u] = "fail"
    BY <2>3 DEF Stopped
  <2> QED BY <1>0, <2>1, <2>4, <2>5, TasksAre, FailRest
<1>9. ASSUME NEW p \in Pages, CloseDense(p) PROVE FailInv'
  <2>1. /\ InGroup /\ task[<<p, 0>>] \in {"inner", "closing"}
        /\ UNCHANGED <<phase, failed, erred, collected, emitting, outcome, body>>
        /\ \E to \in {"ok", "raised", "gone"} :
             task' = [task EXCEPT ![<<p, 0>>] = to]
    BY <1>9 DEF CloseDense, InGroup, history
  <2> QED BY <1>0, <2>1, TasksAre, FailRest
\* A result is taken: it is announced next, or the group is left.
<1>10. ASSUME NEW t \in Tasks, Collect(t) PROVE FailInv'
  <2>1. /\ InGroup /\ body = "collect" /\ t \in RunTasks \ collected
        /\ task[t] \in {"ok", "fail"}
        /\ collected' = collected \cup {t}
        /\ UNCHANGED <<phase, failed, erred, outcome>>
        /\ \/ body' = "exit" /\ task' = Stopped(Tasks)
           \/ body' = "emit" /\ emitting' = t /\ task' = task
    BY <1>10 DEF Collect, history
  <2>2. \A u \in Tasks : \/ task'[u] = task[u]
                         \/ {task[u], task'[u]} \cap {"ok", "fail"} = {}
    BY <1>0, <2>1 DEF Stopped, TaskStates
  <2>3. FailedPages' = FailedPages
    BY <2>2, TasksAre DEF FailedPages
  <2>4. phase = "ocr" =>
          \A u \in collected' : BoxOf(u) = 0 /\ task'[u] \in {"ok", "fail"}
    BY <1>0, <2>1, <2>2 DEF FailInv, RunTasks
  <2>5. phase = "ocr" /\ body' # "exit" => Announced'
    <3> SUFFICES ASSUME phase = "ocr", body' # "exit" PROVE Announced'
      OBVIOUS
    <3>1. Announced /\ body' = "emit" /\ emitting' = t
      BY <2>1 DEF FailInv
    <3>2. ToSet(failed) = {p \in FailedPages : <<p, 0>> \in collected}
      BY <2>1, <3>1 DEF Announced
    <3>3. {p \in FailedPages : <<p, 0>> \in collected} =
          {p \in FailedPages : /\ <<p, 0>> \in collected'
                               /\ ~(body' = "emit" /\ emitting' = <<p, 0>>)}
      BY <2>1, <3>1
    <3> QED BY <2>1, <2>3, <3>1, <3>2, <3>3 DEF Announced
  <2>6. phase = "refine" => \A u \in Tasks : task'[u] # "fail"
    BY <1>0, <2>2 DEF FailInv
  <2>7. phase = "refine" => FailuresNamed'
    BY <2>1 DEF FailInv, FailuresNamed
  <2>8. outcome' # "done"
    BY <2>1 DEF StopInv, InGroup
  <2>9. InGroup' /\ body' = "emit" => emitting' \in collected'
    BY <2>1
  <2>10. failed \in Seq(Pages) /\ (phase = "ocr" => erred = FailedPages)
         /\ (phase = "refine" => FailedPages = {})
    BY DEF FailInv
  <2> QED BY <2>1, <2>3, <2>4, <2>5, <2>6, <2>7, <2>8, <2>9, <2>10
          DEF FailInv, InGroup
\* What was taken is announced: a page that failed is noted.
<1>11. CASE Emitted
  <2>1. /\ InGroup /\ body = "emit"
        /\ failed' = IF task[emitting] = "fail"
                       THEN Append(failed, PageOf(emitting)) ELSE failed
        /\ body' = "collect"
        /\ UNCHANGED <<phase, task, collected, erred, outcome>>
    BY <1>11 DEF Emitted, history
  <2>2. emitting \in collected /\ emitting \in Tasks
    BY <1>0, <2>1 DEF FailInv
  <2>3. IsFiniteSet(Pages)
    BY FS_Interval, HybridAssumption DEF Pages
  <2>4. failed' \in Seq(Pages)
    BY <2>1, <2>2, TasksAre DEF FailInv
  <2>5. FailedPages' = FailedPages
    BY <2>1 DEF FailedPages
  <2>6. phase = "ocr" => Announced'
    <3> SUFFICES ASSUME phase = "ocr" PROVE Announced'
      OBVIOUS
    <3> DEFINE p == PageOf(emitting)
    <3>1. Announced /\ emitting = <<p, 0>> /\ p \in Pages
      BY <2>1, <2>2, TasksAre DEF FailInv
    <3>2. p \notin ToSet(failed)
      BY <2>1, <3>1 DEF Announced
    <3>3. CASE task[emitting] = "fail"
      <4>1. p \in FailedPages
        BY <3>1, <3>3 DEF FailedPages
      <4>2. /\ ToSet(failed') = ToSet(failed) \cup {p}
            /\ Len(failed') = Cardinality(ToSet(failed'))
        <5>1. /\ failed' = Append(failed, p) /\ failed \in Seq(Pages)
              /\ Len(failed) = Cardinality(ToSet(failed))
          BY <2>1, <3>1, <3>3 DEF FailInv, Announced
        <5> HIDE DEF p
        <5> QED BY <2>3, <3>1, <3>2, <5>1, AppendedSet
      <4>3. ToSet(failed) \cup {p} =
              {q \in FailedPages : <<q, 0>> \in collected}
        BY <2>1, <2>2, <3>1, <4>1 DEF Announced
      <4> QED BY <2>1, <2>5, <4>2, <4>3 DEF Announced
    <3>4. CASE task[emitting] # "fail"
      <4>1. p \notin FailedPages
        BY <3>1, <3>4 DEF FailedPages
      <4>2. failed' = failed
        BY <2>1, <3>4
      <4>3. ToSet(failed) = {q \in FailedPages : <<q, 0>> \in collected}
        BY <2>1, <3>1, <4>1 DEF Announced
      <4> QED BY <2>1, <2>5, <3>1, <4>2, <4>3 DEF Announced
    <3> QED BY <3>3, <3>4
  <2>7. phase = "refine" => FailuresNamed'
    BY <2>1, <2>2 DEF FailInv, FailuresNamed
  <2>8. outcome' # "done"
    BY <2>1 DEF StopInv, InGroup
  <2> QED BY <2>1, <2>4, <2>5, <2>6, <2>7, <2>8 DEF FailInv, InGroup
<1>12. CASE LeaveGroup
  BY <1>12, EscapeFacts, FailDone DEF LeaveGroup, End, group, history
\* All results were taken and announced.
<1>13. CASE FinishOcr
  <2>1. /\ phase = "ocr" /\ body = "collect" /\ RunTasks \subseteq collected
        /\ phase' \in {"refine", "repair"}
        /\ collected' = {}
        /\ \A t \in Tasks : task'[t] \in {"wait", "none"}
        /\ UNCHANGED <<failed, erred, body, outcome>>
    BY <1>13 DEF FinishOcr, AllCollected, history
  <2>2. Announced /\ erred = FailedPages
    BY <2>1 DEF FailInv
  <2>3. \A p \in FailedPages : <<p, 0>> \in collected
    BY <2>1, TasksAre DEF FailedPages, RunTasks, BoxOf
  <2>4. FailuresNamed
    BY <2>1, <2>2, <2>3 DEF Announced, FailuresNamed
  <2>5. FailuresNamed'
    BY <2>1, <2>4 DEF FailuresNamed
  <2>6. FailedPages' = {}
    BY <2>1, TasksAre DEF FailedPages
  <2> QED BY <2>1, <2>5, <2>6 DEF FailInv, InGroup
<1>14. CASE FinishRefine
  <2>1. /\ phase = "refine" /\ body = "collect" /\ phase' = "repair"
        /\ UNCHANGED <<failed, erred, body, outcome>>
    BY <1>14 DEF FinishRefine, AllCollected, history
  <2>2. FailuresNamed'
    BY <2>1 DEF FailInv, FailuresNamed
  <2> QED BY <2>1, <2>2 DEF FailInv, InGroup
<1>15. CASE StartRepair \/ RepairReads \/ RepairFails
  <2>1. /\ phase = "repair" /\ UNCHANGED <<failed, erred, outcome>>
    BY <1>15 DEF StartRepair, RepairReads, RepairFails, history
  <2>2. phase' \in {"repair", "finalize"}
    <3>1. CASE \E b : Advance(b)
      BY <2>1, <3>1, AdvanceFacts
    <3>2. CASE UNCHANGED phase
      BY <2>1, <3>2
    <3> QED BY <1>15, <3>1, <3>2 DEF StartRepair, RepairReads, RepairFails
  <2> QED BY <2>1, <2>2, FailDone
<1>16. CASE RepairAborts \/ Finalize \/ Write
  BY <1>16, FailDone
  DEF RepairAborts, Finalize, Write, End, group, history
<1>17. CASE Cancel \/ UNCHANGED vars
  BY <1>17, FailDone DEF Cancel, vars, group, history
<1>18. CASE Interrupt
  <2>1. CASE InGroup
    <3>1. /\ body' = "exit"
          /\ UNCHANGED <<phase, failed, erred, collected, emitting, outcome>>
      BY <1>18, <2>1 DEF Interrupt, history
    <3>2. PICK S : task' = Stopped(S)
      BY <1>18, <2>1, Zenon DEF Interrupt
    <3>3. \A u \in Tasks : task[u] \in {"ok", "fail"} => task'[u] = task[u]
      BY <1>0, <3>2, StoppedTasks DEF Idle
    <3>4. \A u \in Tasks : task'[u] = "fail" => task[u] = "fail"
      BY <3>2 DEF Stopped
    <3> QED BY <1>0, <2>1, <3>1, <3>3, <3>4, TasksAre, FailRest
  <2>2. CASE ~InGroup
    BY <1>18, <2>2, FailDone DEF Interrupt, End, history
  <2> QED BY <2>1, <2>2
<1> QED
  BY <1>1, <1>2, <1>3, <1>4, <1>5, <1>6, <1>7, <1>8, <1>9, <1>10, <1>11,
     <1>12, <1>13, <1>14, <1>15, <1>16, <1>17, <1>18
  DEF Next, Run, GroupStep, PageStep, TaskStep, BodyStep, RepairStep, PhaseStep

\* For any number of pages and any order of failures, stops and announcements:
\* a run that ends as done names the pages that failed, each once.
THEOREM FailuresAreNamed == Spec => [](outcome = "done" => FailuresNamed)
<1>1. Init => StopInv /\ FailInv
  BY DEF Init, StopInv, FailInv, InGroup
<1>2. FailInv => (outcome = "done" => FailuresNamed)
  BY DEF FailInv
<1> QED BY <1>1, <1>2, StopStep, FailStep, HybridType, PTL DEF Spec

-----------------------------------------------------------------------------
(* What the repair counts.                                                 *)

IsBlock(b) == \E box, text : b = [box |-> box, text |-> text]

\* Pages of blocks.
Shaped(d) ==
  /\ DOMAIN d = Pages
  /\ \A p \in Pages : \A i \in DOMAIN d[p] : IsBlock(d[p][i])

\* Up to the merge, what the run holds of a document is pages of blocks.
ShapeInv == phase \notin {"write", "ended"} => Shaped(doc) /\ Shaped(ready)

\* Those of D that the loops of the repair reach before a page and block.
Before(D, page, block) ==
  {b \in D : b[1] < page \/ (b[1] = page /\ b[2] < block)}

\* The blocks counted are those that the loops have left behind and that are
\* still doubtful; the one at hand is doubtful too.
RepairInv ==
  /\ phase \in {"convert", "detect", "detecting", "ocr", "refine"}
       => below = 0 /\ cur = NoBlock
  /\ phase = "repair" /\ opts.repair =>
       /\ below = Cardinality(Before(DoubtfulBlocks, cur.page, cur.block))
       /\ cur # NoBlock => <<cur.page, cur.block>> \in DoubtfulBlocks
  /\ RepairAccounts

\* A score is a rank, and only an empty text has the lowest.
LEMMA ConfidenceFacts ==
  ASSUME NEW text
  PROVE  /\ Confidence(text) \in 0 .. WellFormed
         /\ text = <<>> => Confidence(text) = 0
  BY DEF Confidence, WellFormed

LEMMA BlocksAreFinite ==
  ASSUME TypeOK, NEW D, D \subseteq (1 .. n) \X (1 .. MaxBoxes)
  PROVE  IsFiniteSet(D)
  <1>1. /\ IsFiniteSet(1 .. n) /\ IsFiniteSet(1 .. MaxBoxes)
    BY FS_Interval, HybridAssumption DEF TypeOK
  <1>2. IsFiniteSet((1 .. n) \X (1 .. MaxBoxes))
    BY <1>1, FS_Product
  <1> QED BY <1>2, FS_Subset

\* Leaving a block behind adds it to the count if it is still doubtful.
LEMMA OneMoreBlock ==
  ASSUME NEW D, IsFiniteSet(D), NEW page \in Nat, NEW block \in Nat
  PROVE  LET here == <<page, block>>
             old  == Before(D, page, block)
         IN  /\ here \in D =>
                  Cardinality(old \cup (D \cap {here})) = Cardinality(old) + 1
             /\ here \notin D =>
                  Cardinality(old \cup (D \cap {here})) = Cardinality(old)
             /\ Cardinality(old) \in Nat
  <1> DEFINE here == <<page, block>>
             old  == Before(D, page, block)
  <1>1. old \subseteq D  BY DEF Before
  <1>2. IsFiniteSet(old) /\ Cardinality(old) \in Nat
    BY <1>1, FS_Subset, FS_CardinalityType
  <1>3. CASE here \in D
    <2>1. here \notin old
      <3>1. here[1] = page /\ here[2] = block  OBVIOUS
      <3>2. ~(page < page) /\ ~(block < block)  OBVIOUS
      <3> QED BY <3>1, <3>2 DEF Before
    <2>2. D \cap {here} = {here}  BY <1>3
    <2> HIDE DEF here, old
    <2> QED BY <1>2, <1>3, <2>1, <2>2, FS_AddElement DEF here, old
  <1>4. CASE here \notin D
    <2>1. D \cap {here} = {}  BY <1>4
    <2> QED BY <1>2, <1>4, <2>1
  <1> QED BY <1>2, <1>3, <1>4

\* The loops go on to the next doubtful block: all before it are those before
\* the block they leave, and that block itself.
LEMMA AdvanceCounts ==
  ASSUME TypeOK, opts.repair,
         NEW page \in 0 .. MaxPages, NEW block \in 0 .. MaxBoxes,
         NEW b, b.page = page, b.block = block, Advance(b),
         NEW D, D \ {<<page, block>>} = DoubtfulBlocks \ {<<page, block>>},
         D \subseteq (1 .. n) \X (1 .. MaxBoxes)
  PROVE  \/ /\ cur' = NoBlock /\ phase' = "finalize"
            /\ D = Before(D, page, block) \cup (D \cap {<<page, block>>})
         \/ /\ phase' = phase
            /\ <<cur'.page, cur'.block>> \in D
            /\ Before(D, cur'.page, cur'.block)
                 = Before(D, page, block) \cup (D \cap {<<page, block>>})
  <1> DEFINE here == <<page, block>>
             rest == After(page, block)
  <1>0. n \in Nat /\ MaxBoxes \in Nat /\ page \in Nat /\ block \in Nat
    BY HybridAssumption DEF TypeOK
  <1>1. ASSUME NEW x \in 1 .. n, NEW y \in 1 .. MaxBoxes,
               x > page \/ (x = page /\ y > block)
        PROVE  <<x, y>> \in D <=>
                 [page |-> x, block |-> y, attempt |-> 1] \in rest
    <2>1. <<x, y>> # here  BY <1>0, <1>1
    <2>2. <<x, y>> \in D <=> <<x, y>> \in DoubtfulBlocks  BY <2>1
    <2>3. <<x, y>> \in DoubtfulBlocks <=>
            y \in DOMAIN doc[x] /\ Doubtful(doc[x][y].text)
      BY DEF DoubtfulBlocks
    <2>4. [page |-> x, block |-> y, attempt |-> 1] \in rest <=>
            y \in DOMAIN doc[x] /\ Doubtful(doc[x][y].text)
      BY <1>1 DEF After
    <2> QED BY <2>2, <2>3, <2>4
  <1>2. ASSUME NEW d \in D
        PROVE  /\ d = <<d[1], d[2]>> /\ d[1] \in 1 .. n /\ d[2] \in 1 .. MaxBoxes
               /\ \/ d \in Before(D, page, block) /\ d # here
                  \/ d = here /\ d \notin Before(D, page, block)
                  \/ /\ d[1] > page \/ (d[1] = page /\ d[2] > block)
                     /\ d # here /\ d \notin Before(D, page, block)
    <2>1. d = <<d[1], d[2]>> /\ d[1] \in 1 .. n /\ d[2] \in 1 .. MaxBoxes
      OBVIOUS
    <2>2. PICK x \in Nat, y \in Nat : x = d[1] /\ y = d[2]
      BY <1>0, <2>1
    <2>3. d = here <=> x = page /\ y = block
      BY <2>1, <2>2
    <2>4. d \in Before(D, page, block) <=> x < page \/ (x = page /\ y < block)
      BY <2>2 DEF Before
    <2> QED BY <1>0, <2>1, <2>2, <2>3, <2>4
  <1>3. \/ rest = {} /\ cur' = NoBlock /\ phase' = "finalize"
        \/ /\ cur' \in rest /\ phase' = phase
           /\ \A c \in rest : \/ cur'.page < c.page
                              \/ cur'.page = c.page /\ cur'.block <= c.block
    BY DEF Advance, IsEarliest
  <1>4. CASE rest = {} /\ cur' = NoBlock /\ phase' = "finalize"
    <2>1. ASSUME NEW d \in D PROVE d \in Before(D, page, block) \/ d = here
      BY <1>1, <1>2, <1>4
    <2>2. Before(D, page, block) \subseteq D  BY DEF Before
    <2> QED BY <1>4, <2>1, <2>2
  <1>5. CASE /\ cur' \in rest /\ phase' = phase
             /\ \A c \in rest : \/ cur'.page < c.page
                                \/ cur'.page = c.page /\ cur'.block <= c.block
    <2>1. PICK x \in 1 .. n, y \in 1 .. MaxBoxes :
            /\ cur' = [page |-> x, block |-> y, attempt |-> 1]
            /\ x > page \/ (x = page /\ y > block)
      BY <1>5 DEF After
    <2>2. <<x, y>> \in D
      BY <1>1, <1>5, <2>1
    <2>3. x \in Nat /\ y \in Nat /\ cur'.page = x /\ cur'.block = y
      BY <1>0, <2>1
    <2>4. ASSUME NEW d \in D
          PROVE  d \in Before(D, x, y) <=> d \in Before(D, page, block) \/ d = here
      <3>1. PICK v \in 1 .. n, w \in 1 .. MaxBoxes : v = d[1] /\ w = d[2] /\ d = <<v, w>>
        BY <1>2
      <3>2. v \in Nat /\ w \in Nat  BY <1>0
      <3>3. d \in Before(D, x, y) <=> v < x \/ (v = x /\ w < y)
        BY <3>1 DEF Before
      <3>4. d \in Before(D, page, block) <=> v < page \/ (v = page /\ w < block)
        BY <3>1 DEF Before
      <3>5. d = here <=> v = page /\ w = block
        BY <3>1
      <3>6. CASE v > page \/ (v = page /\ w > block)
        <4>1. [page |-> v, block |-> w, attempt |-> 1] \in rest
          BY <1>1, <3>1, <3>6
        <4>2. x < v \/ (x = v /\ y <= w)
          BY <1>5, <2>3, <4>1
        <4> QED BY <1>0, <2>3, <3>2, <3>3, <3>4, <3>5, <3>6, <4>2
      <3>7. CASE ~(v > page \/ (v = page /\ w > block))
        BY <1>0, <2>1, <2>3, <3>2, <3>3, <3>4, <3>5, <3>7
      <3> QED BY <3>6, <3>7
    <2>5. Before(D, x, y) \subseteq D /\ Before(D, page, block) \subseteq D
      BY DEF Before
    <2>6. Before(D, x, y) = Before(D, page, block) \cup (D \cap {here})
      BY <2>4, <2>5
    <2> QED BY <1>5, <2>2, <2>3, <2>6
  <1> QED BY <1>3, <1>4, <1>5

\* Blocks with another text are blocks.
LEMMA SetTextShape ==
  ASSUME NEW b, IsBlock(b), NEW text
  PROVE  IsBlock([b EXCEPT !.text = text]) /\ [b EXCEPT !.text = text].text = text
  <1>1. PICK box, old : b = [box |-> box, text |-> old]
    BY DEF IsBlock
  <1>2. [b EXCEPT !.text = text] = [box |-> box, text |-> text]
    BY <1>1
  <1> QED BY <1>2 DEF IsBlock

\* A text of one block is replaced, and nothing else.
LEMMA EditShape ==
  ASSUME NEW d, Shaped(d), NEW p \in Pages, NEW i, NEW text,
         NEW e, e = [d EXCEPT ![p][i].text = text]
  PROVE  /\ Shaped(e)
         /\ \A q \in Pages : DOMAIN e[q] = DOMAIN d[q]
         /\ \A q \in Pages : \A j \in DOMAIN d[q] :
              (q # p \/ j # i) => e[q][j] = d[q][j]
  <1> DEFINE page == [d[p] EXCEPT ![i] = [d[p][i] EXCEPT !.text = text]]
  <1>1. DOMAIN d = Pages /\ \A q \in Pages : \A j \in DOMAIN d[q] : IsBlock(d[q][j])
    BY DEF Shaped
  <1>2. /\ DOMAIN e = Pages /\ e[p] = page
        /\ \A q \in Pages : q # p => e[q] = d[q]
    BY <1>1
  <1>3. /\ DOMAIN page = DOMAIN d[p]
        /\ \A j \in DOMAIN d[p] : j # i => page[j] = d[p][j]
        /\ i \in DOMAIN d[p] => page[i] = [d[p][i] EXCEPT !.text = text]
    OBVIOUS
  <1>4. i \in DOMAIN d[p] => IsBlock(page[i])
    BY <1>1, <1>3, SetTextShape
  <1> HIDE DEF page
  <1>5. \A q \in Pages : DOMAIN e[q] = DOMAIN d[q]
    BY <1>2, <1>3
  <1>6. \A q \in Pages : \A j \in DOMAIN d[q] :
          (q # p \/ j # i) => e[q][j] = d[q][j]
    BY <1>2, <1>3
  <1>7. \A q \in Pages : \A j \in DOMAIN e[q] : IsBlock(e[q][j])
    BY <1>1, <1>2, <1>3, <1>4
  <1> QED BY <1>2, <1>5, <1>6, <1>7 DEF Shaped

\* The aligner returns pages of blocks.
LEMMA AlignmentShape ==
  ASSUME NEW blocks, \A i \in DOMAIN blocks : IsBlock(blocks[i]),
         NEW lines, NEW page \in Alignments(blocks, lines)
  PROVE  \A i \in DOMAIN page : IsBlock(page[i])
  <1>1. CASE page = WholePage(lines)
    <2> DEFINE b == [box |-> FullPage, text |-> Joined(lines, DOMAIN lines)]
    <2>1. page = <<b>> /\ IsBlock(b)
      BY <1>1 DEF WholePage, IsBlock
    <2> HIDE DEF b
    <2> QED BY <2>1
  <1>2. ASSUME NEW placement, page = Placed(blocks, lines, placement)
        PROVE  \A i \in DOMAIN page : IsBlock(page[i])
    <2>1. /\ DOMAIN page = DOMAIN blocks
          /\ \A i \in DOMAIN blocks :
               \E text : page[i] = [blocks[i] EXCEPT !.text = text]
      BY <1>2 DEF Placed, SetText
    <2> QED BY SMTT(30), <2>1, SetTextShape
  <1> QED BY <1>1, <1>2 DEF Alignments

\* Up to the merge, pages stay sequences of blocks.
LEMMA ShapeStep == TypeOK /\ ShapeInv /\ [Next]_vars => ShapeInv'
<1> SUFFICES ASSUME TypeOK, ShapeInv, [Next]_vars PROVE ShapeInv'
  OBVIOUS
<1> DEFINE Kept == /\ UNCHANGED <<doc, ready>>
                   /\ phase \in {"write", "ended"}
                        => phase' \in {"write", "ended"}
<1>0. Kept => ShapeInv'
  BY DEF ShapeInv, Shaped
<1>1. CASE \/ Convert \/ EnterDetection \/ PreparationFails \/ DecodeFails
           \/ LeaveGroup
  <2>1. Kept
    BY <1>1 DEF Convert, EnterDetection, PreparationFails, DecodeFails,
                LeaveGroup, InGroup, End, group
  <2> QED BY <1>0, <2>1
<1>2. ASSUME NEW t \in Tasks,
             Acquire(t) \/ ReadCrop(t) \/ CircuitOpens(t) \/ Notice(t) \/ Resume(t)
      PROVE  ShapeInv'
  <2>1. UNCHANGED <<doc, ready, phase>>
    BY <1>2, Zenon DEF Acquire, ReadCrop, CircuitOpens, Notice, Resume
  <2> QED BY <1>0, <2>1
<1>3. CASE (\E p \in Pages : OpenDense(p)) \/ Emitted
  <2>1. UNCHANGED <<doc, ready, phase>>
    BY <1>3 DEF OpenDense, Emitted
  <2> QED BY <1>0, <2>1
<1>4. CASE Detect
  <2>1. PICK found \in [1 .. n -> UNION {Layouts[p] : p \in Pages}] :
          doc' = [p \in Pages |-> IF p <= n THEN Detected(found[p]) ELSE <<>>]
    BY <1>4 DEF Detect
  <2>2. \A layout : \A i \in DOMAIN Detected(layout) : IsBlock(Detected(layout)[i])
    BY DEF Detected, IsBlock
  <2>3. Shaped(doc')
    BY <2>1, <2>2 DEF Shaped
  <2>4. Shaped(ready')
    BY <1>4 DEF Detect, ShapeInv, Shaped
  <2> QED BY <2>3, <2>4 DEF ShapeInv
<1>5. ASSUME NEW p \in Pages, ReadPage(p) PROVE ShapeInv'
  <2>1. /\ phase = "ocr" /\ UNCHANGED <<doc, phase>>
        /\ \E page : /\ ready' = [ready EXCEPT ![p] = page]
                     /\ page = doc[p] \/ \E lines : page \in Alignments(doc[p], lines)
    BY <1>5 DEF ReadPage
  <2>2. Shaped(doc) /\ Shaped(ready)
    BY <2>1 DEF ShapeInv
  <2>3. PICK page : /\ ready' = [ready EXCEPT ![p] = page]
                    /\ page = doc[p] \/ \E lines : page \in Alignments(doc[p], lines)
    BY <2>1
  <2>4. \A i \in DOMAIN page : IsBlock(page[i])
    BY <2>2, <2>3, AlignmentShape DEF Shaped
  <2> QED BY <2>1, <2>2, <2>3, <2>4 DEF ShapeInv, Shaped
<1>6. ASSUME NEW p \in Pages, PageFails(p) PROVE ShapeInv'
  BY <1>6 DEF PageFails, ShapeInv, Shaped
<1>7. ASSUME NEW p \in Pages, CloseDense(p) PROVE ShapeInv'
  <2>1. /\ phase = "ocr" /\ UNCHANGED <<doc, phase>>
        /\ \/ UNCHANGED ready
           \/ ready' = [ready EXCEPT ![p] =
                [i \in DOMAIN doc[p] |-> SetText(doc[p][i], crop[<<p, i>>])]]
    BY <1>7 DEF CloseDense
  <2>2. Shaped(doc) /\ Shaped(ready)
    BY <2>1 DEF ShapeInv
  <2> DEFINE page == [i \in DOMAIN doc[p] |-> SetText(doc[p][i], crop[<<p, i>>])]
  <2>3. \A i \in DOMAIN page : IsBlock(page[i])
    BY <2>2, SetTextShape DEF Shaped, SetText
  <2>4. ready' = ready \/ ready' = [ready EXCEPT ![p] = page]
    BY <2>1
  <2> HIDE DEF page
  <2>5. Shaped(ready')
    BY <2>2, <2>3, <2>4 DEF Shaped
  <2> QED BY <2>1, <2>2, <2>5 DEF ShapeInv
<1>8. ASSUME NEW t \in Tasks, Collect(t) PROVE ShapeInv'
  <2>1. InGroup /\ doc' = Stored(t) /\ UNCHANGED <<ready, phase>>
    BY <1>8 DEF Collect
  <2>2. Shaped(doc) /\ Shaped(ready)
    BY <2>1 DEF ShapeInv, InGroup
  <2>3. CASE phase = "ocr"
    BY <2>1, <2>2, <2>3 DEF Stored, ShapeInv, Shaped
  <2>4. CASE phase # "ocr"
    <3>1. doc' = [doc EXCEPT ![PageOf(t)][BoxOf(t)].text = crop[t]]
      BY <2>1, <2>4 DEF Stored
    <3>2. Shaped(doc')
      BY <2>2, <3>1, TasksAre, EditShape
    <3> QED BY <2>1, <2>2, <3>2 DEF ShapeInv, Shaped
  <2> QED BY <2>3, <2>4
<1>9. CASE FinishOcr
  <2>1. /\ phase = "ocr" /\ doc' = doc /\ ready' = [p \in Pages |-> <<>>]
    BY <1>9 DEF FinishOcr
  <2> QED BY <2>1 DEF ShapeInv, Shaped
<1>10. CASE FinishRefine
  <2>1. phase = "refine" /\ UNCHANGED ready
    BY <1>10 DEF FinishRefine
  <2>2. Shaped(doc) /\ Shaped(ready)
    BY <2>1 DEF ShapeInv
  <2>3. \A blocks, refined :
          (\A i \in DOMAIN blocks : IsBlock(blocks[i])) =>
            \A i \in DOMAIN DropRefinedDuplicates(blocks, refined) :
              IsBlock(DropRefinedDuplicates(blocks, refined)[i])
    <3> SUFFICES ASSUME NEW blocks, NEW refined,
                        \A i \in DOMAIN blocks : IsBlock(blocks[i]),
                        NEW i \in DOMAIN DropRefinedDuplicates(blocks, refined)
                 PROVE  IsBlock(DropRefinedDuplicates(blocks, refined)[i])
      OBVIOUS
    <3>1. /\ i \in DOMAIN blocks
          /\ DropRefinedDuplicates(blocks, refined)[i]
               \in {blocks[i], [blocks[i] EXCEPT !.text = <<>>]}
      BY DEF DropRefinedDuplicates, SetText
    <3>2. IsBlock(blocks[i]) /\ IsBlock([blocks[i] EXCEPT !.text = <<>>])
      BY <3>1, SetTextShape
    <3> QED BY <3>1, <3>2
  <2>4. \E refined : doc' = [p \in Pages |-> DropRefinedDuplicates(doc[p], refined[p])]
    <3> DEFINE refined == [p \in Pages |-> {i \in DOMAIN doc[p] : <<p, i>> \in RunTasks}]
    <3>1. doc' = [p \in Pages |-> DropRefinedDuplicates(doc[p], refined[p])]
      BY <1>10 DEF FinishRefine
    <3> HIDE DEF refined
    <3> QED BY <3>1
  <2>5. Shaped(doc')
    BY <2>2, <2>3, <2>4 DEF Shaped
  <2> QED BY <2>1, <2>2, <2>5 DEF ShapeInv, Shaped
<1>11. CASE StartRepair \/ RepairFails \/ RepairAborts
  <2>1. phase = "repair" /\ UNCHANGED <<doc, ready>>
    BY <1>11 DEF StartRepair, RepairFails, RepairAborts, group
  <2> QED BY <1>0, <2>1
<1>12. CASE RepairReads
  <2>1. /\ phase = "repair" /\ UNCHANGED ready
        /\ UNCHANGED doc
           \/ \E text : doc' = [doc EXCEPT ![cur.page][cur.block].text = text]
    BY <1>12 DEF RepairReads, group
  <2>2. Shaped(doc) /\ Shaped(ready)
    BY <2>1 DEF ShapeInv
  <2>3. Shaped(doc')
    <3>1. CASE cur.page \in Pages
      <4>1. ASSUME NEW text,
                   doc' = [doc EXCEPT ![cur.page][cur.block].text = text]
            PROVE  Shaped(doc')
        BY <2>2, <3>1, <4>1, EditShape
      <4>2. doc' = doc => Shaped(doc')
        BY <2>2
      <4> QED BY <2>1, <4>1, <4>2
    <3>2. CASE cur.page \notin Pages
      BY <2>1, <2>2, <3>2 DEF Shaped
    <3> QED BY <3>1, <3>2
  <2> QED BY <2>1, <2>2, <2>3 DEF ShapeInv, Shaped
<1>13. CASE Finalize \/ Write
  BY <1>13 DEF Finalize, Write, End, ShapeInv
<1>14. CASE Cancel \/ Interrupt \/ UNCHANGED vars
  <2>1. Kept
    BY <1>14 DEF Cancel, Interrupt, End, InGroup, group, vars
  <2> QED BY <1>0, <2>1
<1> QED
  BY <1>1, <1>2, <1>3, <1>4, <1>5, <1>6, <1>7, <1>8, <1>9, <1>10, <1>11,
     <1>12, <1>13, <1>14
  DEF Next, Run, GroupStep, PageStep, TaskStep, BodyStep, RepairStep, PhaseStep

\* What a step that leaves the count alone keeps.
LEMMA CountRest ==
  ASSUME RepairInv, UNCHANGED <<opts, below, cur>>,
         \/ phase' \in {"write", "ended"}
         \/ /\ phase \in {"convert", "detect", "detecting", "ocr", "refine"}
            /\ phase' \in {"convert", "detect", "detecting", "ocr", "refine"}
         \/ UNCHANGED <<phase, n, doc>>
  PROVE  RepairInv'
  <1>1. CASE phase' \in {"write", "ended"}
    BY <1>1 DEF RepairInv, RepairAccounts
  <1>2. CASE /\ phase \in {"convert", "detect", "detecting", "ocr", "refine"}
             /\ phase' \in {"convert", "detect", "detecting", "ocr", "refine"}
    BY <1>2 DEF RepairInv, RepairAccounts
  <1>3. CASE UNCHANGED <<phase, n, doc>>
    <2>1. DoubtfulBlocks' = DoubtfulBlocks
      BY <1>3 DEF DoubtfulBlocks
    <2> QED BY <1>3, <2>1 DEF RepairInv, RepairAccounts, NoBlock
  <1> QED BY <1>1, <1>2, <1>3

\* The phase begins with no block behind it.
LEMMA CountStarts ==
  ASSUME TypeOK, phase' = "repair", n' = n, below' = 0, cur' = NoBlock
  PROVE  RepairInv'
  <1>1. DoubtfulBlocks' \subseteq (1 .. n) \X (1 .. MaxBoxes)
    BY DEF DoubtfulBlocks
  <1>2. \A x \in 1 .. n : ~(x < 0) /\ x # 0
    BY DEF TypeOK
  <1>3. Before(DoubtfulBlocks', 0, 0) = {}
    BY <1>1, <1>2 DEF Before
  <1>4. Cardinality(Before(DoubtfulBlocks', 0, 0)) = 0
    BY <1>3, FS_EmptySet
  <1>5. cur'.page = 0 /\ cur'.block = 0
    BY DEF NoBlock
  <1> QED BY <1>4, <1>5 DEF RepairInv, RepairAccounts, NoBlock

\* The loops leave the block at hand, and count it if it is still doubtful.
LEMMA CountGoesOn ==
  ASSUME TypeOK, RepairInv, phase = "repair", opts.repair,
         UNCHANGED <<opts, n>>, Advance(cur),
         DoubtfulBlocks' \ {<<cur.page, cur.block>>} =
           DoubtfulBlocks \ {<<cur.page, cur.block>>},
         below' = IF <<cur.page, cur.block>> \in DoubtfulBlocks'
                    THEN below + 1 ELSE below
  PROVE  RepairInv'
  <1>1. PICK page \in 0 .. MaxPages, block \in 0 .. MaxBoxes :
          cur.page = page /\ cur.block = block
    BY DEF TypeOK
  <1>2. page \in Nat /\ block \in Nat
    BY HybridAssumption
  <1> DEFINE here == <<page, block>>
  <1>3. PICK D : D = DoubtfulBlocks'
    OBVIOUS
  <1>4. PICK old : old = Before(D, page, block)
    OBVIOUS
  <1>5. /\ D \subseteq (1 .. n) \X (1 .. MaxBoxes)
        /\ D \ {here} = DoubtfulBlocks \ {here}
    BY <1>1, <1>3 DEF DoubtfulBlocks
  <1>6. old = Before(DoubtfulBlocks, page, block)
    <2>1. here[1] = page /\ here[2] = block /\ ~(page < page) /\ ~(block < block)
      BY <1>2
    <2>2. here \notin old /\ here \notin Before(DoubtfulBlocks, page, block)
      BY <1>4, <2>1 DEF Before
    <2> QED BY <1>4, <1>5, <2>2 DEF Before
  <1>7. below = Cardinality(old)
    BY <1>1, <1>6 DEF RepairInv
  <1>8. below' = Cardinality(old \cup (D \cap {here}))
    <2>1. IsFiniteSet(D)
      BY <1>5, BlocksAreFinite
    <2>2. /\ here \in D =>
               Cardinality(old \cup (D \cap {here})) = Cardinality(old) + 1
          /\ here \notin D =>
               Cardinality(old \cup (D \cap {here})) = Cardinality(old)
      BY <1>2, <1>4, <2>1, OneMoreBlock
    <2>3. below' = IF here \in D THEN below + 1 ELSE below
      BY <1>1, <1>3
    <2> QED BY <1>7, <2>2, <2>3
  <1>9. \/ /\ cur' = NoBlock /\ phase' = "finalize"
           /\ D = old \cup (D \cap {here})
        \/ /\ phase' = phase
           /\ <<cur'.page, cur'.block>> \in D
           /\ Before(D, cur'.page, cur'.block) = old \cup (D \cap {here})
    BY <1>1, <1>4, <1>5, AdvanceCounts
  <1>10. CASE /\ cur' = NoBlock /\ phase' = "finalize"
              /\ D = old \cup (D \cap {here})
    BY <1>3, <1>8, <1>10 DEF RepairInv, RepairAccounts
  <1>11. CASE /\ phase' = phase
              /\ <<cur'.page, cur'.block>> \in D
              /\ Before(D, cur'.page, cur'.block) = old \cup (D \cap {here})
    <2>1. below' = Cardinality(Before(DoubtfulBlocks', cur'.page, cur'.block))
      BY <1>3, <1>8, <1>11
    <2>2. <<cur'.page, cur'.block>> \in DoubtfulBlocks'
      BY <1>3, <1>11
    <2> QED BY <1>11, <2>1, <2>2 DEF RepairInv, RepairAccounts
  <1> QED BY <1>9, <1>10, <1>11

\* A run that does not repair passes the phase by.
LEMMA NoRepair ==
  ASSUME phase = "repair", ~opts.repair, UNCHANGED opts,
         phase' \in {"repair", "finalize"}
  PROVE  RepairInv'
  BY DEF RepairInv, RepairAccounts

\* The text of the block at hand is replaced: that block alone may stop being
\* doubtful.
LEMMA BetterText ==
  ASSUME TypeOK, Shaped(doc), n' = n,
         <<cur.page, cur.block>> \in DoubtfulBlocks,
         NEW text, text # <<>>,
         doc' = [doc EXCEPT ![cur.page][cur.block].text = text]
  PROVE  /\ DoubtfulBlocks' \ {<<cur.page, cur.block>>} =
              DoubtfulBlocks \ {<<cur.page, cur.block>>}
         /\ <<cur.page, cur.block>> \in DoubtfulBlocks'
              <=> Confidence(text) < Target
  <1>1. PICK page \in 1 .. n, block \in 1 .. MaxBoxes :
          /\ cur.page = page /\ cur.block = block
          /\ block \in DOMAIN doc[page]
    <2>1. PICK b \in DoubtfulBlocks : b = <<cur.page, cur.block>>
      OBVIOUS
    <2>2. b[1] = cur.page /\ b[2] = cur.block
      BY <2>1
    <2>3. /\ b[1] \in 1 .. n /\ b[2] \in 1 .. MaxBoxes
          /\ b[2] \in DOMAIN doc[b[1]]
      BY DEF DoubtfulBlocks
    <2> QED BY <2>2, <2>3
  <1>2. page \in Pages /\ \A p \in 1 .. n : p \in Pages
    BY HybridAssumption DEF TypeOK, Pages
  <1>3. /\ \A q \in Pages : DOMAIN doc'[q] = DOMAIN doc[q]
        /\ \A q \in Pages : \A j \in DOMAIN doc[q] :
             (q # page \/ j # block) => doc'[q][j] = doc[q][j]
        /\ doc'[page][block].text = text
    <2>1. doc' = [doc EXCEPT ![page][block].text = text]
      BY <1>1
    <2>2. /\ \A q \in Pages : DOMAIN doc'[q] = DOMAIN doc[q]
          /\ \A q \in Pages : \A j \in DOMAIN doc[q] :
               (q # page \/ j # block) => doc'[q][j] = doc[q][j]
      BY <1>2, <2>1, EditShape
    <2>3. block \in DOMAIN doc[page] => doc'[page][block].text = text
      <3> SUFFICES ASSUME block \in DOMAIN doc[page]
                   PROVE  doc'[page][block].text = text
        OBVIOUS
      <3>1. doc'[page][block] = [doc[page][block] EXCEPT !.text = text]
        BY <1>2, <2>1 DEF Shaped
      <3>2. IsBlock(doc[page][block])
        BY <1>2 DEF Shaped
      <3>3. [doc[page][block] EXCEPT !.text = text].text = text
        BY <3>2, SetTextShape
      <3> QED BY <3>1, <3>3
    <2> QED BY <1>1, <2>2, <2>3
  <1>4. <<page, block>> \in DoubtfulBlocks' <=> Confidence(text) < Target
    BY <1>1, <1>2, <1>3 DEF DoubtfulBlocks, Doubtful
  <1>5. ASSUME NEW x \in 1 .. n, NEW y \in 1 .. MaxBoxes, <<x, y>> # <<page, block>>
        PROVE  <<x, y>> \in DoubtfulBlocks' <=> <<x, y>> \in DoubtfulBlocks
    <2>1. x # page \/ y # block
      BY <1>5
    <2>2. /\ DOMAIN doc'[x] = DOMAIN doc[x]
          /\ y \in DOMAIN doc[x] => doc'[x][y] = doc[x][y]
      BY <1>2, <1>3, <2>1
    <2> QED BY <2>2 DEF DoubtfulBlocks
  <1>6. /\ DoubtfulBlocks \subseteq (1 .. n) \X (1 .. MaxBoxes)
        /\ DoubtfulBlocks' \subseteq (1 .. n) \X (1 .. MaxBoxes)
    BY DEF DoubtfulBlocks
  <1>7. DoubtfulBlocks' \ {<<page, block>>} = DoubtfulBlocks \ {<<page, block>>}
    BY <1>5, <1>6
  <1> QED BY <1>1, <1>4, <1>7

\* Every step keeps the count.
LEMMA CountStep == TypeOK /\ ShapeInv /\ RepairInv /\ [Next]_vars => RepairInv'
<1> SUFFICES ASSUME TypeOK, ShapeInv, RepairInv, [Next]_vars PROVE RepairInv'
  OBVIOUS
<1>1. CASE \/ Convert \/ EnterDetection \/ Detect \/ PreparationFails
           \/ DecodeFails \/ Emitted \/ LeaveGroup \/ RepairAborts \/ Finalize \/ Write \/ Cancel
           \/ UNCHANGED vars
  <2>1. UNCHANGED <<opts, below, cur>>
    BY <1>1
    DEF Convert, EnterDetection, Detect, PreparationFails, DecodeFails, Emitted,
        LeaveGroup, RepairAborts, Finalize, Write, Cancel, vars
  <2>2. \/ phase' \in {"write", "ended"}
        \/ /\ phase \in {"convert", "detect", "detecting", "ocr", "refine"}
           /\ phase' \in {"convert", "detect", "detecting", "ocr", "refine"}
        \/ UNCHANGED <<phase, n, doc>>
    BY <1>1
    DEF Convert, EnterDetection, Detect, PreparationFails, DecodeFails, Emitted,
        LeaveGroup, RepairAborts, Finalize, Write, Cancel, End, vars
  <2> QED BY <2>1, <2>2, CountRest
<1>2. ASSUME NEW t \in Tasks, \/ Acquire(t) \/ ReadCrop(t) \/ CircuitOpens(t)
                              \/ Notice(t) \/ Resume(t)
      PROVE  RepairInv'
  <2>1. UNCHANGED <<opts, below, cur, phase, n, doc>>
    BY <1>2, Zenon DEF Acquire, ReadCrop, CircuitOpens, Notice, Resume
  <2> QED BY <2>1, CountRest
<1>3. ASSUME NEW p \in Pages,
             OpenDense(p) \/ ReadPage(p) \/ PageFails(p) \/ CloseDense(p)
      PROVE  RepairInv'
  <2>1. UNCHANGED <<opts, below, cur, phase, n, doc>>
    BY <1>3, Zenon DEF OpenDense, ReadPage, PageFails, CloseDense
  <2> QED BY <2>1, CountRest
<1>4. ASSUME NEW t \in Tasks, Collect(t) PROVE RepairInv'
  <2>1. phase \in {"ocr", "refine"} /\ UNCHANGED <<opts, below, cur, phase>>
    BY <1>4 DEF Collect, InGroup
  <2> QED BY <2>1, CountRest
<1>5. CASE Interrupt
  <2>1. UNCHANGED <<opts, below, cur, n, doc>>
        /\ (phase' = "ended" \/ phase' = phase)
    BY <1>5 DEF Interrupt, End
  <2> QED BY <2>1, CountRest
<1>6. CASE FinishOcr
  <2>1. /\ phase = "ocr" /\ cur' = NoBlock /\ UNCHANGED <<opts, below, n>>
        /\ phase' \in {"refine", "repair"}
    BY <1>6 DEF FinishOcr
  <2>2. below = 0 /\ cur = NoBlock
    BY <2>1 DEF RepairInv
  <2>3. CASE phase' = "refine"
    BY <2>1, <2>2, <2>3, CountRest
  <2>4. CASE phase' = "repair"
    BY <2>1, <2>2, <2>4, CountStarts
  <2> QED BY <2>1, <2>3, <2>4
<1>7. CASE FinishRefine
  <2>1. phase = "refine" /\ phase' = "repair" /\ UNCHANGED <<below, n, cur>>
    BY <1>7 DEF FinishRefine
  <2>2. below = 0 /\ cur = NoBlock
    BY <2>1 DEF RepairInv
  <2> QED BY <2>1, <2>2, CountStarts
<1>8. CASE StartRepair
  <2>1. /\ phase = "repair" /\ cur = NoBlock /\ Advance(cur)
        /\ UNCHANGED <<opts, n, doc, below>>
    BY <1>8 DEF StartRepair
  <2>2. CASE ~opts.repair
    BY <2>1, <2>2, AdvanceFacts, NoRepair
  <2>3. CASE opts.repair
    <3>1. DoubtfulBlocks' = DoubtfulBlocks
      BY <2>1 DEF DoubtfulBlocks
    <3>2. <<cur.page, cur.block>> \notin DoubtfulBlocks
      BY <2>1 DEF DoubtfulBlocks, NoBlock
    <3> QED BY <2>1, <2>3, <3>1, <3>2, CountGoesOn
  <2> QED BY <2>2, <2>3
\* A block that is given up is still doubtful.
<1>9. ASSUME phase = "repair", cur # NoBlock, Advance(cur), below' = below + 1,
             UNCHANGED <<opts, n, doc>>
      PROVE  RepairInv'
  <2>1. CASE ~opts.repair
    BY <1>9, <2>1, AdvanceFacts, NoRepair
  <2>2. CASE opts.repair
    <3>1. DoubtfulBlocks' = DoubtfulBlocks
      BY <1>9 DEF DoubtfulBlocks
    <3>2. <<cur.page, cur.block>> \in DoubtfulBlocks
      BY <1>9, <2>2 DEF RepairInv
    <3> QED BY <1>9, <2>2, <3>1, <3>2, CountGoesOn
  <2> QED BY <2>1, <2>2
<1>10. CASE RepairFails
  BY <1>9, <1>10 DEF RepairFails
\* A better reading is kept; it is tried again, or left behind and counted.
<1>11. CASE RepairReads
  <2>1. PICK text \in Crops \cup {<<>>} :
          LET old == Confidence(doc[cur.page][cur.block].text)
              new == Confidence(text)
          IN  IF new <= old
                THEN /\ Advance(cur) /\ below' = below + 1
                     /\ UNCHANGED doc
                ELSE /\ doc' = [doc EXCEPT ![cur.page][cur.block].text = text]
                     /\ IF new >= Target \/ cur.attempt = MaxRetries
                          THEN /\ Advance(cur)
                               /\ below' = IF new < Target THEN below + 1 ELSE below
                          ELSE /\ cur' = [cur EXCEPT !.attempt = @ + 1]
                               /\ UNCHANGED <<phase, below>>
    BY <1>11 DEF RepairReads
  <2>2. phase = "repair" /\ cur # NoBlock /\ UNCHANGED <<opts, n>>
    BY <1>11 DEF RepairReads
  <2>3. PICK old, new : /\ old = Confidence(doc[cur.page][cur.block].text)
                        /\ new = Confidence(text)
    OBVIOUS
  <2>4. old \in 0 .. WellFormed /\ new \in 0 .. WellFormed /\ Target \in Nat
    BY <2>3, ConfidenceFacts, HybridAssumption
  <2>5. CASE new <= old
    BY <1>9, <2>1, <2>2, <2>3, <2>5
  <2>6. CASE ~(new <= old)
    <3>1. doc' = [doc EXCEPT ![cur.page][cur.block].text = text]
      BY <2>1, <2>3, <2>6
    <3>2. text # <<>>
      <4>1. new # 0
        BY <2>4, <2>6 DEF WellFormed
      <4> QED BY <2>3, <4>1, ConfidenceFacts
    <3>3. CASE ~opts.repair
      <4>1. phase' \in {"repair", "finalize"}
        BY <2>1, <2>2, AdvanceFacts
      <4> QED BY <2>2, <3>3, <4>1, NoRepair
    <3>4. CASE opts.repair
      <4>1. <<cur.page, cur.block>> \in DoubtfulBlocks
        BY <2>2, <3>4 DEF RepairInv
      <4>2. Shaped(doc)
        BY <2>2 DEF ShapeInv
      <4>3. /\ DoubtfulBlocks' \ {<<cur.page, cur.block>>} =
                 DoubtfulBlocks \ {<<cur.page, cur.block>>}
            /\ <<cur.page, cur.block>> \in DoubtfulBlocks' <=> new < Target
        BY <2>2, <2>3, <3>1, <3>2, <4>1, <4>2, BetterText
      <4>4. CASE new >= Target \/ cur.attempt = MaxRetries
        <5>1. /\ Advance(cur)
              /\ below' = IF new < Target THEN below + 1 ELSE below
          BY <2>1, <2>3, <2>6, <4>4
        <5> QED BY <2>2, <3>4, <4>3, <5>1, CountGoesOn
      <4>5. CASE ~(new >= Target \/ cur.attempt = MaxRetries)
        <5>1. /\ cur' = [cur EXCEPT !.attempt = @ + 1]
              /\ UNCHANGED <<phase, below>>
          BY <2>1, <2>3, <2>6, <4>5
        <5>2. cur'.page = cur.page /\ cur'.block = cur.block
          BY <5>1 DEF TypeOK
        <5>3. <<cur.page, cur.block>> \in DoubtfulBlocks'
          BY <2>4, <4>3, <4>5
        <5>4. PICK page, block : page = cur.page /\ block = cur.block
          OBVIOUS
        <5>5. /\ Before(DoubtfulBlocks', page, block)
                   \subseteq Before(DoubtfulBlocks, page, block)
              /\ Before(DoubtfulBlocks, page, block)
                   \subseteq Before(DoubtfulBlocks', page, block)
          <6>1. page \in Nat /\ block \in Nat
            BY <5>4, HybridAssumption DEF TypeOK
          <6>2. ~(page < page) /\ ~(block < block)
            BY <6>1
          <6>3. \A D : <<page, block>> \notin Before(D, page, block)
            BY <6>2 DEF Before
          <6> QED BY <4>3, <5>4, <6>3 DEF Before
        <5>6. below' = Cardinality(Before(DoubtfulBlocks', cur'.page, cur'.block))
          <6>1. Before(DoubtfulBlocks', page, block) = Before(DoubtfulBlocks, page, block)
            BY <5>5
          <6>2. below = Cardinality(Before(DoubtfulBlocks, page, block))
            BY <2>2, <3>4, <5>4 DEF RepairInv
          <6>3. cur'.page = page /\ cur'.block = block
            BY <5>2, <5>4
          <6> QED BY <5>1, <6>1, <6>2, <6>3
        <5>7. phase' = "repair" /\ <<cur'.page, cur'.block>> \in DoubtfulBlocks'
          BY <2>2, <5>1, <5>2, <5>3
        <5>8. phase' # "finalize"
          BY <5>7
        <5> HIDE DEF Before
        <5> QED BY <5>6, <5>7, <5>8 DEF RepairInv, RepairAccounts
      <4> QED BY <4>4, <4>5
    <3> QED BY <3>3, <3>4
  <2> QED BY <2>5, <2>6
<1> QED
  BY <1>1, <1>2, <1>3, <1>4, <1>5, <1>6, <1>7, <1>8, <1>10, <1>11
  DEF Next, Run, GroupStep, PageStep, TaskStep, BodyStep, RepairStep, PhaseStep

\* For any number of pages, boxes and attempts, and whatever the model reads or
\* fails to read: when the repair is over, the blocks it reports as below the
\* target are as many as the document holds.
THEOREM RepairCountIsRight == Spec => []RepairAccounts
<1>1. Init => ShapeInv /\ RepairInv
  <2> SUFFICES ASSUME Init PROVE ShapeInv /\ RepairInv
    OBVIOUS
  <2>1. Shaped(doc) /\ Shaped(ready)
    BY DEF Init, Shaped
  <2>2. RepairInv
    BY DEF Init, RepairInv, RepairAccounts
  <2> QED BY <2>1, <2>2 DEF ShapeInv
<1>2. RepairInv => RepairAccounts
  BY DEF RepairInv
<1> QED BY <1>1, <1>2, ShapeStep, CountStep, HybridType, PTL DEF Spec

-----------------------------------------------------------------------------
(* Lines in texts.                                                         *)

\* A text holds itself and nothing, and what it holds is held by any text it
\* is a part of.
LEMMA SubSeqFacts ==
  ASSUME NEW s \in Seq(Words)
  PROVE  /\ s \in SubSeqs(s)
         /\ <<>> \in SubSeqs(s)
         /\ SubSeqs(s) \subseteq Seq(Words)
         /\ \A t \in Seq(Words) : SubSeqs(s) \subseteq SubSeqs(s \o t)
         /\ \A t \in Seq(Words) : SubSeqs(s) \subseteq SubSeqs(t \o s)
  <1> DEFINE size == Len(s)
  <1>1. size \in Nat /\ s \in [1 .. size -> Words]
    BY LenProperties
  <1>2. SubSeq(s, 0 + 1, size) = s /\ SubSeq(s, 0 + 1, 0) = <<>>
    BY SubSeqFull, SubSeqEmpty
  <1>3. 0 \in 0 .. size /\ size \in 0 .. size
    BY <1>1
  <1>4. s \in SubSeqs(s) /\ <<>> \in SubSeqs(s)
    BY <1>2, <1>3 DEF SubSeqs
  <1>5. ASSUME NEW i \in 0 .. size, NEW j \in 0 .. size
        PROVE  /\ SubSeq(s, i + 1, j) \in Seq(Words)
               /\ Len(SubSeq(s, i + 1, j)) = IF i + 1 <= j THEN j - i ELSE 0
               /\ \A k \in 1 .. j - i : SubSeq(s, i + 1, j)[k] = s[i + k]
    <2>1. i + 1 \in Int /\ j \in Int /\ \A k \in i + 1 .. j : s[k] \in Words
      BY <1>1
    <2> DEFINE m == i + 1
    <2>2. /\ SubSeq(s, m, j) \in Seq(Words)
          /\ Len(SubSeq(s, m, j)) = IF m <= j THEN j - m + 1 ELSE 0
          /\ \A k \in 1 .. j - m + 1 : SubSeq(s, m, j)[k] = s[m + k - 1]
      <3> HIDE DEF m
      <3> QED BY <2>1, SubSeqProperties DEF m
    <2> QED BY <2>2, <1>1
  <1>6. SubSeqs(s) \subseteq Seq(Words)
    <2>1. ASSUME NEW x \in SubSeqs(s) PROVE x \in Seq(Words)
      <3>1. PICK i \in 0 .. size, j \in 0 .. size : x = SubSeq(s, i + 1, j)
        BY DEF SubSeqs
      <3> QED BY <1>5, <3>1
    <2> QED BY <2>1
  <1>7. ASSUME NEW t \in Seq(Words), NEW x \in SubSeqs(s)
        PROVE  x \in SubSeqs(s \o t) /\ x \in SubSeqs(t \o s)
    <2> DEFINE u == s \o t  v == t \o s  m == Len(t)
    <2>1. m \in Nat
      BY LenProperties
    <2>2. /\ u \in Seq(Words) /\ Len(u) = size + m
          /\ \A k \in 1 .. size : u[k] = s[k]
      BY ConcatProperties, <1>1, <2>1
    <2>3. /\ v \in Seq(Words) /\ Len(v) = size + m
          /\ \A k \in 1 .. size : v[m + k] = s[k]
      BY ConcatProperties, <1>1, <2>1
    <2>4. PICK i \in 0 .. size, j \in 0 .. size : x = SubSeq(s, i + 1, j)
      BY DEF SubSeqs
    <2> HIDE DEF u, v, size, m
    <2>5. CASE j <= i
      <3>1. j < i + 1 /\ j \in Int /\ i + 1 \in Int
        BY <2>5, <1>1
      <3>2. x = <<>>
        BY <2>4, <3>1, SubSeqEmpty
      <3>3. \A w : SubSeq(w, 0 + 1, 0) = <<>>
        BY SubSeqEmpty
      <3>4. 0 \in 0 .. Len(u) /\ 0 \in 0 .. Len(v)
        BY <1>1, <2>1, <2>2, <2>3
      <3>5. x \in SubSeqs(u) /\ x \in SubSeqs(v)
        BY <3>2, <3>3, <3>4 DEF SubSeqs
      <3> QED BY <3>5 DEF u, v
    <2>6. CASE i < j
      <3>1. /\ x \in Seq(Words) /\ Len(x) = j - i
            /\ \A k \in 1 .. j - i : x[k] = s[i + k]
        BY <1>5, <2>4, <2>6, <1>1
      <3>2. /\ i + 1 \in 1 .. Len(u) /\ j \in 1 .. Len(u)
            /\ \A k \in i + 1 .. j : u[k] \in Words
        BY <2>2, <2>6, <1>1, <2>1
      <3>3. /\ SubSeq(u, i + 1, j) \in Seq(Words)
            /\ Len(SubSeq(u, i + 1, j)) = j - i
            /\ \A k \in 1 .. j - i : SubSeq(u, i + 1, j)[k] = u[i + k]
        <4> DEFINE a == i + 1
        <4>1. /\ SubSeq(u, a, j) \in Seq(Words)
              /\ Len(SubSeq(u, a, j)) = IF a <= j THEN j - a + 1 ELSE 0
              /\ \A k \in 1 .. j - a + 1 : SubSeq(u, a, j)[k] = u[a + k - 1]
          <5>1. a \in Int /\ j \in Int /\ \A k \in a .. j : u[k] \in Words
            BY <3>2
          <5> HIDE DEF a
          <5> QED BY <5>1, SubSeqProperties
        <4> QED BY <4>1, <2>6
      <3>4. \A k \in 1 .. Len(x) : x[k] = SubSeq(u, i + 1, j)[k]
        <4> SUFFICES ASSUME NEW k \in 1 .. Len(x) PROVE x[k] = SubSeq(u, i + 1, j)[k]
          OBVIOUS
        <4>1. k \in 1 .. j - i /\ i + k \in 1 .. size
          BY <3>1, <1>1
        <4> QED BY <4>1, <3>1, <3>3, <2>2
      <3>5. x = SubSeq(u, i + 1, j)
        BY <3>1, <3>3, <3>4, SeqEqual
      <3>6. i \in 0 .. Len(u) /\ j \in 0 .. Len(u)
        BY <2>2, <1>1, <2>1
      <3>7. x \in SubSeqs(u)
        BY <3>5, <3>6 DEF SubSeqs
      <3> DEFINE a == m + i  b == m + j
      <3>8. /\ a \in 0 .. Len(v) /\ b \in 0 .. Len(v)
            /\ a + 1 \in 1 .. Len(v) /\ b \in 1 .. Len(v) /\ b - a = j - i
            /\ \A k \in 1 .. j - i : a + k = m + (i + k)
        BY <2>3, <2>6, <1>1, <2>1
      <3>9. /\ SubSeq(v, a + 1, b) \in Seq(Words)
            /\ Len(SubSeq(v, a + 1, b)) = j - i
            /\ \A k \in 1 .. j - i : SubSeq(v, a + 1, b)[k] = v[a + k]
        <4> DEFINE c == a + 1
        <4>1. /\ SubSeq(v, c, b) \in Seq(Words)
              /\ Len(SubSeq(v, c, b)) = IF c <= b THEN b - c + 1 ELSE 0
              /\ \A k \in 1 .. b - c + 1 : SubSeq(v, c, b)[k] = v[c + k - 1]
          <5>1. c \in Int /\ b \in Int /\ \A k \in c .. b : v[k] \in Words
            <6>1. v \in [1 .. Len(v) -> Words]
              BY <2>3, LenProperties
            <6>2. c \in 1 .. Len(v) /\ b \in 1 .. Len(v) /\ Len(v) \in Nat
              BY <3>8, <2>3, LenProperties
            <6> HIDE DEF a, b, c
            <6> QED BY SMTT(20), <6>1, <6>2
          <5> HIDE DEF a, b, c
          <5> QED BY <5>1, SubSeqProperties
        <4>2. c <= b /\ b - c + 1 = j - i
          BY <3>8, <2>6, <1>1, <2>1
        <4>3. \A k \in 1 .. j - i : c + k - 1 = a + k
          BY <1>1, <2>1
        <4> HIDE DEF a, b
        <4> QED BY <4>1, <4>2, <4>3
      <3>10. \A k \in 1 .. Len(x) : x[k] = SubSeq(v, a + 1, b)[k]
        <4> SUFFICES ASSUME NEW k \in 1 .. Len(x) PROVE x[k] = SubSeq(v, a + 1, b)[k]
          OBVIOUS
        <4>1. k \in 1 .. j - i /\ i + k \in 1 .. size
          BY <3>1, <1>1
        <4> QED BY <4>1, <3>1, <3>8, <3>9, <2>3
      <3>11. x = SubSeq(v, a + 1, b)
        <4> HIDE DEF a, b
        <4> QED BY <3>1, <3>9, <3>10, SeqEqual
      <3>12. x \in SubSeqs(v)
        <4> HIDE DEF a, b
        <4> QED BY <3>8, <3>11 DEF SubSeqs
      <3> QED BY <3>7, <3>12 DEF u, v
    <2> QED BY <2>5, <2>6, <1>1
  <1> QED BY <1>4, <1>6, <1>7

\* Two intervals that are the same have the same length.
LEMMA SameInterval ==
  ASSUME NEW a \in Nat, NEW b \in Nat, 1 .. a = 1 .. b
  PROVE  a = b
  <1>1. CASE a < b
    <2>1. b \in 1 .. b /\ b \notin 1 .. a
      BY <1>1
    <2> QED BY <2>1
  <1>2. CASE b < a
    <2>1. a \in 1 .. a /\ a \notin 1 .. b
      BY <1>2
    <2> QED BY <2>1
  <1> QED BY <1>1, <1>2

\* The texts that are joined stand in the whole.
LEMMA Flattened ==
  ASSUME NEW seqs \in Seq(Seq(Words))
  PROVE  /\ FlattenSeq(seqs) \in Seq(Words)
         /\ \A k \in 1 .. Len(seqs) : seqs[k] \in SubSeqs(FlattenSeq(seqs))
  <1> DEFINE size == Len(seqs)
  <1>1. /\ size \in Nat /\ \A k \in 1 .. size : seqs[k] \in Seq(Words)
        /\ (seqs # <<>> => size # 0)
    <2>1. size \in Nat /\ \A k \in 1 .. size : seqs[k] \in Seq(Words)
      BY LenProperties
    <2>2. seqs # <<>> => size # 0
      <3> DEFINE S == Seq(Words)
      <3>1. seqs \in Seq(S)
        OBVIOUS
      <3>2. seqs # <<>> => Len(seqs) \in Nat \ {0}
        <4> HIDE DEF S
        <4> QED BY <3>1, EmptySeq
      <3> QED BY <3>2
    <2> QED BY <2>1, <2>2
  <1>2. CASE seqs = <<>>
    <2>1. FlattenSeq(seqs) = <<>>
      BY <1>2 DEF FlattenSeq
    <2>2. <<>> \in Seq(Words) /\ Len(seqs) = 0 /\ 1 .. 0 = {}
      BY <1>2, EmptySeq
    <2> QED BY <2>1, <2>2
  <1>3. CASE seqs # <<>>
    <2>1. 1 <= size
      BY <1>1, <1>3
    <2>2. PICK flatten :
            /\ FlattenSeq(seqs) = flatten[size]
            /\ flatten[1] = seqs[1]
            /\ \A i \in 2 .. size : flatten[i] = flatten[i - 1] \o seqs[i]
      BY <1>3, FlatteningRuns
    <2> DEFINE T == {i \in 1 .. size :
                      /\ flatten[i] \in Seq(Words)
                      /\ \A k \in 1 .. i : seqs[k] \in SubSeqs(flatten[i])}
    <2>3. 1 \in T
      <3>1. seqs[1] \in Seq(Words)
        BY <1>1, <2>1
      <3>2. \A k \in 1 .. 1 : k = 1
        OBVIOUS
      <3>3. flatten[1] = seqs[1] /\ seqs[1] \in SubSeqs(seqs[1])
        BY <2>2, <3>1, SubSeqFacts
      <3>4. 1 \in 1 .. size
        <4> HIDE DEF size
        <4> QED BY <1>1, <2>1
      <3>5. \A k \in 1 .. 1 : seqs[k] \in SubSeqs(flatten[1])
        BY <3>2, <3>3
      <3> QED BY <3>1, <3>3, <3>4, <3>5
    <2>4. ASSUME NEW i \in 1 + 1 .. size, i - 1 \in T PROVE i \in T
      <3>1. /\ i \in 2 .. size /\ i \in 1 .. size
            /\ \A k \in 1 .. i : k = i \/ k \in 1 .. i - 1
        <4> HIDE DEF size
        <4> QED BY <1>1
      <3> DEFINE a == flatten[i - 1]  b == seqs[i]
      <3>2. /\ a \in Seq(Words)
            /\ \A k \in 1 .. i - 1 : seqs[k] \in SubSeqs(a)
        BY <2>4
      <3>3. b \in Seq(Words) /\ flatten[i] = a \o b
        BY <1>1, <2>2, <3>1
      <3> HIDE DEF a, b
      <3>4. /\ a \o b \in Seq(Words)
            /\ b \in SubSeqs(a \o b) /\ SubSeqs(a) \subseteq SubSeqs(a \o b)
        BY <3>2, <3>3, SubSeqFacts, ConcatProperties
      <3>5. \A k \in 1 .. i : seqs[k] \in SubSeqs(a \o b)
        BY <3>1, <3>2, <3>4 DEF b
      <3> QED BY <3>1, <3>3, <3>4, <3>5
    <2>5. size \in T
      <3>1. 1 .. size \subseteq T
        <4> DEFINE one == 1
        <4>1. /\ one \in Nat /\ size \in Nat /\ one \in T
              /\ \A i \in one + 1 .. size : i - 1 \in T => i \in T
          BY <1>1, <2>3, <2>4
        <4>2. one .. size \subseteq T
          <5> HIDE DEF size, T, one
          <5> QED BY <4>1, Counting
        <4> QED BY <4>2
      <3> HIDE DEF T, size
      <3> QED BY <1>1, <2>1, <3>1
    <2> QED BY <2>2, <2>5
  <1> QED BY <1>2, <1>3

\* The lines of a box stand in its text.
LEMMA JoinedLines ==
  ASSUME NEW lines \in Seq(Seq(Words)), NEW chosen
  PROVE  /\ Joined(lines, chosen) \in Seq(Words)
         /\ \A k \in DOMAIN lines :
              k \in chosen => lines[k] \in SubSeqs(Joined(lines, chosen))
  <1> DEFINE seqs == [k \in DOMAIN lines |-> IF k \in chosen THEN lines[k] ELSE <<>>]
             size == Len(lines)
  <1>1. /\ size \in Nat /\ DOMAIN lines = 1 .. size
        /\ \A k \in 1 .. size : lines[k] \in Seq(Words)
    BY LenProperties
  <1>2. seqs \in [1 .. size -> Seq(Words)]
    <2>1. <<>> \in Seq(Words)
      BY EmptySeq
    <2> QED BY <1>1, <2>1
  <1>3. seqs \in Seq(Seq(Words)) /\ Len(seqs) = size
    <2>1. seqs \in Seq(Seq(Words))
      <3> HIDE DEF seqs, size
      <3> QED BY <1>1, <1>2, SeqDef
    <2>2. DOMAIN seqs = 1 .. Len(seqs) /\ Len(seqs) \in Nat
      <3> HIDE DEF seqs
      <3> QED BY <2>1, LenProperties
    <2>3. DOMAIN seqs = 1 .. size
      BY <1>2
    <2>4. 1 .. Len(seqs) = 1 .. size
      BY <2>2, <2>3
    <2> HIDE DEF seqs, size
    <2>5. Len(seqs) = size
      BY <1>1, <2>2, <2>4, SameInterval
    <2> QED BY <2>1, <2>5
  <1>4. Joined(lines, chosen) = FlattenSeq(seqs)
    BY DEF Joined
  <1>5. /\ FlattenSeq(seqs) \in Seq(Words)
        /\ \A k \in 1 .. size : seqs[k] \in SubSeqs(FlattenSeq(seqs))
    <2> HIDE DEF seqs
    <2> QED BY <1>3, Flattened
  <1>6. ASSUME NEW k \in DOMAIN lines, k \in chosen
        PROVE  lines[k] \in SubSeqs(Joined(lines, chosen))
    <2>1. seqs[k] = lines[k] /\ k \in 1 .. size
      BY <1>1, <1>6
    <2> HIDE DEF seqs
    <2> QED BY <1>4, <1>5, <2>1
  <1> QED BY <1>4, <1>5, <1>6

-----------------------------------------------------------------------------
(* Pages, and the lines they hold.                                         *)

\* Every line stands whole in a block of the page.
Holds(page, lines) ==
  \A line \in ToSet(lines) : \E i \in DOMAIN page : line \in SubSeqs(page[i].text)

\* Pages of at most MaxBoxes blocks.
PageType == {page \in Seq(Blocks(Boxes)) : Len(page) <= MaxBoxes}

\* Blocks with another text.
LEMMA BlockFacts ==
  ASSUME NEW b \in Blocks(Boxes), NEW text \in Seq(Words)
  PROVE  /\ SetText(b, text) \in Blocks(Boxes) /\ SetText(b, text).text = text
         /\ b.text \in Seq(Words)
         /\ [b EXCEPT !.text = text] = SetText(b, text)
  BY DEF Blocks, SetText

\* A page with other blocks in the places of its own is a page.
LEMMA PageFacts ==
  ASSUME NEW page \in PageType
  PROVE  /\ Len(page) \in Nat /\ DOMAIN page = 1 .. Len(page)
         /\ Len(page) <= MaxBoxes
         /\ \A i \in DOMAIN page : page[i] \in Blocks(Boxes)
         /\ \A new : (/\ DOMAIN new = DOMAIN page
                      /\ new = [i \in DOMAIN new |-> new[i]]
                      /\ \A i \in DOMAIN page : new[i] \in Blocks(Boxes))
                       => new \in PageType /\ Len(new) = Len(page)
  <1>1. /\ Len(page) \in Nat /\ DOMAIN page = 1 .. Len(page)
        /\ \A i \in DOMAIN page : page[i] \in Blocks(Boxes)
    BY LenProperties DEF PageType
  <1>2. ASSUME NEW new, DOMAIN new = DOMAIN page,
               new = [i \in DOMAIN new |-> new[i]],
               \A i \in DOMAIN page : new[i] \in Blocks(Boxes)
        PROVE  new \in PageType /\ Len(new) = Len(page)
    <2>1. new \in [1 .. Len(page) -> Blocks(Boxes)]
      BY <1>1, <1>2
    <2>2. new \in Seq(Blocks(Boxes))
      BY <1>1, <2>1, SeqDef
    <2>3. DOMAIN new = 1 .. Len(new) /\ Len(new) \in Nat
      BY <2>2, LenProperties
    <2>4. Len(new) = Len(page)
      <3>1. 1 .. Len(new) = 1 .. Len(page)
        BY <1>1, <1>2, <2>3
      <3> QED BY <1>1, <2>3, <3>1, SameInterval
    <2> QED BY <2>2, <2>4 DEF PageType
  <1>3. Len(page) <= MaxBoxes
    BY DEF PageType
  <1> QED BY <1>1, <1>2, <1>3

\* The aligner returns a page that holds the lines.
LEMMA AlignedPages ==
  ASSUME NEW blocks \in PageType, NEW lines \in Seq(Seq(Words)),
         NEW page \in Alignments(blocks, lines)
  PROVE  page \in PageType /\ Holds(page, lines)
  <1>0. ASSUME NEW line \in ToSet(lines)
        PROVE  \E k \in DOMAIN lines : line = lines[k]
    BY DEF ToSet
  <1>1. CASE page = WholePage(lines)
    <2> DEFINE text == Joined(lines, DOMAIN lines)
               b == [box |-> FullPage, text |-> text]
    <2>1. /\ text \in Seq(Words)
          /\ \A k \in DOMAIN lines : lines[k] \in SubSeqs(text)
      BY JoinedLines
    <2>2. b \in Blocks(Boxes) /\ b.text = text /\ page = <<b>>
      BY <1>1, <2>1, HybridAssumption DEF WholePage, Blocks
    <2> HIDE DEF b, text
    <2>3. page \in Seq(Blocks(Boxes)) /\ Len(page) = 1
      BY <2>2
    <2>4. page \in PageType /\ 1 \in DOMAIN page /\ page[1] = b
      BY <2>2, <2>3, HybridAssumption DEF PageType
    <2> QED BY <1>0, <2>1, <2>2, <2>4 DEF Holds
  <1>2. ASSUME NEW placement \in [DOMAIN lines -> DOMAIN blocks],
               page = Placed(blocks, lines, placement)
        PROVE  page \in PageType /\ Holds(page, lines)
    <2> DEFINE Of(i) == {k \in DOMAIN lines : placement[k] = i}
               Text(i) == Joined(lines, Of(i))
    <2>1. /\ \A i \in DOMAIN blocks : blocks[i] \in Blocks(Boxes)
          /\ DOMAIN page = DOMAIN blocks
          /\ page = [i \in DOMAIN page |-> page[i]]
          /\ \A i \in DOMAIN blocks : page[i] = SetText(blocks[i], Text(i))
      <3>1. \A i \in DOMAIN blocks : blocks[i] \in Blocks(Boxes)
        BY PageFacts
      <3>2. page = [i \in DOMAIN blocks |-> SetText(blocks[i], Text(i))]
        BY <1>2 DEF Placed
      <3> HIDE DEF Text
      <3> QED BY <3>1, <3>2
    <2>2. /\ \A i : Text(i) \in Seq(Words)
          /\ \A k \in DOMAIN lines : lines[k] \in SubSeqs(Text(placement[k]))
      BY JoinedLines
    <2> HIDE DEF Text
    <2>3. \A i \in DOMAIN blocks : /\ page[i] \in Blocks(Boxes)
                                   /\ page[i].text = Text(i)
      BY <2>1, <2>2, BlockFacts
    <2>4. page \in PageType
      BY <2>1, <2>3, PageFacts
    <2>5. ASSUME NEW line \in ToSet(lines)
          PROVE  \E i \in DOMAIN page : line \in SubSeqs(page[i].text)
      <3>1. PICK k \in DOMAIN lines : line = lines[k]
        BY <1>0
      <3>2. placement[k] \in DOMAIN page
        BY <2>1
      <3>3. line \in SubSeqs(page[placement[k]].text)
        BY <2>1, <2>2, <2>3, <3>1, <3>2
      <3> QED BY <3>2, <3>3
    <2> QED BY <2>4, <2>5 DEF Holds
  <1> QED BY <1>1, <1>2 DEF Alignments

\* Every line that was read stands in its page or a later one.
Standing(d) ==
  \A p \in 1 .. n : \A line \in ToSet(heard[p]) :
    \E q \in p .. n : \E i \in DOMAIN d[q] :
      line \in SubSeqs(d[q][i].text)

\* Documents.
DocType == [Pages -> PageType]

\* The first block with a text.
LEMMA FirstSpoken ==
  ASSUME NEW page \in PageType, Spoken(page) # {}
  PROVE  First(Spoken(page)) \in DOMAIN page
  <1>1. Spoken(page) \subseteq Nat
    BY PageFacts DEF Spoken
  <1>2. \E k \in Spoken(page) : \A l \in Spoken(page) : k <= l
    <2> DEFINE S == Spoken(page)
    <2> HIDE DEF S
    <2>1. S \subseteq Nat /\ S # {}
      BY <1>1 DEF S
    <2>2. \E k \in S : \A l \in S : k <= l
      BY <2>1, LeastElement
    <2> QED BY <2>2 DEF S
  <1>3. First(Spoken(page)) \in Spoken(page)
    BY <1>2 DEF First
  <1> QED BY <1>3 DEF Spoken

\* A block of a page is replaced.
LEMMA BlockReplaced ==
  ASSUME NEW page \in PageType, NEW i, NEW b \in Blocks(Boxes)
  PROVE  /\ [page EXCEPT ![i] = b] \in PageType
         /\ DOMAIN [page EXCEPT ![i] = b] = DOMAIN page
         /\ Len([page EXCEPT ![i] = b]) = Len(page)
         /\ i \in DOMAIN page => [page EXCEPT ![i] = b][i] = b
         /\ \A j \in DOMAIN page : j # i => [page EXCEPT ![i] = b][j] = page[j]
  <1> DEFINE new == [page EXCEPT ![i] = b]
  <1>1. /\ DOMAIN new = DOMAIN page
        /\ new = [j \in DOMAIN new |-> new[j]]
        /\ i \in DOMAIN page => new[i] = b
        /\ \A j \in DOMAIN page : j # i => new[j] = page[j]
    OBVIOUS
  <1> HIDE DEF new
  <1>2. \A j \in DOMAIN page : new[j] \in Blocks(Boxes)
    BY <1>1, PageFacts
  <1>3. new \in PageType /\ Len(new) = Len(page)
    BY <1>1, <1>2, PageFacts
  <1> QED BY <1>1, <1>3 DEF new

\* A sentence that is carried over the page break takes its lines with it.
LEMMA MergeKeeps ==
  ASSUME n \in 0 .. MaxPages, NEW d \in DocType, NEW i \in 1 .. n - 1
  PROVE  /\ MergePages(d, i) \in DocType
         /\ Standing(d) => Standing(MergePages(d, i))
  <1>0. n \in Nat /\ MaxPages \in Nat
    BY HybridAssumption
  <1> DEFINE
    next == i + 1
    last == Len(d[i])
    tail == d[i][last]
    k    == First(Spoken(d[next]))
    head == d[next][k]
    e    == MergePages(d, i)
  <1>1. CASE ~(Unfinished(d[i]) /\ Spoken(d[next]) # {})
    BY <1>1 DEF MergePages
  <1>2. CASE Unfinished(d[i]) /\ Spoken(d[next]) # {}
    <2>1. /\ i \in Pages /\ next \in Pages /\ i # next /\ next \in 1 .. n
          /\ i \in Nat
      BY <1>0 DEF Pages
    <2>2. d[i] \in PageType /\ d[next] \in PageType
      <3> HIDE DEF next
      <3> QED BY <2>1 DEF DocType
    <2>3. last \in DOMAIN d[i]
      <3>1. d[i] # <<>>
        BY <1>2 DEF Unfinished
      <3>2. Len(d[i]) \in Nat /\ DOMAIN d[i] = 1 .. Len(d[i])
        BY <2>2, PageFacts
      <3>3. Len(d[i]) # 0
        BY <2>2, <3>1, EmptySeq DEF PageType
      <3> QED BY <3>2, <3>3
    <2>4. k \in DOMAIN d[next]
      <3> HIDE DEF next
      <3> QED BY <1>2, <2>2, FirstSpoken
    <2>5. tail \in Blocks(Boxes) /\ head \in Blocks(Boxes)
      <3> HIDE DEF last, next, k
      <3> QED BY <2>2, <2>3, <2>4, PageFacts
    <2> DEFINE X == SetText(tail, <<>>)
               Y == SetText(head, tail.text \o head.text)
    <2>6. /\ X \in Blocks(Boxes) /\ X.text = <<>>
          /\ Y \in Blocks(Boxes) /\ Y.text = tail.text \o head.text
          /\ tail.text \in Seq(Words) /\ head.text \in Seq(Words)
      <3> HIDE DEF tail, head
      <3>1. tail.text \in Seq(Words) /\ head.text \in Seq(Words) /\ <<>> \in Seq(Words)
        BY <2>5, EmptySeq DEF Blocks
      <3>2. tail.text \o head.text \in Seq(Words)
        BY <3>1, ConcatProperties
      <3> QED BY <2>5, <3>1, <3>2, BlockFacts
    <2> DEFINE P == [d[i] EXCEPT ![last] = X]
               Q == [d[next] EXCEPT ![k] = Y]
    <2>7. /\ e[i] = P /\ e[next] = Q /\ DOMAIN e = Pages
          /\ \A q \in Pages : q # i /\ q # next => e[q] = d[q]
          /\ e = [q \in DOMAIN e |-> e[q]]
      <3>1. e = [d EXCEPT ![i][last] = X, ![next][k] = Y]
        BY <1>2 DEF MergePages
      <3> HIDE DEF e, X, Y, last, next, k
      <3>2. DOMAIN d = Pages
        BY DEF DocType
      <3> QED BY <2>1, <3>1, <3>2
    <2>8. /\ P \in PageType /\ DOMAIN P = DOMAIN d[i]
          /\ \A j \in DOMAIN d[i] : j # last => P[j] = d[i][j]
      <3> HIDE DEF X, last
      <3> QED BY <2>2, <2>6, BlockReplaced
    <2>9. /\ Q \in PageType /\ DOMAIN Q = DOMAIN d[next] /\ Q[k] = Y
          /\ \A j \in DOMAIN d[next] : j # k => Q[j] = d[next][j]
      <3> HIDE DEF Y, k, next
      <3> QED BY <2>2, <2>4, <2>6, BlockReplaced
    <2>10. e \in DocType
      <3>1. \A q \in Pages : e[q] \in PageType
        <4> HIDE DEF e, P, Q, next
        <4> QED BY <2>1, <2>7, <2>8, <2>9 DEF DocType
      <3> HIDE DEF e
      <3> QED BY <2>7, <3>1 DEF DocType
    <2>11. ASSUME Standing(d), NEW p \in 1 .. n, NEW line \in ToSet(heard[p])
           PROVE  \E q \in p .. n : \E j \in DOMAIN e[q] :
                    line \in SubSeqs(e[q][j].text)
      <3>0. PICK q \in p .. n :
              \E j \in DOMAIN d[q] : line \in SubSeqs(d[q][j].text)
        BY <2>11 DEF Standing
      <3>1. PICK j \in DOMAIN d[q] : line \in SubSeqs(d[q][j].text)
        BY <3>0
      <3>2. q \in Pages /\ (q = i => next \in p .. n)
        BY <1>0, <2>1 DEF Pages
      <3>3. SubSeqs(tail.text) \subseteq SubSeqs(Y.text)
            /\ SubSeqs(head.text) \subseteq SubSeqs(Y.text)
        <4> HIDE DEF tail, head, Y
        <4> QED BY <2>6, SubSeqFacts
      <3> HIDE DEF e, P, Q, X, Y, last, next, k
      <3>4. CASE q = i /\ j = last
        <4>1. k \in DOMAIN e[next] /\ e[next][k] = Y /\ next \in p .. n
          BY <2>4, <2>7, <2>9, <3>2, <3>4
        <4>2. line \in SubSeqs(e[next][k].text)
          BY <3>1, <3>3, <3>4, <4>1
        <4> QED BY <4>1, <4>2
      <3>5. CASE q = i /\ j # last
        <4>1. j \in DOMAIN e[q] /\ e[q][j] = d[q][j]
          BY <2>7, <2>8, <3>1, <3>5
        <4> QED BY <3>1, <4>1
      <3>6. CASE q = next /\ j = k
        <4>1. j \in DOMAIN e[q] /\ e[q][j] = Y
          BY <2>7, <2>9, <3>1, <3>6
        <4>2. line \in SubSeqs(e[q][j].text)
          BY <3>1, <3>3, <3>6, <4>1
        <4> QED BY <4>1, <4>2
      <3>7. CASE q = next /\ j # k
        <4>1. j \in DOMAIN e[q] /\ e[q][j] = d[q][j]
          BY <2>7, <2>9, <3>1, <3>7
        <4> QED BY <3>1, <4>1
      <3>8. CASE q # i /\ q # next
        <4>1. e[q] = d[q]
          BY <2>7, <3>2, <3>8
        <4> QED BY <3>1, <4>1
      <3> QED BY <3>4, <3>5, <3>6, <3>7, <3>8
    <2> QED BY <2>10, <2>11 DEF Standing
  <1> QED BY <1>1, <1>2

\* All page breaks, one after the other.
LEMMA CrossPageMergeKeeps ==
  ASSUME n \in 0 .. MaxPages, NEW d \in DocType
  PROVE  /\ CrossPageMerge(d, n) \in DocType
         /\ Standing(d) => Standing(CrossPageMerge(d, n))
  <1>1. CASE n = 0
    BY <1>1 DEF CrossPageMerge
  <1>2. CASE n # 0
    <2> DEFINE
      top == n - 1
      Step == [a \in DocType \X (1 .. top) |-> MergePages(a[1], a[2])]
      Rec(f) == f = [i \in 0 .. n - 1 |->
                       IF i = 0 THEN d ELSE MergePages(f[i - 1], i)]
      upTo == CHOOSE f : Rec(f)
      T == {i \in 0 .. top :
              /\ upTo[i] \in DocType
              /\ Standing(d) => Standing(upTo[i])}
    <2>1. n \in Nat /\ top \in Nat /\ 0 <= top
      BY <1>2, HybridAssumption
    <2>2. Step \in [DocType \X (1 .. top) -> DocType]
      <3>1. ASSUME NEW a \in DocType \X (1 .. top)
            PROVE  MergePages(a[1], a[2]) \in DocType
        <4>1. a[1] \in DocType /\ a[2] \in 1 .. n - 1
          OBVIOUS
        <4> QED BY <4>1, MergeKeeps
      <3> QED BY <3>1
    <2>3. PICK f \in [0 .. top -> DocType] : Runs(f, d, Step, 0, top)
      <3> DEFINE zero == 0  S == DocType
      <3>1. /\ zero \in Nat /\ top \in Nat /\ zero <= top /\ d \in S
            /\ Step \in [S \X (zero + 1 .. top) -> S]
        BY <2>1, <2>2
      <3>2. \E f \in [zero .. top -> S] : Runs(f, d, Step, zero, top)
        <4> HIDE DEF top, Step, zero, S
        <4> QED BY <3>1, Recursion
      <3> QED BY <3>2
    <2>4. Rec(f)
      <3>1. ASSUME NEW i \in 0 .. top
            PROVE  f[i] = IF i = 0 THEN d ELSE MergePages(f[i - 1], i)
        <4>1. CASE i = 0
          BY <2>3, <4>1 DEF Runs
        <4>2. CASE i # 0
          <5>1. i \in 0 + 1 .. top /\ i \in 1 .. top /\ i - 1 \in 0 .. top
            <6> HIDE DEF top
            <6> QED BY <2>1, <4>2
          <5>2. <<f[i - 1], i>> \in DocType \X (1 .. top)
            <6> HIDE DEF top
            <6> QED BY <2>3, <5>1
          <5>3. f[i] = Step[<<f[i - 1], i>>]
            <6> HIDE DEF Step, top
            <6> QED BY <2>3, <5>1 DEF Runs
          <5> QED BY <4>2, <5>2, <5>3
        <4> QED BY <4>1, <4>2
      <3> QED BY <2>3, <3>1
    <2>5. Rec(upTo)
      <3> HIDE DEF Rec
      <3> QED BY <2>4
    <2>6. CrossPageMerge(d, n) = upTo[top]
      BY <1>2 DEF CrossPageMerge
    <2>7. /\ upTo[0] = d
          /\ \A i \in 1 .. top : upTo[i] = MergePages(upTo[i - 1], i)
      <3>1. upTo = [i \in 0 .. top |->
                      IF i = 0 THEN d ELSE MergePages(upTo[i - 1], i)]
        BY <2>5
      <3>2. 0 \in 0 .. top /\ \A i \in 1 .. top : i \in 0 .. top /\ i # 0
        <4> HIDE DEF top
        <4> QED BY <2>1
      <3> HIDE DEF upTo, top
      <3> QED BY <3>1, <3>2
    <2> HIDE DEF upTo
    <2>8. 0 \in T
      <3> HIDE DEF top
      <3> QED BY <2>1, <2>7
    <2>9. ASSUME NEW i \in 0 + 1 .. top, i - 1 \in T PROVE i \in T
      <3> DEFINE a == upTo[i - 1]
      <3>1. a \in DocType /\ (Standing(d) => Standing(a))
        BY <2>9
      <3>2. i \in 1 .. top /\ i \in 0 .. top /\ i \in 1 .. n - 1
        BY <2>1
      <3>3. upTo[i] = MergePages(a, i)
        BY <2>7, <3>2
      <3> HIDE DEF a
      <3>4. upTo[i] \in DocType /\ (Standing(d) => Standing(upTo[i]))
        BY <3>1, <3>2, <3>3, MergeKeeps
      <3> QED BY <3>2, <3>4
    <2>10. top \in T
      <3>1. 0 .. top \subseteq T
        <4> DEFINE zero == 0
        <4>1. /\ zero \in Nat /\ top \in Nat /\ zero \in T
              /\ \A i \in zero + 1 .. top : i - 1 \in T => i \in T
          BY <2>1, <2>8, <2>9
        <4>2. zero .. top \subseteq T
          <5> HIDE DEF top, T, zero
          <5> QED BY <4>1, Counting
        <4> QED BY <4>2
      <3> HIDE DEF T, top
      <3> QED BY <2>1, <3>1
    <2> QED BY <2>6, <2>10
  <1> QED BY <1>1, <1>2

\* The pages, texts and readings of a run.
DocInv ==
  /\ doc \in DocType /\ ready \in DocType
  /\ crop \in [Tasks -> Seq(Words)]
  /\ heard \in [Pages -> Seq(Seq(Words))]

\* A page may have no blocks, and a text no words.
LEMMA EmptyPage == <<>> \in PageType /\ <<>> \in Seq(Words)
  <1>1. <<>> \in Seq(Blocks(Boxes)) /\ Len(<<>>) = 0 /\ <<>> \in Seq(Words)
    BY EmptySeq
  <1> QED BY <1>1, HybridAssumption DEF PageType

\* d and e differ at most in block i of page p.
SameBut(d, e, p, i) ==
  \A q \in Pages :
    /\ DOMAIN e[q] = DOMAIN d[q]
    /\ \A j \in DOMAIN d[q] : (q # p \/ j # i) => e[q][j] = d[q][j]

\* A text of one block is replaced, and nothing else; a place that is not
\* there changes nothing.
LEMMA EditPage ==
  ASSUME NEW d \in DocType, NEW p, NEW i, NEW text \in Seq(Words),
         NEW e, e = [d EXCEPT ![p][i].text = text]
  PROVE  e \in DocType /\ SameBut(d, e, p, i)
  <1>1. DOMAIN d = Pages /\ \A q \in Pages : d[q] \in PageType
    BY DEF DocType
  <1>2. CASE p \notin Pages
    <2>1. \A x : [d EXCEPT ![p] = x] = d
      BY <1>2 DEF DocType
    <2>2. e = d
      BY <2>1
    <2> QED BY <2>2 DEF SameBut
  <1>3. CASE p \in Pages /\ i \notin DOMAIN d[p]
    <2>1. [d[p] EXCEPT ![i] = [d[p][i] EXCEPT !.text = text]] = d[p]
      <3>1. d[p] = [j \in DOMAIN d[p] |-> d[p][j]]
        <4>1. d[p] \in Seq(Blocks(Boxes))
          BY <1>1, <1>3 DEF PageType
        <4>2. d[p] \in [1 .. Len(d[p]) -> Blocks(Boxes)]
          BY <4>1, LenProperties
        <4> QED BY <4>2
      <3> QED BY <1>3, <3>1
    <2>2. e = [d EXCEPT ![p] = d[p]]
      BY <2>1
    <2>3. e = d
      BY <1>1, <2>2 DEF DocType
    <2> QED BY <2>3 DEF SameBut
  <1>4. CASE p \in Pages /\ i \in DOMAIN d[p]
    <2> DEFINE b == [d[p][i] EXCEPT !.text = text]
               page == [d[p] EXCEPT ![i] = b]
    <2>1. b \in Blocks(Boxes)
      <3>1. d[p][i] \in Blocks(Boxes)
        BY <1>1, <1>4, PageFacts
      <3> QED BY <3>1 DEF Blocks
    <2>2. /\ page \in PageType /\ DOMAIN page = DOMAIN d[p]
          /\ \A j \in DOMAIN d[p] : j # i => page[j] = d[p][j]
      <3> HIDE DEF b
      <3> QED BY <1>1, <1>4, <2>1, BlockReplaced
    <2>3. e = [d EXCEPT ![p] = page]
      OBVIOUS
    <2> HIDE DEF page
    <2>4. /\ e[p] = page /\ DOMAIN e = Pages
          /\ \A q \in Pages : q # p => e[q] = d[q]
      BY <1>1, <1>4, <2>3
    <2>5. e \in DocType
      BY <1>1, <2>2, <2>3 DEF DocType
    <2> QED BY <2>2, <2>4, <2>5 DEF SameBut
  <1> QED BY <1>2, <1>3, <1>4

\* Duplicates are emptied among the refined blocks only.
LEMMA DroppedPage ==
  ASSUME NEW page \in PageType, NEW refined
  PROVE  LET new == DropRefinedDuplicates(page, refined)
         IN  /\ new \in PageType /\ DOMAIN new = DOMAIN page
             /\ \A i \in DOMAIN page : i \notin refined => new[i] = page[i]
  <1> DEFINE new == DropRefinedDuplicates(page, refined)
  <1>1. /\ DOMAIN new = DOMAIN page /\ new = [i \in DOMAIN new |-> new[i]]
        /\ \A i \in DOMAIN page : /\ new[i] \in {page[i], SetText(page[i], <<>>)}
                                  /\ i \notin refined => new[i] = page[i]
    BY DEF DropRefinedDuplicates
  <1> HIDE DEF new
  <1>2. \A i \in DOMAIN page : new[i] \in Blocks(Boxes)
    <2>1. ASSUME NEW i \in DOMAIN page PROVE new[i] \in Blocks(Boxes)
      <3>1. page[i] \in Blocks(Boxes)
        BY PageFacts
      <3>2. SetText(page[i], <<>>) \in Blocks(Boxes)
        BY <3>1, EmptyPage, BlockFacts
      <3> QED BY <1>1, <3>1, <3>2
    <2> QED BY <2>1
  <1>3. new \in PageType
    BY <1>1, <1>2, PageFacts
  <1> QED BY <1>1, <1>3 DEF new

\* What detection found, without texts.
LEMMA DetectedPage ==
  ASSUME NEW layout \in Seq(Boxes), Len(layout) <= MaxBoxes
  PROVE  Detected(layout) \in PageType
  <1> DEFINE new == Detected(layout)
  <1>1. /\ Len(layout) \in Nat /\ DOMAIN layout = 1 .. Len(layout)
        /\ \A i \in DOMAIN layout : layout[i] \in Boxes
    BY LenProperties
  <1>2. new \in [1 .. Len(layout) -> Blocks(Boxes)]
    BY <1>1, EmptyPage DEF Detected, Blocks
  <1> HIDE DEF new
  <1>3. new \in Seq(Blocks(Boxes))
    BY <1>1, <1>2, SeqDef
  <1>4. Len(new) \in Nat /\ 1 .. Len(new) = 1 .. Len(layout)
    BY <1>2, <1>3, LenProperties
  <1>5. Len(new) = Len(layout)
    BY <1>1, <1>4, SameInterval
  <1> QED BY <1>3, <1>5 DEF PageType, new

\* The texts of the boxes of a dense page.
LEMMA FilledPage ==
  ASSUME NEW page \in PageType, NEW p \in Pages,
         crop \in [Tasks -> Seq(Words)],
         NEW new, new = [i \in DOMAIN page |-> SetText(page[i], crop[<<p, i>>])]
  PROVE  new \in PageType
  <1>1. \A i \in DOMAIN page : <<p, i>> \in Tasks
    <2>1. \A i \in DOMAIN page : i \in 0 .. MaxBoxes
      BY PageFacts, HybridAssumption
    <2> QED BY <2>1 DEF Tasks
  <1>2. \A i \in DOMAIN page : new[i] \in Blocks(Boxes)
    BY <1>1, PageFacts, BlockFacts
  <1> QED BY <1>2, PageFacts

\* Every page, text and reading keeps its type.
LEMMA DocStep == TypeOK /\ DocInv /\ [Next]_vars => DocInv'
<1> SUFFICES ASSUME TypeOK, DocInv, [Next]_vars PROVE DocInv'
  OBVIOUS
<1>0. CASE UNCHANGED <<doc, ready, crop, heard>>
  BY <1>0 DEF DocInv
<1>1. CASE \/ Convert \/ EnterDetection \/ PreparationFails \/ DecodeFails
           \/ LeaveGroup \/ Emitted \/ StartRepair \/ RepairFails \/ RepairAborts \/ Write
           \/ Cancel \/ Interrupt \/ UNCHANGED vars
  <2>1. UNCHANGED <<doc, ready, crop, heard>>
    BY <1>1
    DEF Convert, EnterDetection, PreparationFails, DecodeFails, LeaveGroup,
        Emitted, StartRepair, RepairFails, RepairAborts, Write, Cancel, Interrupt,
        vars, group, history
  <2> QED BY <1>0, <2>1
<1>2. ASSUME NEW t \in Tasks, CircuitOpens(t) \/ Notice(t) \/ Resume(t)
      PROVE  DocInv'
  <2>1. UNCHANGED <<doc, ready, crop, heard>>
    BY <1>2, Zenon DEF CircuitOpens, Notice, Resume, history
  <2> QED BY <1>0, <2>1
<1>3. ASSUME NEW p \in Pages, OpenDense(p) PROVE DocInv'
  <2>1. UNCHANGED <<doc, ready, crop, heard>>
    BY <1>3 DEF OpenDense, history
  <2> QED BY <1>0, <2>1
<1>4. CASE Detect
  <2>1. PICK found \in [1 .. n -> UNION {Layouts[p] : p \in Pages}] :
          /\ \A p \in 1 .. n : found[p] \in Layouts[p]
          /\ doc' = [p \in Pages |-> IF p <= n THEN Detected(found[p]) ELSE <<>>]
    BY <1>4 DEF Detect
  <2>2. ASSUME NEW p \in Pages, p <= n PROVE Detected(found[p]) \in PageType
    <3>1. found[p] \in Layouts[p]
      BY <2>1, <2>2 DEF Pages, TypeOK
    <3>2. found[p] \in Seq(Boxes) /\ Len(found[p]) <= MaxBoxes
      BY <3>1, HybridAssumption
    <3> QED BY <3>2, DetectedPage
  <2>3. doc' \in DocType
    BY <2>1, <2>2, EmptyPage DEF DocType
  <2>4. UNCHANGED <<ready, crop, heard>>
    BY <1>4 DEF Detect, history
  <2> QED BY <2>3, <2>4 DEF DocInv
<1>5. ASSUME NEW t \in Tasks, Acquire(t) PROVE DocInv'
  <2>1. UNCHANGED <<doc, ready, heard>>
        /\ (UNCHANGED crop \/ crop' = [crop EXCEPT ![t] = <<>>])
    BY <1>5 DEF Acquire, history
  <2> QED BY <2>1, EmptyPage DEF DocInv
<1>6. ASSUME NEW t \in Tasks, ReadCrop(t) PROVE DocInv'
  <2>1. /\ UNCHANGED <<doc, ready, heard>>
        /\ \E text \in Crops \cup {<<>>} : crop' = [crop EXCEPT ![t] = text]
    BY <1>6 DEF ReadCrop, history
  <2>2. \A text \in Crops \cup {<<>>} : text \in Seq(Words)
    BY EmptyPage, HybridAssumption
  <2> QED BY <2>1, <2>2 DEF DocInv
<1>7. ASSUME NEW p \in Pages, ReadPage(p) PROVE DocInv'
  <2>1. PICK lines \in Readings :
          /\ heard' = [heard EXCEPT ![p] = lines]
          /\ IF lines = <<>>
               THEN ready' = [ready EXCEPT ![p] = doc[p]]
               ELSE \E page \in Alignments(doc[p], lines) :
                      ready' = [ready EXCEPT ![p] = page]
    BY <1>7 DEF ReadPage
  <2>2. UNCHANGED <<doc, crop>>
    BY <1>7 DEF ReadPage
  <2>3. lines \in Seq(Seq(Words)) /\ doc[p] \in PageType
    BY HybridAssumption DEF DocInv, DocType
  <2>4. \E page \in PageType : ready' = [ready EXCEPT ![p] = page]
    BY <2>1, <2>3, AlignedPages
  <2> QED BY <2>1, <2>2, <2>3, <2>4 DEF DocInv, DocType
<1>8. ASSUME NEW p \in Pages, PageFails(p) PROVE DocInv'
  <2>1. UNCHANGED <<doc, crop, heard>> /\ ready' = [ready EXCEPT ![p] = doc[p]]
    BY <1>8 DEF PageFails
  <2> QED BY <2>1 DEF DocInv, DocType
<1>9. ASSUME NEW p \in Pages, CloseDense(p) PROVE DocInv'
  <2> DEFINE page == [i \in DOMAIN doc[p] |-> SetText(doc[p][i], crop[<<p, i>>])]
  <2>1. /\ UNCHANGED <<doc, crop, heard>>
        /\ ready' = ready \/ ready' = [ready EXCEPT ![p] = page]
    BY <1>9 DEF CloseDense, history
  <2>2. page \in PageType
    BY FilledPage DEF DocInv, DocType
  <2> HIDE DEF page
  <2> QED BY <2>1, <2>2 DEF DocInv, DocType
<1>10. ASSUME NEW t \in Tasks, Collect(t) PROVE DocInv'
  <2>1. doc' = Stored(t) /\ UNCHANGED <<ready, crop, heard>>
    BY <1>10 DEF Collect, history
  <2>2. CASE phase = "ocr"
    BY <2>1, <2>2, TasksAre DEF Stored, DocInv, DocType
  <2>3. CASE phase # "ocr"
    <3>1. doc' = [doc EXCEPT ![PageOf(t)][BoxOf(t)].text = crop[t]]
      BY <2>1, <2>3 DEF Stored
    <3>2. crop[t] \in Seq(Words) /\ doc \in DocType
      BY DEF DocInv
    <3>3. doc' \in DocType
      BY <3>1, <3>2, EditPage
    <3> QED BY <2>1, <3>3 DEF DocInv
  <2> QED BY <2>2, <2>3
<1>11. CASE FinishOcr
  <2>1. /\ UNCHANGED <<doc, heard>>
        /\ ready' = [p \in Pages |-> <<>>] /\ crop' = [t \in Tasks |-> <<>>]
    BY <1>11 DEF FinishOcr, history
  <2> QED BY <2>1, EmptyPage DEF DocInv, DocType
<1>12. CASE FinishRefine
  <2> DEFINE refined == [p \in Pages |-> {i \in DOMAIN doc[p] : <<p, i>> \in RunTasks}]
  <2>1. /\ UNCHANGED <<ready, heard>>
        /\ doc' = [p \in Pages |-> DropRefinedDuplicates(doc[p], refined[p])]
        /\ crop' = [t \in Tasks |-> <<>>]
    BY <1>12 DEF FinishRefine, history
  <2> HIDE DEF refined
  <2>2. doc' \in DocType
    BY <2>1, DroppedPage DEF DocInv, DocType
  <2> QED BY <2>1, <2>2, EmptyPage DEF DocInv
<1>13. CASE RepairReads
  <2>1. /\ UNCHANGED <<ready, crop, heard>>
        /\ \/ UNCHANGED doc
           \/ \E text \in Crops \cup {<<>>} :
                doc' = [doc EXCEPT ![cur.page][cur.block].text = text]
    BY <1>13 DEF RepairReads, group, history
  <2>2. \A text \in Crops \cup {<<>>} : text \in Seq(Words)
    BY EmptyPage, HybridAssumption
  <2>3. doc' \in DocType
    <3>1. doc \in DocType
      BY DEF DocInv
    <3>2. ASSUME NEW text \in Seq(Words),
                 doc' = [doc EXCEPT ![cur.page][cur.block].text = text]
          PROVE  doc' \in DocType
      BY <3>1, <3>2, EditPage
    <3> QED BY <2>1, <2>2, <3>1, <3>2
  <2> QED BY <2>1, <2>3 DEF DocInv
<1>14. CASE Finalize
  <2>1. /\ UNCHANGED <<ready, crop, heard>>
        /\ UNCHANGED doc \/ doc' = CrossPageMerge(doc, n)
    BY <1>14 DEF Finalize, group, history
  <2>2. n \in 0 .. MaxPages
    BY DEF TypeOK
  <2>3. doc' \in DocType
    BY <2>1, <2>2, CrossPageMergeKeeps DEF DocInv
  <2> QED BY <2>1, <2>3 DEF DocInv
<1> QED
  BY <1>1, <1>2, <1>3, <1>4, <1>5, <1>6, <1>7, <1>8, <1>9, <1>10, <1>11,
     <1>12, <1>13, <1>14
  DEF Next, Run, GroupStep, PageStep, TaskStep, BodyStep, RepairStep, PhaseStep

\* A line stands where no refined text will take its place.
Spared(p, line) ==
  \E i \in DOMAIN doc[p] : /\ line \in SubSeqs(doc[p][i].text)
                           /\ line = <<>> \/ <<p, i>> \notin RunTasks

\* Where the lines are that were read: with the result of the page until it
\* is stored; then in the document, in a box that is not refined, and at the
\* end in the page or, moved by the merge, in a later one.
LinesInv ==
  /\ phase \in {"convert", "detect", "detecting"} =>
       \A p \in Pages : heard[p] = <<>>
  /\ phase = "ocr" =>
       \A p \in Pages : heard[p] # <<>> =>
         /\ task[<<p, 0>>] = "ok"
         /\ Holds(ready[p], heard[p])
         /\ <<p, 0>> \in collected => doc[p] = ready[p]
  /\ phase = "refine" =>
       \A p \in Pages : \A line \in ToSet(heard[p]) : Spared(p, line)
  /\ ~opts.repair =>
       /\ phase \in {"repair", "finalize"} =>
            \A p \in Pages : Holds(doc[p], heard[p])
       /\ phase = "repair" => cur = NoBlock
       /\ phase = "write" \/ outcome = "done" => Standing(doc)

\* A step inside the open group that stores nothing.
LEMMA LinesRest ==
  ASSUME TypeOK, LinesInv, StopInv, InGroup,
         UNCHANGED <<phase, doc, ready, collected, outcome, heard>>,
         \A p \in Pages : task[<<p, 0>>] = "ok" => task'[<<p, 0>>] = "ok",
         phase = "refine" =>
           \A t \in Tasks : task'[t] # "none" => task[t] # "none"
  PROVE  LinesInv'
  <1>1. phase = "refine" => RunTasks' \subseteq RunTasks
    BY DEF RunTasks
  <1>2. phase = "refine" =>
          \A p \in Pages : \A line \in ToSet(heard[p]) : Spared(p, line)'
    BY <1>1 DEF LinesInv, Spared
  <1>3. outcome' # "done" /\ phase' \in {"ocr", "refine"}
    BY DEF StopInv, InGroup
  <1>4. phase = "ocr" =>
          \A p \in Pages : heard'[p] # <<>> =>
            /\ task'[<<p, 0>>] = "ok"
            /\ Holds(ready'[p], heard'[p])
            /\ <<p, 0>> \in collected' => doc'[p] = ready'[p]
    BY DEF LinesInv
  <1> QED BY <1>2, <1>3, <1>4 DEF LinesInv

\* A step outside the groups, or to the end, that leaves the document alone.
LEMMA LinesDone ==
  ASSUME LinesInv, StopInv, UNCHANGED <<n, opts, doc, heard>>,
         \/ phase' = "ended" /\ (outcome' = "done" => phase = "write")
         \/ UNCHANGED <<phase, outcome, task, ready, collected, cur>>
  PROVE  LinesInv'
  <1>1. Standing(doc)' = Standing(doc)
    BY DEF Standing
  <1>2. CASE phase' = "ended" /\ (outcome' = "done" => phase = "write")
    BY <1>1, <1>2 DEF LinesInv
  <1>3. CASE UNCHANGED <<phase, outcome, task, ready, collected, cur>>
    <2>1. phase = "refine" =>
            \A p \in Pages : \A line \in ToSet(heard[p]) : Spared(p, line)'
      BY <1>3 DEF LinesInv, Spared, RunTasks
    <2>2. phase = "ocr" =>
            \A p \in Pages : heard'[p] # <<>> =>
              /\ task'[<<p, 0>>] = "ok"
              /\ Holds(ready'[p], heard'[p])
              /\ <<p, 0>> \in collected' => doc'[p] = ready'[p]
      BY <1>3 DEF LinesInv
    <2>3. ~opts'.repair /\ phase' \in {"repair", "finalize"} =>
            \A p \in Pages : Holds(doc'[p], heard'[p])
      BY <1>3 DEF LinesInv
    <2>4. phase' \in {"convert", "detect", "detecting"} =>
            \A p \in Pages : heard'[p] = <<>>
      BY <1>3 DEF LinesInv
    <2>5. ~opts'.repair /\ phase' = "repair" => cur' = NoBlock
      BY <1>3 DEF LinesInv, NoBlock
    <2>6. ~opts'.repair /\ (phase' = "write" \/ outcome' = "done") => Standing(doc)'
      BY <1>1, <1>3 DEF LinesInv
    <2> QED BY <1>3, <2>1, <2>2, <2>3, <2>4, <2>5, <2>6 DEF LinesInv
  <1> QED BY <1>2, <1>3

\* An empty text holds the empty line only.
LEMMA BlankHoldsNothing ==
  \A line \in SubSeqs(<<>>) : line = <<>>
  <1>1. SubSeqs(<<>>) = {SubSeq(<<>>, i + 1, j) : i \in 0 .. 0, j \in 0 .. 0}
    BY DEF SubSeqs
  <1>2. \A i \in 0 .. 0, j \in 0 .. 0 : SubSeq(<<>>, i + 1, j) = <<>>
    BY SubSeqEmpty
  <1> QED BY <1>1, <1>2

\* Every step keeps the lines.
LEMMA LinesStep ==
  TypeOK /\ StopInv /\ FailInv /\ RepairInv /\ DocInv /\ LinesInv /\ [Next]_vars
    => LinesInv'
<1> SUFFICES ASSUME TypeOK, StopInv, FailInv, RepairInv, DocInv, LinesInv, [Next]_vars
             PROVE  LinesInv'
  OBVIOUS
<1>0. /\ task \in [Tasks -> TaskStates]
      /\ doc \in DocType /\ ready \in DocType
      /\ heard \in [Pages -> Seq(Seq(Words))]
  BY DEF TypeOK, DocInv
<1>1. CASE Convert \/ EnterDetection
  <2>1. /\ phase \in {"convert", "detect"}
        /\ phase' \in {"detect", "detecting", "ended"}
        /\ UNCHANGED heard
        /\ outcome' # "done"
    BY <1>1 DEF Convert, EnterDetection, End, StopInv, history
  <2> QED BY <2>1 DEF LinesInv
<1>2. CASE Detect
  <2>1. phase = "detecting" /\ phase' = "ocr" /\ UNCHANGED <<heard, outcome>>
    BY <1>2 DEF Detect, history
  <2> QED BY <2>1 DEF LinesInv, StopInv
<1>3. CASE \/ PreparationFails \/ DecodeFails \/ LeaveGroup \/ RepairAborts
           \/ Write
  BY <1>3, EscapeFacts, LinesDone
  DEF PreparationFails, DecodeFails, LeaveGroup, RepairAborts, Write, End, history
<1>4. CASE Cancel \/ UNCHANGED vars
  BY <1>4, LinesDone DEF Cancel, vars, group, history
<1>5. CASE Interrupt
  <2>1. CASE InGroup
    <3>1. UNCHANGED <<phase, doc, ready, collected, outcome, heard>>
      BY <1>5, <2>1 DEF Interrupt, history
    <3>2. PICK S : task' = Stopped(S)
      BY <1>5, <2>1, Zenon DEF Interrupt
    <3>3. \A u \in Tasks : /\ task[u] = "ok" => task'[u] = "ok"
                           /\ task'[u] # "none" => task[u] # "none"
      BY <1>0, <3>2, StoppedTasks DEF Stopped, Idle
    <3> QED BY <2>1, <3>1, <3>3, TasksAre, LinesRest
  <2>2. CASE ~InGroup
    BY <1>5, <2>2, LinesDone DEF Interrupt, End, history
  <2> QED BY <2>1, <2>2
<1>6. ASSUME NEW t \in Tasks,
             Acquire(t) \/ ReadCrop(t) \/ Resume(t) \/ CircuitOpens(t)
      PROVE  LinesInv'
  <2>1. /\ InGroup /\ task[t] \in {"wait", "call", "stop", "stopping"}
        /\ UNCHANGED <<phase, doc, ready, collected, outcome, heard>>
        /\ \E to \in TaskStates : task' = [task EXCEPT ![t] = to]
    BY <1>6 DEF Acquire, ReadCrop, Resume, CircuitOpens, history, TaskStates
  <2>2. \A u \in Tasks : /\ task[u] = "ok" => task'[u] = "ok"
                         /\ task'[u] # "none" => task[u] # "none"
    BY <1>0, <2>1
  <2> QED BY <2>1, <2>2, TasksAre, LinesRest
<1>7. ASSUME NEW t \in Tasks, Notice(t) PROVE LinesInv'
  <2>1. /\ InGroup /\ task[t] = "raised"
        /\ UNCHANGED <<phase, doc, ready, collected, outcome, heard>>
    BY <1>7 DEF Notice, history
  <2>2. PICK S : task' = [Stopped(S) EXCEPT ![t] = "told"]
    BY <1>7, Zenon DEF Notice
  <2>3. \A u \in Tasks : \/ u # t /\ task'[u] = Stopped(S)[u]
                         \/ u = t /\ task'[u] = "told"
    BY <1>0, <2>2, StoppedTasks
  <2>4. \A u \in Tasks : task[u] = "ok" => task'[u] = "ok"
    BY <1>0, <2>1, <2>3, StoppedTasks DEF Idle
  <2>5. \A u \in Tasks : task'[u] # "none" => task[u] # "none"
    BY <2>1, <2>3 DEF Stopped
  <2> QED BY <2>1, <2>4, <2>5, TasksAre, LinesRest
<1>8. ASSUME NEW p \in Pages, OpenDense(p) PROVE LinesInv'
  <2>1. /\ phase = "ocr" /\ task[<<p, 0>>] = "wait"
        /\ UNCHANGED <<phase, doc, ready, collected, outcome, heard>>
    BY <1>8 DEF OpenDense, history
  <2>2. \A t \in Tasks : task'[t] = IF t = <<p, 0>> THEN "inner"
                                    ELSE IF t \in Inside(p) THEN "wait"
                                    ELSE task[t]
    BY <1>8 DEF OpenDense
  <2>3. ASSUME NEW q \in Pages, task[<<q, 0>>] = "ok"
        PROVE  task'[<<q, 0>>] = "ok"
    <3>1. <<q, 0>> \in Tasks /\ <<q, 0>> # <<p, 0>> /\ q # p
      BY <2>1, <2>3, TasksAre
    <3>2. <<q, 0>> \notin Inside(p)
      BY <3>1 DEF Inside, PageOf
    <3> QED BY <2>2, <2>3, <3>1, <3>2
  <2> QED BY <2>1, <2>3, LinesRest DEF InGroup
\* A page is read once, and its result holds what was read.
<1>9. ASSUME NEW p \in Pages, ReadPage(p) PROVE LinesInv'
  <2>1. /\ phase = "ocr" /\ task[<<p, 0>>] = "call"
        /\ task' = [task EXCEPT ![<<p, 0>>] = "ok"]
        /\ UNCHANGED <<phase, doc, collected, outcome>>
    BY <1>9 DEF ReadPage
  <2>2. PICK lines \in Readings :
          /\ heard' = [heard EXCEPT ![p] = lines]
          /\ IF lines = <<>>
               THEN ready' = [ready EXCEPT ![p] = doc[p]]
               ELSE \E page \in Alignments(doc[p], lines) :
                      ready' = [ready EXCEPT ![p] = page]
    BY <1>9 DEF ReadPage
  <2>3. lines \in Seq(Seq(Words)) /\ doc[p] \in PageType
    BY <1>0, HybridAssumption DEF DocType
  <2>4. heard'[p] = lines /\ (lines # <<>> => Holds(ready'[p], lines))
    BY <1>0, <2>2, <2>3, AlignedPages DEF DocType
  <2>5. \A q \in Pages : q # p => heard'[q] = heard[q] /\ ready'[q] = ready[q]
    BY <1>0, <2>2 DEF DocType
  <2>6. <<p, 0>> \notin collected
    BY <2>1 DEF FailInv
  <2>7. ASSUME NEW q \in Pages, heard'[q] # <<>>
        PROVE  /\ task'[<<q, 0>>] = "ok"
               /\ Holds(ready'[q], heard'[q])
               /\ <<q, 0>> \in collected' => doc'[q] = ready'[q]
    <3>1. CASE q = p
      BY <1>0, <2>1, <2>4, <2>6, <2>7, <3>1, TasksAre
    <3>2. CASE q # p
      <4>1. heard[q] # <<>> /\ heard'[q] = heard[q] /\ ready'[q] = ready[q]
        BY <2>5, <2>7, <3>2
      <4>2. /\ task[<<q, 0>>] = "ok" /\ Holds(ready[q], heard[q])
            /\ <<q, 0>> \in collected => doc[q] = ready[q]
        BY <2>1, <4>1 DEF LinesInv
      <4>3. task'[<<q, 0>>] = "ok"
        BY <1>0, <2>1, <4>2, TasksAre
      <4> QED BY <2>1, <4>1, <4>2, <4>3
    <3> QED BY <3>1, <3>2
  <2> QED BY <2>1, <2>7 DEF LinesInv, StopInv
<1>10. ASSUME NEW p \in Pages, PageFails(p) \/ CloseDense(p) PROVE LinesInv'
  <2>1. /\ phase = "ocr" /\ task[<<p, 0>>] \in {"call", "wait", "inner", "closing"}
        /\ UNCHANGED <<phase, doc, collected, outcome, heard>>
        /\ \E to : task' = [task EXCEPT ![<<p, 0>>] = to]
        /\ \A q \in Pages : q # p => ready'[q] = ready[q]
    <3>1. CASE PageFails(p)
      BY <1>0, <3>1 DEF PageFails, DocType
    <3>2. CASE CloseDense(p)
      BY <1>0, <3>2 DEF CloseDense, DocType, history
    <3> QED BY <1>10, <3>1, <3>2
  <2>2. heard[p] = <<>>
    BY <2>1 DEF LinesInv
  <2>3. ASSUME NEW q \in Pages, heard'[q] # <<>>
        PROVE  /\ task'[<<q, 0>>] = "ok"
               /\ Holds(ready'[q], heard'[q])
               /\ <<q, 0>> \in collected' => doc'[q] = ready'[q]
    <3>1. q # p /\ heard[q] # <<>>
      BY <2>1, <2>2, <2>3
    <3>2. /\ task[<<q, 0>>] = "ok" /\ Holds(ready[q], heard[q])
          /\ <<q, 0>> \in collected => doc[q] = ready[q]
      BY <2>1, <3>1 DEF LinesInv
    <3>3. task'[<<q, 0>>] = "ok"
      BY <1>0, <2>1, <3>1, <3>2, TasksAre
    <3> QED BY <2>1, <3>1, <3>2, <3>3
  <2> QED BY <2>1, <2>3 DEF LinesInv, StopInv
\* The result of a page replaces the page; the text of a box is written into
\* a box that is refined.
<1>11. ASSUME NEW t \in Tasks, Collect(t) PROVE LinesInv'
  <2>1. /\ InGroup /\ t \in RunTasks /\ task[t] \in {"ok", "fail"}
        /\ doc' = Stored(t) /\ collected' = collected \cup {t}
        /\ UNCHANGED <<phase, opts, outcome, heard, ready>>
        /\ task' = Stopped(Tasks) \/ task' = task
    BY <1>11 DEF Collect, history
  <2>2. \A u \in Tasks : /\ task[u] = "ok" => task'[u] = "ok"
                         /\ task'[u] # "none" => task[u] # "none"
    BY <1>0, <2>1, StoppedTasks DEF Stopped, Idle
  <2>3. t = <<PageOf(t), BoxOf(t)>> /\ PageOf(t) \in Pages
    BY TasksAre
  <2>4. outcome' # "done"
    BY <2>1 DEF StopInv, InGroup
  <2>5. CASE phase = "ocr"
    <3>1. t = <<PageOf(t), 0>> /\ doc' = [doc EXCEPT ![PageOf(t)] = ready[PageOf(t)]]
      BY <2>1, <2>3, <2>5, TasksAre DEF RunTasks, Stored
    <3>2. ASSUME NEW q \in Pages, heard'[q] # <<>>
          PROVE  /\ task'[<<q, 0>>] = "ok"
                 /\ Holds(ready'[q], heard'[q])
                 /\ <<q, 0>> \in collected' => doc'[q] = ready'[q]
      <4>1. /\ task[<<q, 0>>] = "ok" /\ Holds(ready[q], heard[q])
            /\ <<q, 0>> \in collected => doc[q] = ready[q]
        BY <2>1, <2>5, <3>2 DEF LinesInv
      <4>2. task'[<<q, 0>>] = "ok"
        BY <2>2, <4>1, TasksAre
      <4>3. <<q, 0>> \in collected' => doc'[q] = ready'[q]
        <5>1. CASE q = PageOf(t)
          BY <1>0, <2>1, <3>1, <5>1 DEF DocType
        <5>2. CASE q # PageOf(t)
          <6>1. <<q, 0>> # t /\ doc'[q] = doc[q]
            BY <1>0, <3>1, <5>2 DEF DocType
          <6> QED BY <2>1, <4>1, <6>1
        <5> QED BY <5>1, <5>2
      <4> QED BY <2>1, <4>1, <4>2, <4>3
    <3> QED BY <2>1, <2>4, <2>5, <3>2 DEF LinesInv
  <2>6. CASE phase # "ocr"
    <3>1. phase = "refine" /\ doc' = [doc EXCEPT ![PageOf(t)][BoxOf(t)].text = crop[t]]
      BY <2>1, <2>6 DEF InGroup, Stored
    <3>2. crop[t] \in Seq(Words)
      BY DEF DocInv
    <3>3. /\ doc' \in DocType
          /\ \A q \in Pages : DOMAIN doc'[q] = DOMAIN doc[q]
          /\ \A q \in Pages : \A j \in DOMAIN doc[q] :
               (q # PageOf(t) \/ j # BoxOf(t)) => doc'[q][j] = doc[q][j]
      <4>1. doc' \in DocType /\ SameBut(doc, doc', PageOf(t), BoxOf(t))
        BY <1>0, <3>1, <3>2, EditPage
      <4> QED BY <4>1 DEF SameBut
    <3>4. RunTasks' \subseteq RunTasks
      BY <2>1, <2>2, <3>1 DEF RunTasks
    <3>5. ASSUME NEW p \in Pages, NEW line \in ToSet(heard'[p])
          PROVE  Spared(p, line)'
      <4>1. PICK i \in DOMAIN doc[p] :
              /\ line \in SubSeqs(doc[p][i].text)
              /\ line = <<>> \/ <<p, i>> \notin RunTasks
        BY <2>1, <3>1, <3>5 DEF LinesInv, Spared
      <4>2. i \in DOMAIN doc'[p]
        BY <3>3, <4>1
      <4>3. CASE line = <<>>
        <5>1. doc'[p][i].text \in Seq(Words)
          BY <3>3, <4>2, PageFacts DEF DocType, Blocks
        <5>2. line \in SubSeqs(doc'[p][i].text)
          BY <4>3, <5>1, SubSeqFacts
        <5> QED BY <4>2, <4>3, <5>2 DEF Spared
      <4>4. CASE <<p, i>> \notin RunTasks
        <5>1. p # PageOf(t) \/ i # BoxOf(t)
          BY <2>1, <2>3, <4>4
        <5>2. doc'[p][i] = doc[p][i]
          BY <3>3, <4>1, <5>1
        <5> QED BY <3>4, <4>1, <4>2, <4>4, <5>2 DEF Spared
      <4> QED BY <4>1, <4>3, <4>4
    <3> QED BY <2>1, <2>4, <3>1, <3>5 DEF LinesInv
  <2> QED BY <2>5, <2>6
<1>12. CASE Emitted
  <2>1. /\ InGroup
        /\ UNCHANGED <<phase, task, doc, ready, collected, outcome, heard>>
    BY <1>12 DEF Emitted, history
  <2> QED BY <2>1, LinesRest
\* All results are stored; the targets of the refine stage have no text.
<1>13. CASE FinishOcr
  <2>1. /\ phase = "ocr" /\ RunTasks \subseteq collected
        /\ phase' = IF opts.refine THEN "refine" ELSE "repair"
        /\ task' = [t \in Tasks |->
                      IF opts.refine /\ t \in RefineTargets THEN "wait" ELSE "none"]
        /\ cur' = NoBlock
        /\ UNCHANGED <<doc, heard, outcome, opts>>
    BY <1>13 DEF FinishOcr, AllCollected, history
  <2>2. ASSUME NEW p \in Pages, heard[p] # <<>> PROVE Holds(doc[p], heard[p])
    <3>1. /\ task[<<p, 0>>] = "ok" /\ Holds(ready[p], heard[p])
          /\ <<p, 0>> \in collected => doc[p] = ready[p]
      BY <2>1, <2>2 DEF LinesInv
    <3>2. <<p, 0>> \in RunTasks
      BY <3>1, TasksAre DEF RunTasks, BoxOf
    <3> QED BY <2>1, <3>1, <3>2
  <2>3. \A p \in Pages : heard[p] = <<>> => Holds(doc[p], heard[p])
    BY DEF Holds, ToSet
  <2>4. \A p \in Pages : Holds(doc'[p], heard'[p])
    BY <2>1, <2>2, <2>3
  <2>5. ASSUME phase' = "refine", NEW p \in Pages, NEW line \in ToSet(heard'[p])
        PROVE  Spared(p, line)'
    <3>1. PICK i \in DOMAIN doc'[p] : line \in SubSeqs(doc'[p][i].text)
      BY <2>4, <2>5 DEF Holds
    <3>2. CASE line = <<>>
      BY <3>1, <3>2 DEF Spared
    <3>3. CASE line # <<>>
      <4>1. ~Blank(doc[p][i])
        BY <2>1, <3>1, <3>3, BlankHoldsNothing DEF Blank
      <4>2. <<p, i>> \notin RefineTargets
        BY <4>1 DEF RefineTargets, PageOf, BoxOf
      <4>3. <<p, i>> \notin RunTasks'
        BY <2>1, <4>2 DEF RunTasks
      <4> QED BY <3>1, <4>3 DEF Spared
    <3> QED BY <3>2, <3>3
  <2>6. outcome' # "done"
    BY <2>1 DEF StopInv
  <2> QED BY <2>1, <2>4, <2>5, <2>6 DEF LinesInv
\* What is dropped as a duplicate is a refined text.
<1>14. CASE FinishRefine
  <2> DEFINE refined == [p \in Pages |-> {i \in DOMAIN doc[p] : <<p, i>> \in RunTasks}]
  <2>1. /\ phase = "refine" /\ phase' = "repair"
        /\ UNCHANGED <<heard, outcome, opts, cur>>
        /\ doc' = [p \in Pages |-> DropRefinedDuplicates(doc[p], refined[p])]
    BY <1>14 DEF FinishRefine, history
  <2>2. \A p \in Pages : \A i \in DOMAIN doc[p] :
          i \in refined[p] <=> <<p, i>> \in RunTasks
    OBVIOUS
  <2> HIDE DEF refined
  <2>3. ASSUME NEW p \in Pages
        PROVE  /\ doc'[p] \in PageType /\ DOMAIN doc'[p] = DOMAIN doc[p]
               /\ \A i \in DOMAIN doc[p] :
                    i \notin refined[p] => doc'[p][i] = doc[p][i]
    <3>1. doc[p] \in PageType
      BY <1>0 DEF DocType
    <3> QED BY <2>1, <3>1, DroppedPage
  <2>4. ASSUME NEW p \in Pages, NEW line \in ToSet(heard'[p])
        PROVE  \E i \in DOMAIN doc'[p] : line \in SubSeqs(doc'[p][i].text)
    <3>1. PICK i \in DOMAIN doc[p] :
            /\ line \in SubSeqs(doc[p][i].text)
            /\ line = <<>> \/ <<p, i>> \notin RunTasks
      BY <2>1, <2>4 DEF LinesInv, Spared
    <3>2. i \in DOMAIN doc'[p]
      BY <2>3, <3>1
    <3>3. CASE line = <<>>
      <4>1. doc'[p][i].text \in Seq(Words)
        BY <2>3, <3>2, PageFacts DEF Blocks
      <4>2. line \in SubSeqs(doc'[p][i].text)
        BY <3>3, <4>1, SubSeqFacts
      <4> QED BY <3>2, <4>2
    <3>4. CASE <<p, i>> \notin RunTasks
      <4>1. doc'[p][i] = doc[p][i]
        BY <2>2, <2>3, <3>1, <3>4
      <4> QED BY <3>1, <3>2, <4>1
    <3> QED BY <3>1, <3>3, <3>4
  <2>5. \A p \in Pages : Holds(doc'[p], heard'[p])
    BY <2>4 DEF Holds
  <2>6. cur' = NoBlock /\ outcome' # "done"
    BY <2>1 DEF RepairInv, StopInv
  <2> QED BY <2>1, <2>5, <2>6 DEF LinesInv
\* Without repair the phase changes nothing.
<1>15. CASE StartRepair \/ RepairReads \/ RepairFails
  <2>1. phase = "repair" /\ UNCHANGED <<opts, outcome, heard>>
    BY <1>15 DEF StartRepair, RepairReads, RepairFails, history
  <2>2. phase' \in {"repair", "finalize"}
    <3>1. CASE \E b : Advance(b)
      BY <2>1, <3>1, AdvanceFacts
    <3>2. CASE UNCHANGED phase
      BY <2>1, <3>2
    <3> QED BY <1>15, <3>1, <3>2 DEF StartRepair, RepairReads, RepairFails
  <2>3. outcome' # "done"
    BY <2>1 DEF StopInv
  <2>4. CASE opts.repair
    BY <2>1, <2>2, <2>3, <2>4 DEF LinesInv
  <2>5. CASE ~opts.repair
    <3>1. cur = NoBlock
      BY <2>1, <2>5 DEF LinesInv
    <3>2. StartRepair
      BY <1>15, <3>1 DEF RepairReads, RepairFails
    <3>3. UNCHANGED doc /\ phase' = "finalize"
      BY <2>5, <3>2 DEF StartRepair, Advance
    <3> QED BY <2>1, <2>3, <2>5, <3>3 DEF LinesInv
  <2> QED BY <2>4, <2>5
<1>16. CASE Finalize
  <2>1. CASE cancelled
    BY <1>16, <2>1, LinesDone DEF Finalize, End, history
  <2>2. CASE ~cancelled
    <3>1. /\ phase = "finalize" /\ phase' = "write"
          /\ UNCHANGED <<n, opts, heard, outcome>>
          /\ doc' = doc \/ doc' = CrossPageMerge(doc, n)
      BY <1>16, <2>2 DEF Finalize, history
    <3>2. ASSUME ~opts.repair PROVE Standing(doc)
      <4>1. \A p \in Pages : Holds(doc[p], heard[p])
        BY <3>1, <3>2 DEF LinesInv
      <4>2. \A p \in 1 .. n : p \in Pages /\ p \in p .. n
        BY HybridAssumption DEF TypeOK, Pages
      <4> QED BY <4>1, <4>2 DEF Holds, Standing
    <3>3. n \in 0 .. MaxPages
      BY DEF TypeOK
    <3>4. Standing(doc) => Standing(doc')
      BY <1>0, <3>1, <3>3, CrossPageMergeKeeps
    <3>5. Standing(doc)' = Standing(doc')
      BY <3>1 DEF Standing
    <3> QED BY <3>1, <3>2, <3>4, <3>5 DEF LinesInv
  <2> QED BY <2>1, <2>2
<1> QED
  BY <1>1, <1>2, <1>3, <1>4, <1>5, <1>6, <1>7, <1>8, <1>9, <1>10, <1>11,
     <1>12, <1>13, <1>14, <1>15, <1>16
  DEF Next, Run, GroupStep, PageStep, TaskStep, BodyStep, RepairStep, PhaseStep

\* For any number of pages and boxes, any layouts, readings and settings: a
\* run that ends as done names the pages that failed, each once, and, when it
\* does not repair, holds every line that was read, whatever was aligned,
\* refined, dropped and merged.
THEOREM PagesAreAccounted == Spec => []PagesAccounted
<1>1. Init => StopInv /\ FailInv /\ ShapeInv /\ RepairInv /\ DocInv /\ LinesInv
  <2> SUFFICES ASSUME Init
               PROVE  /\ StopInv /\ FailInv /\ ShapeInv /\ RepairInv
                      /\ DocInv /\ LinesInv
    OBVIOUS
  <2>1. DocInv
    <3>1. <<>> \in Seq(Seq(Words))
      BY EmptySeq
    <3> QED BY <3>1, EmptyPage DEF Init, DocInv, DocType
  <2>2. StopInv /\ FailInv
    BY DEF Init, StopInv, FailInv, InGroup
  <2>3. ShapeInv
    BY DEF Init, ShapeInv, Shaped
  <2>4. RepairInv /\ LinesInv
    BY DEF Init, RepairInv, RepairAccounts, LinesInv
  <2> QED BY <2>1, <2>2, <2>3, <2>4
<1>2. LinesInv => (outcome = "done" /\ ~opts.repair => LinesKept)
  BY DEF LinesInv, LinesKept, Standing
<1>3. FailInv /\ LinesInv => PagesAccounted
  BY <1>2 DEF FailInv, PagesAccounted
<1> QED
  BY <1>1, <1>3, StopStep, FailStep, ShapeStep, CountStep, DocStep, LinesStep,
     HybridType, PTL DEF Spec

-----------------------------------------------------------------------------
(* The engine with its aligner.                                            *)

\* A step leaves what a page task has returned, and the pages of tasks that
\* have not; or it detects; or no page is read after it.
LEMMA StepReturns ==
  ASSUME TypeOK, [Next]_vars, phase' = "ocr"
  PROVE  \/ \* the documents of the tasks that have not returned stay
            /\ phase = "ocr" /\ n' = n
            /\ \A p \in Pages : task'[<<p, 0>>] \notin {"ok", "fail"} =>
                 task[<<p, 0>>] \notin {"ok", "fail"} /\ doc'[p] = doc[p]
         \/ Detect
<1> USE HybridAssumption DEF TypeOK
<1> DEFINE Kept ==
      /\ phase = "ocr" /\ n' = n
      /\ \A p \in Pages : task'[<<p, 0>>] \notin {"ok", "fail"} =>
           task[<<p, 0>>] \notin {"ok", "fail"} /\ doc'[p] = doc[p]
<1> SUFFICES Kept \/ Detect
  OBVIOUS
<1>0. /\ \A p \in Pages : <<p, 0>> \in Tasks
      /\ \A t \in Tasks : BoxOf(t) = 0 => t = <<PageOf(t), 0>>
  BY TasksAre
<1>1. CASE UNCHANGED vars
  BY <1>1 DEF vars, group
<1>2. ASSUME NEW p \in Pages, OpenDense(p) PROVE Kept
  BY <1>0, <1>2 DEF OpenDense, Inside, BoxOf, PageOf
<1>3. ASSUME NEW p \in Pages, ReadPage(p) PROVE Kept
  BY <1>0, <1>3 DEF ReadPage
<1>4. ASSUME NEW p \in Pages, PageFails(p) PROVE Kept
  BY <1>0, <1>4 DEF PageFails
<1>5. ASSUME NEW p \in Pages, CloseDense(p) PROVE Kept
  BY <1>0, <1>5 DEF CloseDense
<1>6. ASSUME NEW t \in Tasks, Acquire(t) PROVE Kept
  BY <1>0, <1>6 DEF Acquire
<1>7. ASSUME NEW t \in Tasks, ReadCrop(t) PROVE Kept
  BY <1>0, <1>7 DEF ReadCrop
<1>8. ASSUME NEW t \in Tasks, CircuitOpens(t) PROVE Kept
  BY <1>0, <1>8 DEF CircuitOpens
<1>9. ASSUME NEW t \in Tasks, Notice(t) PROVE Kept
  BY <1>0, <1>9 DEF Notice, Stopped
<1>10. ASSUME NEW t \in Tasks, Resume(t) PROVE Kept
  BY <1>0, <1>10 DEF Resume
<1>11. ASSUME NEW t \in Tasks, Collect(t) PROVE Kept
  BY <1>0, <1>11 DEF Collect, Stopped, Stored, RunTasks
<1>12. CASE Emitted
  BY <1>0, <1>12 DEF Emitted, InGroup
<1>13. CASE Cancel
  BY <1>0, <1>13 DEF Cancel, group
<1>14. CASE Interrupt
  <2>1. CASE InGroup
    <3>1. PICK S : task' = Stopped(S)
      BY <1>14, <2>1, Zenon DEF Interrupt
    <3>2. UNCHANGED <<phase, doc, n>>
      BY <1>14, <2>1 DEF Interrupt
    <3>3. \A t \in Tasks : task[t] \in {"ok", "fail"} => task'[t] = task[t]
      BY <3>1, StoppedTasks DEF Idle
    <3> QED BY <1>0, <3>2, <3>3
  <2>2. CASE ~InGroup
    BY <1>14, <2>2 DEF Interrupt, End
  <2> QED BY <2>1, <2>2
<1>15. CASE LeaveGroup \/ PhaseStep
  BY <1>15 DEF LeaveGroup, PhaseStep, Convert, EnterDetection, PreparationFails,
     DecodeFails, FinishOcr, FinishRefine, Finalize, Write, End
<1>16. CASE RepairStep
  BY <1>16 DEF RepairStep, StartRepair, RepairReads, RepairFails, RepairAborts,
     Advance, End
<1> QED
  BY <1>1, <1>2, <1>3, <1>4, <1>5, <1>6, <1>7, <1>8, <1>9, <1>10, <1>11,
     <1>12, <1>13, <1>14, <1>15, <1>16
  DEF Next, Run, GroupStep, PageStep, TaskStep, BodyStep

\* No step reads into a page whose task has not returned.
LEMMA UnreadStep ==
  TypeOK /\ UnreadUntilReturned /\ [Next]_vars => UnreadUntilReturned'
<1> SUFFICES ASSUME TypeOK, UnreadUntilReturned, [Next]_vars, phase' = "ocr",
                    NEW p \in Pages, task'[<<p, 0>>] \notin {"ok", "fail"}
             PROVE  doc'[p] \in Found(p)'
  BY DEF UnreadUntilReturned
<1>1. CASE Detect
  <2>1. PICK found \in [1 .. n -> UNION {Layouts[q] : q \in Pages}] :
          /\ \A q \in 1 .. n : found[q] \in Layouts[q]
          /\ doc' = [q \in Pages |-> IF q <= n THEN Detected(found[q]) ELSE <<>>]
    BY <1>1 DEF Detect
  <2>2. n' = n /\ n \in Nat /\ p \in Nat \ {0}
    BY <1>1 DEF Detect, TypeOK, Pages
  <2>3. CASE p <= n
    BY <2>1, <2>2, <2>3 DEF Found
  <2>4. CASE ~(p <= n)
    <3>1. doc'[p] = Detected(<<>>)
      BY <2>1, <2>4 DEF Detected
    <3> QED BY <2>2, <2>4, <3>1 DEF Found
  <2> QED BY <2>3, <2>4
<1>2. CASE ~Detect
  <2>1. /\ phase = "ocr" /\ n' = n /\ doc'[p] = doc[p]
        /\ task[<<p, 0>>] \notin {"ok", "fail"}
    BY <1>2, StepReturns
  <2>2. doc[p] \in Found(p)
    BY <2>1 DEF UnreadUntilReturned
  <2> QED BY <2>1, <2>2 DEF Found
<1> QED BY <1>1, <1>2

\* Theorem: whatever the interleaving of pages, boxes, failures and stops, a
\* page whose task has not returned is as layout detection left it.
THEOREM PagesStayUnread == Spec => []UnreadUntilReturned
<1>1. Init => UnreadUntilReturned
  BY DEF Init, UnreadUntilReturned
<1> QED BY <1>1, UnreadStep, HybridType, PTL DEF Spec

\* The aligner does what the run expects of a page that was read.
LEMMA AlignedIsRead ==
  ASSUME TypeOK, UnreadUntilReturned, NEW p \in Pages, ReadAligned(p)
  PROVE  ReadPage(p)
<1>1. PICK lines \in Readings :
        /\ heard' = [heard EXCEPT ![p] = lines]
        /\ ready' = [ready EXCEPT ![p] = IF lines = <<>> THEN doc[p]
                                        ELSE AlignText(doc[p], lines)]
  BY DEF ReadAligned
<1>2. PICK layout \in IF p <= n THEN Layouts[p] ELSE {<<>>} :
        doc[p] = Detected(layout)
  BY DEF ReadAligned, UnreadUntilReturned, Found
<1>3. layout \in Seq(Boxes)
  BY <1>2, HybridAssumption, EmptySeq
<1>4. layout \in Seq(Areas)
  <2>1. layout \in [1 .. Len(layout) -> Areas] /\ Len(layout) \in Nat
    BY <1>3, EngineAssumption
  <2> QED BY <2>1
<1>5. lines \in Seq(Lines)
  BY EngineAssumption DEF Lines
<1>6. doc[p] = Unread(layout)
  BY <1>2 DEF Unread, Detected
<1>7. AlignText(doc[p], lines)
        \in IF lines = <<>> THEN {doc[p]} ELSE Alignments(doc[p], lines)
  BY <1>4, <1>5, <1>6, AlignerIsFaithful
<1>8. IF lines = <<>> THEN ready' = [ready EXCEPT ![p] = doc[p]]
      ELSE \E page \in Alignments(doc[p], lines) :
             ready' = [ready EXCEPT ![p] = page]
  BY <1>1, <1>7
<1> QED BY <1>1, <1>8 DEF ReadAligned, ReadPage

\* Theorem: the engine with its aligner runs as HybridWorkflow lets it, for any
\* layouts made of areas, any readings and any interleaving; every safety
\* property of HybridWorkflow is one of the engine.
THEOREM EngineRunsAsAllowed == EngineSpec => Spec
<1>1. TypeOK /\ UnreadUntilReturned /\ [EngineNext]_vars => [Next]_vars
  <2> SUFFICES ASSUME TypeOK, UnreadUntilReturned, [EngineNext]_vars
               PROVE  [Next]_vars
    OBVIOUS
  <2>1. ASSUME NEW p \in Pages, ReadAligned(p) PROVE Next
    BY <2>1, AlignedIsRead DEF Next, Run, GroupStep, PageStep
  <2>2. CASE EnginePageStep
    BY <2>1, <2>2 DEF EnginePageStep, Next, Run, GroupStep, PageStep
  <2> QED BY <2>2 DEF EngineNext, EngineRun, Next, Run, GroupStep
<1>2. Init => TypeOK
  BY TypeStart
<1>3. Init => UnreadUntilReturned
  BY DEF Init, UnreadUntilReturned
<1> QED BY <1>1, <1>2, <1>3, TypeStep, UnreadStep, PTL DEF EngineSpec, Spec

\* Theorem: what align_text makes of any page and reading of the instance is
\* what the run expects of it.
THEOREM AlignerServesEngine == EngineSpec => []AlignerKeepsLines
<1>1. MeetsContract
  <2> SUFFICES ASSUME NEW layout \in BoxPages, NEW lines \in Texts
               PROVE  AlignText(Unread(layout), lines)
                        \in IF lines = <<>> THEN {Unread(layout)}
                            ELSE Alignments(Unread(layout), lines)
    BY DEF MeetsContract
  <2>1. layout \in Seq(Areas) /\ lines \in Seq(Lines)
    BY AlignmentAssumption DEF Lines
  <2> QED BY <2>1, AlignerIsFaithful
<1>2. AlignerKeepsLines
  BY <1>1 DEF AlignerKeepsLines
<1> QED BY <1>2, PTL

\* Theorem: of any page and reading of the instance, in both orders of the
\* boxes that align_text tries, the alignment found is the cheapest.
THEOREM EngineAlignsCheaply == EngineSpec => []AlignmentIsCheapest
<1>1. CostIsLeast
  <2> SUFFICES ASSUME NEW boxes \in BoxPages \ {<<>>},
                      NEW lines \in Texts \ {<<>>}
               PROVE  /\ Cheapest(lines, boxes, RowMajor(boxes, Ids(boxes)))
                      /\ Cheapest(lines, boxes, ReadingOrder(boxes, Ids(boxes)))
    BY DEF CostIsLeast
  <2>1. boxes \in Seq(Areas) /\ lines \in Seq(Lines)
    BY AlignmentAssumption DEF Lines
  <2>2. \A order \in {RowMajor(boxes, Ids(boxes)),
                      ReadingOrder(boxes, Ids(boxes))} :
          order \in Seq(DOMAIN boxes) /\ Len(order) = Len(boxes)
    BY ZenonT(30), <2>1, EveryBoxIsTaken
  <2> QED BY <2>1, <2>2, AlignmentIsOptimal
<1>2. AlignmentIsCheapest
  BY <1>1 DEF AlignmentIsCheapest
<1> QED BY <1>2, PTL

\* Theorem: of any page of the instance that stands in columns and any reading
\* that fits them taken one after the other, and not row by row, align_text
\* puts each line in its box.
THEOREM EngineReadsColumns == EngineSpec => []ColumnsAreRead
<1>1. ColumnsAreRead
  BY ColumnsAreFollowed DEF ColumnsAreRead
<1> QED BY <1>1, PTL

\* Theorem: with its aligner in place too, the engine never has more calls
\* under way than permits nor leaves one behind, never ends as done after a
\* stop, loses no line that was read and counts the doubtful blocks right.
THEOREM EngineKeepsPromises ==
  EngineSpec => /\ []StructuredCalls /\ StopIsHonoured
                /\ []PagesAccounted /\ []RepairAccounts
BY EngineRunsAsAllowed, CallsAreStructured, StopsAreHonoured, PagesAreAccounted,
   RepairCountIsRight, PTL
=============================================================================
