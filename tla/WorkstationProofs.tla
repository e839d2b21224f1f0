-------------------------- MODULE WorkstationProofs -------------------------
(***************************************************************************)
(* Theorems about Workstation, for any number of commands, pages and       *)
(* documents.                                                              *)
(***************************************************************************)
EXTENDS Workstation, TLAPS

Kinds  == {"none", "sync", "async", "cancel", "clear"}
Places == {"none", "open", "connect", "swap", "http", "asked", "drop",
           "leave", "done"}
TaskRecords == [kind : Kinds, at : Places, doc : 0 .. MaxDocs]

IsRun(t) == task[t].kind \in {"sync", "async"}

\* Runs are of a document; only runs open, connect and answer, and only runs
\* have sockets.
RunInv ==
  /\ \A t \in Tasks :
       /\ IsRun(t) => task[t].doc # 0
       /\ task[t].at \in {"open", "connect", "swap", "http"} => IsRun(t)
       /\ task[t].at = "asked" => task[t].kind = "cancel"
       /\ task[t].at \in {"drop", "leave"} => task[t].kind # "none"
  /\ \A s \in sockets : IsRun(s)
  /\ bytes = NoBytes \/ DocOf(bytes) # 0

-----------------------------------------------------------------------------
(* The parts of the actions.                                               *)

LEMMA LimitsStay == [Next]_vars => UNCHANGED limits
  BY DEF Next, Command, Resumes, Arrives, Load, SelectPage, RetryPreview,
         Process, Cancel, Clear, Dropped, Left, Opened, Connected, Listens,
         SyncAnswered, AsyncAnswered, CancelAnswered, Rendered, JobPreview,
         Preloaded, LoopWakes, Frame, vars, history

LEMMA LimitsAre ==
  ASSUME TypeOK
  PROVE  /\ limits[1] \in Nat \ {0} /\ limits[2] \in Nat \ {0} /\ limits[3] \in Nat
         /\ MaxDocs \in Nat \ {0}
         /\ Tasks \subseteq Nat /\ None \notin Tasks
         /\ Pages \subseteq Nat /\ 0 \notin Pages
  BY WorkstationAssumption DEF TypeOK, Tasks, Pages, None

LEMMA BytesAre ==
  /\ NoBytes \in Bytes
  /\ \A d \in 0 .. MaxDocs : /\ <<d, "source">> \in Bytes
                             /\ <<d, "result">> \in Bytes
                             /\ <<d, "job">> \in Bytes
  /\ \A b \in Bytes : DocOf(b) \in 0 .. MaxDocs
  BY WorkstationAssumption DEF NoBytes, Bytes, DocOf

\* More pages on display, and one of them shown.
LEMMA PreviewTypes ==
  ASSUME TypeOK, NEW n \in Pages \cup {0}, NEW b \in Bytes,
         NEW p \in Pages, p \in DOMAIN previews \/ p <= n
  PROVE  /\ \E m \in Pages \cup {0} : Padded(n) \in [1 .. m -> Bytes]
         /\ \E m \in Pages \cup {0} : [Padded(n) EXCEPT ![p] = b] \in [1 .. m -> Bytes]
         /\ p \in DOMAIN Padded(n)
  <1>1. PICK k \in Pages \cup {0} : previews \in [1 .. k -> Bytes]
    BY DEF TypeOK
  <1>2. k \in Nat /\ n \in Nat /\ p \in Nat /\ p > 0
    BY LimitsAre
  <1> DEFINE m == IF k > n THEN k ELSE n
  <1>3. m \in Pages \cup {0} /\ 1 .. m = 1 .. k \cup 1 .. n
    BY <1>2
  <1>4. Padded(n) \in [1 .. m -> Bytes]
    BY <1>1, <1>3, BytesAre DEF Padded
  <1>5. p \in 1 .. m
    BY <1>1, <1>2, <1>3
  <1> HIDE DEF m
  <1>6. [Padded(n) EXCEPT ![p] = b] \in [1 .. m -> Bytes]
    BY <1>4, <1>5
  <1>7. p \in DOMAIN Padded(n)
    BY <1>4, <1>5
  <1> QED BY <1>3, <1>4, <1>6, <1>7

\* A task is somewhere else.
LEMMA TaskAt ==
  ASSUME task \in [Tasks -> TaskRecords], NEW t \in Tasks, NEW where \in Places,
         task' = [task EXCEPT ![t].at = where]
  PROVE  /\ task' \in [Tasks -> TaskRecords]
         /\ task'[t].at = where
         /\ task'[t].kind = task[t].kind /\ task'[t].doc = task[t].doc
         /\ \A u \in Tasks : u # t => task'[u] = task[u]
  BY DEF TaskRecords

\* A task ends.
LEMMA TaskEnds ==
  ASSUME task \in [Tasks -> TaskRecords], NEW t \in Tasks, Finish(t)
  PROVE  /\ task' \in [Tasks -> TaskRecords]
         /\ task'[t].at = "done"
         /\ task[t].kind \in {"cancel", "clear"} => task'[t].kind = "none"
         /\ task[t].kind \notin {"cancel", "clear"} =>
              task'[t].kind = task[t].kind /\ task'[t].doc = task[t].doc
         /\ \A u \in Tasks : u # t => task'[u] = task[u]
  <1>1. task' = [task EXCEPT ![t] =
                   IF @.kind \in {"cancel", "clear"} THEN Over
                                                    ELSE [@ EXCEPT !.at = "done"]]
    BY DEF Finish
  <1>2. Over \in TaskRecords
    BY WorkstationAssumption DEF Over, TaskRecords, Kinds, Places
  <1> QED BY <1>1, <1>2 DEF TaskRecords, Over, Places

\* What is on display when a task ends.
LEMMA EndDisplays ==
  ASSUME NEW t \in Tasks, Finish(t), task[t].kind \in Kinds \ {"none"}
  PROVE  \/ task[t].kind = "sync" /\ UNCHANGED display
         \/ /\ task[t].kind \in {"async", "cancel"} /\ busy' = FALSE
            /\ UNCHANGED <<bytes, previews, boxes, job, lastJob>>
         \/ /\ task[t].kind = "clear" /\ busy' = FALSE /\ bytes' = NoBytes
            /\ previews' = [p \in {} |-> NoBytes] /\ boxes' = {}
            /\ job' = None /\ lastJob' = None
  BY DEF Finish, Kinds

\* A task begins.
LEMMA TaskBegins ==
  ASSUME task \in [Tasks -> TaskRecords], NEW t \in Tasks, NEW kind \in Kinds,
         NEW where \in Places, NEW doc \in 0 .. MaxDocs,
         Begins(t, kind, where, doc)
  PROVE  /\ task' \in [Tasks -> TaskRecords]
         /\ task[t] = NoTask
         /\ task'[t] = [kind |-> kind, at |-> where, doc |-> doc]
         /\ \A u \in Tasks : u # t => task'[u] = task[u]
  BY DEF Begins, TaskRecords

-----------------------------------------------------------------------------
(* Types.                                                                  *)

\* The actions that only concern previews.
Previewing ==
  \/ \E p \in Pages : SelectPage(p) \/ RetryPreview(p)
  \/ \E f \in fetches : Rendered(f) \/ JobPreview(f)
  \/ Preloaded \/ LoopWakes

LEMMA PreviewingFrame ==
  Previewing => UNCHANGED <<bytes, boxes, busy, job, lastJob, last, wire, task,
                            history>>
  BY DEF Previewing, SelectPage, RetryPreview, Rendered, JobPreview, Preloaded,
         LoopWakes, display

LoopRecords == [at : {"off", "ask", "pause", "stale"}, page : Pages \cup {0},
                of : Bytes]
FetchRecords == [page : Pages, of : Bytes, how : {"load", "page", "job"}]

\* The preloader asks for pages that there are.
LoopInv == loop.at = "ask" => loop.page \in Pages

LEMMA IdleIsLoop == TypeOK => /\ Idle \in LoopRecords /\ OldLoop \in LoopRecords
                              /\ OldLoop.at # "ask" /\ Idle.at # "ask"
                              /\ FromJobs \subseteq FetchRecords
  BY BytesAre DEF Idle, OldLoop, Loop, LoopRecords, FetchRecords, FromJobs, TypeOK

\* A turn of the preloader.
LEMMA TurnTypes ==
  ASSUME TypeOK, NEW todo, todo \subseteq Pages, NEW of \in Bytes,
         Turn(todo, of)
  PROVE  /\ loop' \in LoopRecords
         /\ loop'.at = "ask" => loop'.page \in Pages /\ loop'.of = of
  BY IdleIsLoop DEF Turn, Loop, LoopRecords

LEMMA StartTypes ==
  ASSUME TypeOK, LoopInv, NEW todo, todo \subseteq Pages, NEW of \in Bytes,
         StartLoop(todo, of)
  PROVE  /\ loop' \in LoopRecords
         /\ loop'.at = "ask" => loop'.page \in Pages
         /\ loop' = loop \/ (loop'.at = "ask" => loop'.of = of)
  <1>1. loop \in LoopRecords
    BY DEF TypeOK, LoopRecords
  <1>2. CASE Turn(todo, of)
    BY <1>2, TurnTypes
  <1>3. CASE UNCHANGED loop
    BY <1>1, <1>3 DEF LoopInv
  <1> QED BY <1>2, <1>3 DEF StartLoop

LEMMA PagesUpTo ==
  ASSUME TypeOK
  PROVE  /\ \A m \in Pages \cup {0} : 1 .. m \subseteq Pages
         /\ limits[2] \in Pages /\ \A p \in Pages : p <= limits[2]
  BY LimitsAre DEF Pages

\* Pages that are on display, or may be.
LEMMA ShownPages ==
  ASSUME TypeOK
  PROVE  /\ DOMAIN previews \subseteq Pages
         /\ Missing(previews) \subseteq Pages
  <1>1. PICK m \in Pages \cup {0} : previews \in [1 .. m -> Bytes]
    BY DEF TypeOK
  <1> QED BY <1>1, PagesUpTo DEF Missing

LEMMA SourceType == TypeOK => Source \in Bytes
  BY DEF TypeOK, Source

\* What the steps of the previews leave of them.
LEMMA PreviewingTypes ==
  ASSUME TypeOK, LoopInv, Previewing
  PROVE  /\ \E m \in Pages \cup {0} : previews' \in [1 .. m -> Bytes]
         /\ fetches' \subseteq FetchRecords
         /\ loop' \in LoopRecords /\ LoopInv'
         /\ cached' \in Bytes
<1> USE ShownPages, SourceType
<1>0. /\ \E m \in Pages \cup {0} : previews \in [1 .. m -> Bytes]
      /\ fetches \subseteq FetchRecords /\ loop \in LoopRecords
      /\ cached \in Bytes /\ bytes \in Bytes
      /\ \A p \in Pages : p <= limits[2]
      /\ limits[2] \in Pages
  <2>1. \E m \in Pages \cup {0} : previews \in [1 .. m -> Bytes]
    BY DEF TypeOK
  <2>2. /\ fetches \subseteq FetchRecords /\ loop \in LoopRecords
        /\ cached \in Bytes /\ bytes \in Bytes
    BY DEF TypeOK, FetchRecords, LoopRecords
  <2> QED BY <2>1, <2>2, PagesUpTo
<1>1. Pages' = Pages
  BY PreviewingFrame DEF history, Pages
<1>2. ASSUME NEW p \in Pages, SelectPage(p)
      PROVE  /\ UNCHANGED <<previews, cached>>
             /\ fetches' \subseteq FetchRecords
             /\ loop' \in LoopRecords /\ LoopInv'
  <2>1. UNCHANGED <<previews, cached>>
    BY <1>2 DEF SelectPage, display
  <2>2. \A owner \in Tasks : <<task[owner].doc, "job">> \in Bytes
    BY BytesAre DEF TypeOK
  <2>3. job \in Tasks \cup {None} /\ lastJob \in Tasks \cup {None}
    BY DEF TypeOK
  <2>4. fetches' \subseteq FetchRecords
    BY <1>0, <1>2, <2>2, <2>3 DEF SelectPage, Fetch, FetchRecords
  <2>5. StartLoop(Missing(previews), Source)
    BY <1>2 DEF SelectPage
  <2>6. loop' \in LoopRecords /\ (loop'.at = "ask" => loop'.page \in Pages)
    BY <2>5, StartTypes
  <2> QED BY <1>1, <2>1, <2>4, <2>6 DEF LoopInv
<1>3. ASSUME NEW p \in Pages, RetryPreview(p)
      PROVE  /\ UNCHANGED <<previews, cached, loop>>
             /\ fetches' \subseteq FetchRecords
  BY <1>0, <1>3 DEF RetryPreview, display, Fetch, FetchRecords
<1>4. ASSUME NEW f \in fetches, Rendered(f)
      PROVE  /\ \E m \in Pages \cup {0} : previews' \in [1 .. m -> Bytes]
             /\ fetches' \subseteq FetchRecords
             /\ loop' \in LoopRecords /\ LoopInv'
             /\ cached' \in Bytes
  <2>1. fetches' \subseteq FetchRecords /\ f \in FetchRecords
    BY <1>0, <1>4 DEF Rendered
  <2>2. f.page \in Pages /\ f.of \in Bytes
    BY <2>1 DEF FetchRecords
  <2>3. CASE UNCHANGED <<previews, cached, loop>>
    BY <1>0, <1>1, <2>1, <2>3 DEF LoopInv
  <2>4. CASE /\ Show(f.page, f.of, limits[2]) /\ cached' = f.of
             /\ IF f.how = "load" THEN StartLoop(Missing(previews'), f.of)
                                  ELSE UNCHANGED loop
    <3>1. \E m \in Pages \cup {0} : previews' \in [1 .. m -> Bytes]
      BY <1>0, <2>2, <2>4, PreviewTypes DEF Show
    <3>2. Missing(previews') \subseteq Pages
      <4>1. PICK m \in Pages \cup {0} : previews' \in [1 .. m -> Bytes]
        BY <3>1
      <4> QED BY <4>1, PagesUpTo DEF Missing
    <3>3. loop' \in LoopRecords /\ (loop'.at = "ask" => loop'.page \in Pages)
      BY <1>0, <2>2, <2>4, <3>2, StartTypes DEF LoopInv
    <3> QED BY <1>1, <2>1, <2>2, <2>4, <3>1, <3>3 DEF LoopInv
  <2> QED BY <1>4, <2>3, <2>4 DEF Rendered
<1>5. ASSUME NEW f \in fetches, JobPreview(f)
      PROVE  /\ \E m \in Pages \cup {0} : previews' \in [1 .. m -> Bytes]
             /\ fetches' \subseteq FetchRecords
             /\ UNCHANGED <<loop, cached>>
  <2>1. f \in FetchRecords /\ UNCHANGED <<loop, cached>>
    BY <1>0, <1>5 DEF JobPreview
  <2>2. f.page \in Pages /\ f.of \in Bytes
    BY <2>1 DEF FetchRecords
  <2>3. fetches' \subseteq FetchRecords
    BY <1>0, <1>5, <2>2 DEF JobPreview, Fetch, FetchRecords
  <2>4. \/ UNCHANGED previews
        \/ f.page \in DOMAIN previews /\ previews' = [Padded(0) EXCEPT ![f.page] = f.of]
    BY <1>5 DEF JobPreview, Show
  <2>5. \E m \in Pages \cup {0} : previews' \in [1 .. m -> Bytes]
    <3>1. CASE UNCHANGED previews
      BY <1>0, <3>1
    <3>2. CASE /\ f.page \in DOMAIN previews
               /\ previews' = [Padded(0) EXCEPT ![f.page] = f.of]
      <4>1. \E m \in Pages \cup {0} :
              [Padded(0) EXCEPT ![f.page] = f.of] \in [1 .. m -> Bytes]
        BY <2>2, <3>2, PreviewTypes
      <4> QED BY <3>2, <4>1
    <3> QED BY <2>4, <3>1, <3>2
  <2> QED BY <2>1, <2>3, <2>5
<1>6. ASSUME Preloaded
      PROVE  /\ \E m \in Pages \cup {0} : previews' \in [1 .. m -> Bytes]
             /\ UNCHANGED fetches
             /\ loop' \in LoopRecords /\ loop'.at # "ask"
             /\ cached' \in Bytes
  <2>1. loop.page \in Pages /\ loop.of \in Bytes
    BY <1>0, <1>6 DEF Preloaded, LoopInv, LoopRecords
  <2>2. /\ UNCHANGED fetches /\ loop' \in {Loop("pause", 0, NoBytes), Idle}
        /\ \/ UNCHANGED <<previews, cached>>
           \/ /\ previews' = [Padded(loop.page) EXCEPT ![loop.page] = loop.of]
              /\ cached' = loop.of
    BY <1>6 DEF Preloaded, Show
  <2>3. \E m \in Pages \cup {0} : previews' \in [1 .. m -> Bytes]
    <3>1. loop.page <= loop.page
      BY <2>1, LimitsAre
    <3>2. \E m \in Pages \cup {0} :
            [Padded(loop.page) EXCEPT ![loop.page] = loop.of] \in [1 .. m -> Bytes]
      BY <2>1, <3>1, PreviewTypes
    <3> QED BY <1>0, <2>2, <3>2
  <2>4. loop' \in LoopRecords /\ loop'.at # "ask"
    BY <2>2, BytesAre DEF Loop, Idle, LoopRecords
  <2> QED BY <1>0, <2>1, <2>2, <2>3, <2>4
<1>7. ASSUME LoopWakes
      PROVE  /\ UNCHANGED <<previews, fetches, cached>>
             /\ loop' \in LoopRecords /\ LoopInv'
  <2>1. UNCHANGED <<previews, fetches, cached>>
    BY <1>7 DEF LoopWakes, display
  <2>2. CASE Turn(Missing(previews), Source)
    BY <1>1, <2>1, <2>2, TurnTypes DEF LoopInv
  <2>3. CASE loop' = Idle
    BY <1>1, <2>1, <2>3, IdleIsLoop DEF LoopInv
  <2> QED BY <1>7, <2>2, <2>3 DEF LoopWakes
<1>8. UNCHANGED loop => LoopInv'
  BY <1>1 DEF LoopInv
<1> QED BY <1>0, <1>2, <1>3, <1>4, <1>5, <1>6, <1>7, <1>8 DEF Previewing, LoopInv

\* Everything but the previews keeps its type, and runs stay runs.
LEMMA TypeStep ==
  TypeOK /\ LoopInv /\ RunInv /\ [Next]_vars => TypeOK' /\ LoopInv' /\ RunInv'
<1> SUFFICES ASSUME TypeOK, LoopInv, RunInv, [Next]_vars
             PROVE  TypeOK' /\ LoopInv' /\ RunInv'
  OBVIOUS
<1> DEFINE
  Links == {job, lastJob, last, held, socket}
  Shown == \E m \in Pages \cup {0} : previews' \in [1 .. m -> Bytes]
<1>0. /\ limits' = limits /\ limits' \in Limits
      /\ Tasks' = Tasks /\ Pages' = Pages
  BY LimitsStay DEF TypeOK, Tasks, Pages
\* What must be shown of a step.
<1>1. ASSUME bytes' \in Bytes, cached' \in Bytes, Shown, boxes' \subseteq 1 .. MaxDocs,
             busy' \in BOOLEAN, hasty' \in BOOLEAN, docs' \in 0 .. MaxDocs,
             Links' \subseteq Tasks \cup {None},
             listeners' \subseteq Tasks, sockets' \subseteq Tasks,
             fetches' \subseteq FetchRecords, loop' \in LoopRecords,
             task' \in [Tasks -> TaskRecords]
      PROVE  TypeOK'
  BY <1>0, <1>1 DEF TypeOK, FetchRecords, LoopRecords, TaskRecords, Kinds, Places
<1>2. /\ bytes \in Bytes /\ cached \in Bytes /\ boxes \subseteq 1 .. MaxDocs
      /\ busy \in BOOLEAN /\ hasty \in BOOLEAN /\ docs \in 0 .. MaxDocs
      /\ Links \subseteq Tasks \cup {None}
      /\ listeners \subseteq Tasks /\ sockets \subseteq Tasks
      /\ fetches \subseteq FetchRecords /\ loop \in LoopRecords
      /\ task \in [Tasks -> TaskRecords]
      /\ \E m \in Pages \cup {0} : previews \in [1 .. m -> Bytes]
  <2>1. \E m \in Pages \cup {0} : previews \in [1 .. m -> Bytes]
    BY DEF TypeOK
  <2>2. task \in [Tasks -> TaskRecords]
    BY DEF TypeOK, TaskRecords, Kinds, Places
  <2> QED BY <2>1, <2>2 DEF TypeOK, FetchRecords, LoopRecords
<1>3. /\ \A t \in Tasks :
           /\ IsRun(t) => task[t].doc # 0
           /\ task[t].at \in {"open", "connect", "swap", "http"} => IsRun(t)
           /\ task[t].at = "asked" => task[t].kind = "cancel"
           /\ task[t].at \in {"drop", "leave"} => task[t].kind # "none"
      /\ \A s \in sockets : IsRun(s)
      /\ bytes = NoBytes \/ DocOf(bytes) # 0
  BY DEF RunInv
\* The runs when one task has moved, and stays what it is or ends.
<1>4. ASSUME NEW t \in Tasks, \A u \in Tasks : u # t => task'[u] = task[u],
             \/ /\ task'[t].kind = task[t].kind /\ task'[t].doc = task[t].doc
                /\ task'[t].at \in {"open", "connect", "swap", "http"} => IsRun(t)
                /\ task'[t].at \in {"drop", "leave"} => task[t].kind # "none"
                /\ task'[t].at # "asked"
             \/ task'[t].kind = "none" /\ ~IsRun(t) /\ task'[t].at = "done",
             \A s \in sockets' : s \in sockets \/ (s = t /\ IsRun(t)),
             bytes' = NoBytes \/ DocOf(bytes') # 0
      PROVE  RunInv'
  BY <1>0, <1>2, <1>3, <1>4 DEF RunInv, IsRun
<1>5. ASSUME UNCHANGED <<task, sockets>>, bytes' = NoBytes \/ DocOf(bytes') # 0
      PROVE  RunInv'
  BY <1>0, <1>3, <1>5 DEF RunInv, IsRun
<1>6. UNCHANGED loop \/ loop'.at # "ask" => LoopInv'
  BY <1>0 DEF LoopInv
<1>7. /\ OldLoop \in LoopRecords /\ OldLoop.at # "ask" /\ FromJobs \subseteq FetchRecords
      /\ NoBytes \in Bytes
  BY IdleIsLoop, BytesAre
<1> HIDE DEF Links, Shown
<1>8. CASE UNCHANGED vars
  BY <1>1, <1>2, <1>3, <1>5, <1>6, <1>8
  DEF vars, display, wire, loading, history, Links, Shown
<1>9. CASE Previewing
  BY <1>1, <1>2, <1>3, <1>5, <1>9, PreviewingTypes, PreviewingFrame
  DEF wire, history, Links, Shown
<1>10. CASE Load
  <2>1. /\ bytes' = <<docs + 1, "source">> /\ docs < MaxDocs /\ docs' = docs + 1
        /\ boxes' = {} /\ busy' = FALSE /\ job' = None /\ lastJob' = None
        /\ cached' = NoBytes /\ loop' = OldLoop
        /\ UNCHANGED <<last, wire, task>>
        /\ hasty' = (hasty \/ Waiting # {})
    BY <1>10 DEF Load
  <2>2. docs + 1 \in 0 .. MaxDocs /\ docs + 1 # 0
    BY <1>2, <2>1, LimitsAre
  <2>3. bytes' \in Bytes /\ DocOf(bytes') # 0
    BY <2>1, <2>2, BytesAre DEF DocOf
  <2>4. Shown
    <3>1. PICK n \in Pages : previews' = [p \in 1 .. n |-> NoBytes]
      BY <1>10 DEF Load
    <3>2. previews' \in [1 .. n -> Bytes]
      BY <1>7, <3>1
    <3> QED BY <3>2 DEF Shown
  <2>5. fetches' \subseteq FetchRecords
    <3>1. 1 \in Pages
      BY LimitsAre DEF Pages
    <3>2. Fetch(1, <<docs + 1, "source">>, "load") \in FetchRecords
      BY <2>2, <3>1, BytesAre DEF Fetch, FetchRecords
    <3>3. fetches' = FromJobs \cup
            {Fetch(1, <<docs + 1, "source">>, "load") : p \in 1 .. limits[3]}
      BY <1>10 DEF Load
    <3> QED BY <1>7, <3>2, <3>3
  <2>6. Links' \subseteq Tasks \cup {None}
    BY <1>2, <2>1 DEF Links, wire
  <2>7. TypeOK'
    BY <1>1, <1>2, <1>7, <2>1, <2>2, <2>3, <2>4, <2>5, <2>6 DEF wire
  <2> QED BY <1>5, <1>6, <1>7, <2>1, <2>3, <2>7 DEF wire
<1>11. ASSUME NEW t \in Tasks, Process(t) \/ Cancel(t) \/ Clear(t)
       PROVE  TypeOK' /\ LoopInv' /\ RunInv'
  <2>1. /\ UNCHANGED <<bytes, previews, boxes, lastJob, sockets, held, socket, docs>>
        /\ busy' \in {TRUE, busy} /\ job' \in {None, job} /\ last' \in {None, last}
        /\ hasty' \in {TRUE, FALSE, hasty}
        /\ \/ UNCHANGED <<cached, fetches, loop>>
           \/ cached' = NoBytes /\ fetches' = FromJobs /\ loop' = OldLoop
        /\ listeners' \subseteq listeners
    BY <1>11
    DEF Process, Cancel, Clear, display, wire, loading, history, Outdate
  <2>2. \E kind \in {"sync", "async", "cancel", "clear"},
           where \in {"open", "asked", "drop"}, doc \in 0 .. MaxDocs :
          /\ Begins(t, kind, where, doc)
          /\ kind \in {"sync", "async"} <=> where = "open"
          /\ kind = "cancel" <=> where = "asked"
          /\ where = "open" => doc # 0
    <3>1. CASE Process(t)
      <4>1. DocOf(bytes) \in 0 .. MaxDocs /\ DocOf(bytes) # 0
        BY <1>2, <1>3, <3>1, BytesAre DEF Process
      <4> QED BY <3>1, <4>1 DEF Process
    <3>2. CASE Cancel(t)
      <4>1. 0 \in 0 .. MaxDocs
        BY LimitsAre
      <4> QED BY <3>2, <4>1 DEF Cancel
    <3>3. CASE Clear(t)
      <4>1. 0 \in 0 .. MaxDocs
        BY LimitsAre
      <4> QED BY <3>3, <4>1 DEF Clear
    <3> QED BY <1>11, <3>1, <3>2, <3>3
  <2>3. PICK kind \in {"sync", "async", "cancel", "clear"},
             where \in {"open", "asked", "drop"}, doc \in 0 .. MaxDocs :
          /\ Begins(t, kind, where, doc)
          /\ kind \in {"sync", "async"} <=> where = "open"
          /\ kind = "cancel" <=> where = "asked"
          /\ where = "open" => doc # 0
    BY <2>2
  <2>4. kind \in Kinds /\ where \in Places
    BY DEF Kinds, Places
  <2>5. /\ task' \in [Tasks -> TaskRecords] /\ task[t] = NoTask
        /\ task'[t] = [kind |-> kind, at |-> where, doc |-> doc]
        /\ \A u \in Tasks : u # t => task'[u] = task[u]
    BY <1>2, <2>3, <2>4, TaskBegins
  <2>6. RunInv'
    <3>1. t \notin sockets
      BY <1>3, <2>5 DEF IsRun, NoTask
    <3>2. \A u \in Tasks :
            /\ IsRun(u)' => task'[u].doc # 0
            /\ task'[u].at \in {"open", "connect", "swap", "http"} => IsRun(u)'
            /\ task'[u].at = "asked" => task'[u].kind = "cancel"
            /\ task'[u].at \in {"drop", "leave"} => task'[u].kind # "none"
      BY <1>3, <2>3, <2>5 DEF IsRun
    <3>3. \A s \in sockets' : s \in Tasks /\ s # t /\ IsRun(s)
      BY <1>2, <1>3, <2>1, <3>1
    <3>4. \A s \in sockets' : task'[s].kind \in {"sync", "async"}
      BY <2>5, <3>3 DEF IsRun
    <3> QED BY <1>0, <1>3, <2>1, <3>2, <3>4 DEF RunInv, IsRun
  <2>7. Links' \subseteq Tasks \cup {None} /\ Shown
    BY <1>2, <2>1 DEF Links, Shown
  <2> QED BY <1>1, <1>2, <1>6, <1>7, <2>1, <2>5, <2>6, <2>7
\* A task that goes on, by what changes with it.
<1>12. ASSUME NEW t \in Tasks,
              Dropped(t) \/ Left(t) \/ Opened(t) \/ Connected(t) \/ Listens(t)
              \/ SyncAnswered(t) \/ AsyncAnswered(t) \/ CancelAnswered(t)
       PROVE  TypeOK' /\ LoopInv' /\ RunInv'
  <2>1. /\ listeners' \subseteq listeners \cup {t}
        /\ sockets' \subseteq sockets \cup {t}
        /\ held' \in {None, t, held} /\ socket' \in {None, t, socket}
        /\ last' \in {None, t, last}
        /\ UNCHANGED <<docs, hasty>>
        /\ \/ UNCHANGED <<cached, fetches, loop>>
           \/ cached' = NoBytes /\ fetches' = FromJobs /\ loop' = OldLoop
    <3>1. CASE Dropped(t) \/ Left(t)
      BY <3>1 DEF Dropped, Left, Finish, wire, loading, history
    <3>2. CASE Opened(t) \/ Connected(t) \/ Listens(t)
      BY <3>2
      DEF Opened, Connected, Listens, Teardown, Outdate, wire, loading, history
    <3>3. CASE SyncAnswered(t) \/ AsyncAnswered(t) \/ CancelAnswered(t)
      BY <3>3
      DEF SyncAnswered, AsyncAnswered, CancelAnswered, Teardown, Outdate, loading,
          history
    <3> QED BY <1>12, <3>1, <3>2, <3>3
  <2>2. \/ Finish(t) /\ task[t].at \in {"drop", "leave"} /\ sockets' \subseteq sockets
        \/ /\ \E where \in {"connect", "swap", "http", "drop", "leave", "done"} :
                 /\ task' = [task EXCEPT ![t].at = where]
                 /\ where \in {"connect", "swap", "http"} => IsRun(t)
                 /\ where \in {"drop", "leave"} => task[t].kind # "none"
           /\ sockets' \subseteq sockets \/ IsRun(t)
           /\ UNCHANGED <<previews, boxes>>
           /\ \/ UNCHANGED <<bytes, busy, job, lastJob>>
              \/ /\ bytes' = bytes \/ (bytes' = <<task[t].doc, "result">> /\ IsRun(t))
                 /\ busy' \in {TRUE, FALSE}
                 /\ UNCHANGED <<job, lastJob>> \/ (job' = t /\ lastJob' = t)
    <3>0. /\ task[t].at \in {"open", "connect", "swap", "http"} => IsRun(t)
          /\ task[t].at \in {"open", "connect", "swap", "http", "asked", "drop",
                             "leave"} => task[t].kind # "none"
      BY <1>3 DEF IsRun
    <3>1. CASE Dropped(t)
      BY <3>0, <3>1 DEF Dropped, At, display
    <3>2. CASE Left(t)
      BY <3>0, <3>2 DEF Left, wire
    <3>3. CASE Opened(t)
      BY <3>0, <3>3 DEF Opened, Teardown, At, wire, loading
    <3>4. CASE Connected(t) \/ Listens(t)
      BY <3>0, <3>4 DEF Connected, Listens, At, display
    <3>5. CASE SyncAnswered(t)
      BY <3>0, <3>5 DEF SyncAnswered, Teardown, At
    <3>6. CASE AsyncAnswered(t)
      BY <3>0, <3>6 DEF AsyncAnswered, Teardown, At, loading
    <3>7. CASE CancelAnswered(t)
      BY <3>0, <3>7 DEF CancelAnswered, Teardown, At, display
    <3> QED BY <1>12, <3>1, <3>2, <3>3, <3>4, <3>5, <3>6, <3>7
  <2>3. /\ cached' \in Bytes /\ fetches' \subseteq FetchRecords
        /\ loop' \in LoopRecords /\ LoopInv'
        /\ listeners' \subseteq Tasks /\ sockets' \subseteq Tasks
        /\ docs' \in 0 .. MaxDocs /\ hasty' \in BOOLEAN
    BY <1>2, <1>6, <1>7, <2>1
  <2>4. CASE Finish(t) /\ task[t].at \in {"drop", "leave"} /\ sockets' \subseteq sockets
    <3>1. task[t].kind \in Kinds \ {"none"}
      BY <1>2, <1>3, <2>4 DEF TaskRecords
    <3>2. /\ task' \in [Tasks -> TaskRecords] /\ task'[t].at = "done"
          /\ task[t].kind \in {"cancel", "clear"} => task'[t].kind = "none"
          /\ task[t].kind \notin {"cancel", "clear"} =>
               task'[t].kind = task[t].kind /\ task'[t].doc = task[t].doc
          /\ \A u \in Tasks : u # t => task'[u] = task[u]
      BY <1>2, <2>4, TaskEnds
    <3>3. /\ bytes' \in {bytes, NoBytes} /\ boxes' \in {boxes, {}}
          /\ busy' \in {busy, FALSE} /\ job' \in {job, None}
          /\ lastJob' \in {lastJob, None}
          /\ previews' = previews \/ previews' = [p \in {} |-> NoBytes]
      BY <2>4, <3>1, EndDisplays DEF display
    <3>4. Shown
      <4>1. CASE previews' = previews
        BY <1>2, <4>1 DEF Shown
      <4>2. CASE previews' = [p \in {} |-> NoBytes]
        <5>1. previews' \in [1 .. 0 -> Bytes]
          BY <4>2
        <5> QED BY <5>1 DEF Shown
      <4> QED BY <3>3, <4>1, <4>2
    <3>5. Links' \subseteq Tasks \cup {None}
      BY <1>2, <2>1, <3>3 DEF Links
    <3>6. TypeOK'
      BY <1>1, <1>2, <1>7, <2>3, <3>2, <3>3, <3>4, <3>5
    <3>7. RunInv'
      <4>1. /\ bytes' = NoBytes \/ DocOf(bytes') # 0
            /\ \A s \in sockets' : s \in sockets
        BY <1>3, <2>4, <3>3
      <4>2. \/ /\ task'[t].kind = task[t].kind /\ task'[t].doc = task[t].doc
            \/ task'[t].kind = "none" /\ ~IsRun(t)
        BY <3>1, <3>2 DEF IsRun, Kinds
      <4> QED BY <1>4, <3>2, <4>1, <4>2
    <3> QED BY <2>3, <3>6, <3>7
  <2>5. CASE /\ \E where \in {"connect", "swap", "http", "drop", "leave", "done"} :
                   /\ task' = [task EXCEPT ![t].at = where]
                   /\ where \in {"connect", "swap", "http"} => IsRun(t)
                   /\ where \in {"drop", "leave"} => task[t].kind # "none"
             /\ sockets' \subseteq sockets \/ IsRun(t)
             /\ UNCHANGED <<previews, boxes>>
             /\ \/ UNCHANGED <<bytes, busy, job, lastJob>>
                \/ /\ bytes' = bytes \/ (bytes' = <<task[t].doc, "result">> /\ IsRun(t))
                   /\ busy' \in {TRUE, FALSE}
                   /\ UNCHANGED <<job, lastJob>> \/ (job' = t /\ lastJob' = t)
    <3>1. PICK where \in {"connect", "swap", "http", "drop", "leave", "done"} :
            /\ task' = [task EXCEPT ![t].at = where]
            /\ where \in {"connect", "swap", "http"} => IsRun(t)
            /\ where \in {"drop", "leave"} => task[t].kind # "none"
      BY <2>5
    <3>2. /\ task' \in [Tasks -> TaskRecords] /\ task'[t].at = where
          /\ task'[t].kind = task[t].kind /\ task'[t].doc = task[t].doc
          /\ \A u \in Tasks : u # t => task'[u] = task[u]
      BY <1>2, <3>1, TaskAt DEF Places
    <3>3. task[t].doc \in 0 .. MaxDocs
      BY <1>2 DEF TaskRecords
    <3>4. bytes' \in Bytes /\ (bytes' = NoBytes \/ DocOf(bytes') # 0)
      <4>1. CASE bytes' = bytes
        BY <1>2, <1>3, <4>1
      <4>2. CASE bytes' = <<task[t].doc, "result">> /\ IsRun(t)
        BY <1>3, <3>3, <4>2, BytesAre DEF DocOf
      <4> QED BY <2>5, <4>1, <4>2
    <3>5. Shown /\ boxes' \subseteq 1 .. MaxDocs /\ busy' \in BOOLEAN
      BY <1>2, <2>5 DEF Shown
    <3>6. Links' \subseteq Tasks \cup {None}
      BY ZenonT(30), <1>2, <2>1, <2>5 DEF Links
    <3>7. TypeOK'
      BY <1>1, <2>3, <3>2, <3>4, <3>5, <3>6
    <3>8. RunInv'
      <4>1. \A s \in sockets' : s \in sockets \/ (s = t /\ IsRun(t))
        BY <2>1, <2>5
      <4> QED BY <1>4, <3>1, <3>2, <3>4, <4>1
    <3> QED BY <2>3, <3>7, <3>8
  <2> QED BY <2>2, <2>4, <2>5
<1>13. ASSUME NEW s \in Tasks, Frame(s) PROVE TypeOK' /\ LoopInv' /\ RunInv'
  <2>1. /\ s \in sockets
        /\ UNCHANGED <<bytes, job, lastJob, held, listeners, socket, sockets,
                       fetches, loop, cached, task, docs, hasty>>
        /\ boxes' \in {boxes, boxes \cup {task[s].doc}}
        /\ busy' \in {busy, FALSE} /\ last' \in {last, s}
        /\ previews' = previews \/ \E p \in Pages : previews' = Padded(p)
    BY <1>13 DEF Frame, wire, loading, history
  <2>2. task[s].doc \in 1 .. MaxDocs
    <3>1. task[s].doc \in 0 .. MaxDocs /\ task[s].doc # 0
      BY <1>2, <1>3, <2>1 DEF TaskRecords
    <3> QED BY <3>1, LimitsAre
  <2>3. Shown
    <3>1. CASE previews' = previews
      BY <1>2, <3>1 DEF Shown
    <3>2. ASSUME NEW p \in Pages, previews' = Padded(p) PROVE Shown
      <4>1. p <= p
        BY LimitsAre
      <4> QED BY <1>7, <3>2, <4>1, PreviewTypes DEF Shown
    <3> QED BY <2>1, <3>1, <3>2
  <2>4. Links' \subseteq Tasks \cup {None}
    BY <1>2, <2>1 DEF Links
  <2>5. TypeOK'
    BY <1>1, <1>2, <2>1, <2>2, <2>3, <2>4
  <2> QED BY <1>3, <1>5, <1>6, <2>1, <2>5
<1> QED
  BY <1>8, <1>9, <1>10, <1>11, <1>12, <1>13
  DEF Next, Command, Resumes, Arrives, Previewing

-----------------------------------------------------------------------------
(* Previews of the bytes that are loaded.                                  *)

\* All that is on its way, cached, or asked for by the preloader is of the
\* bytes that are loaded; jobs are asked for their own.
FetchInv ==
  /\ \A f \in fetches : f.how = "job" => f.of[2] = "job"
  /\ bytes # NoBytes =>
       /\ \A f \in fetches : f.how # "job" => f.of = bytes
       /\ loop.at = "ask" => loop.of = bytes
       /\ cached \in {NoBytes, bytes}

\* What ends the generation leaves nothing of it on its way.
LEMMA OutdatedFetches ==
  ASSUME TypeOK, FetchInv, cached' = NoBytes, fetches' = FromJobs, loop' = OldLoop
  PROVE  FetchInv'
  BY IdleIsLoop DEF FetchInv, FromJobs

\* How the previews may change.
Showing ==
  \A p \in DOMAIN previews' :
    \/ previews'[p] = NoBytes \/ previews'[p][2] = "job"
    \/ p \in DOMAIN previews /\ previews'[p] = previews[p]
    \/ previews'[p] = bytes'

LEMMA PaddedShows ==
  ASSUME TypeOK, NEW n \in Pages \cup {0}, NEW b \in Bytes,
         NEW p \in Pages, p \in DOMAIN previews \/ p <= n,
         previews' = [Padded(n) EXCEPT ![p] = b], b = bytes' \/ b[2] = "job"
  PROVE  Showing
  <1>1. PICK m \in Pages \cup {0} : previews' \in [1 .. m -> Bytes]
    BY PreviewTypes
  <1>2. /\ DOMAIN previews' = DOMAIN Padded(n)
        /\ p \in DOMAIN Padded(n) /\ previews'[p] = b
        /\ \A q \in DOMAIN Padded(n) : q # p => previews'[q] = Padded(n)[q]
    BY PreviewTypes
  <1>3. \A q \in DOMAIN Padded(n) : \/ Padded(n)[q] = NoBytes
                                    \/ q \in DOMAIN previews /\ Padded(n)[q] = previews[q]
    BY DEF Padded
  <1> QED BY <1>2, <1>3 DEF Showing

\* The steps of the previews.
LEMMA PreviewingShows ==
  ASSUME TypeOK, LoopInv, FetchInv, Previewing
  PROVE  FetchInv' /\ Showing
<1>0. /\ UNCHANGED bytes /\ bytes \in Bytes
      /\ fetches \subseteq FetchRecords /\ loop \in LoopRecords
      /\ \A p \in Pages : p <= limits[2]
      /\ limits[2] \in Pages
      /\ Missing(previews) \subseteq Pages /\ Source \in Bytes
      /\ bytes # NoBytes => Source = bytes
  <2>1. fetches \subseteq FetchRecords /\ loop \in LoopRecords /\ bytes \in Bytes
    BY DEF TypeOK, FetchRecords, LoopRecords
  <2>2. bytes # NoBytes => Source = bytes
    BY DEF FetchInv, Source
  <2> QED BY <2>1, <2>2, PreviewingFrame, PagesUpTo, ShownPages, SourceType
<1>1. UNCHANGED previews => Showing
  BY DEF Showing
<1>2. ASSUME NEW p \in Pages, SelectPage(p) PROVE FetchInv' /\ Showing
  <2>1. /\ UNCHANGED <<previews, cached>> /\ bytes # NoBytes
        /\ StartLoop(Missing(previews), Source)
        /\ \/ fetches' = fetches
           \/ \E of : fetches' = fetches \cup {Fetch(p, <<of, "job">>, "job")}
           \/ fetches' = fetches \cup {Fetch(p, Source, "page")}
    BY <1>2 DEF SelectPage, display
  <2>2. loop' = loop \/ (loop'.at = "ask" => loop'.of = Source)
    BY <1>0, <2>1, StartTypes
  <2> QED BY <1>0, <1>1, <2>1, <2>2 DEF FetchInv, Fetch
<1>3. ASSUME NEW p \in Pages, RetryPreview(p) PROVE FetchInv' /\ Showing
  <2>1. /\ UNCHANGED <<previews, cached, loop>> /\ bytes # NoBytes
        /\ fetches' = fetches \cup {Fetch(p, Source, "page")}
    BY <1>3 DEF RetryPreview, display
  <2> QED BY <1>0, <1>1, <2>1 DEF FetchInv, Fetch
<1>4. ASSUME NEW f \in fetches, Rendered(f) PROVE FetchInv' /\ Showing
  <2>1. fetches' = fetches \ {f} /\ f.how # "job" /\ f \in FetchRecords
    BY <1>0, <1>4 DEF Rendered
  <2>2. f.page \in Pages /\ f.of \in Bytes
    BY <2>1 DEF FetchRecords
  <2>3. CASE UNCHANGED <<previews, cached, loop>>
    BY <1>0, <1>1, <2>1, <2>3 DEF FetchInv
  <2>4. CASE /\ bytes # NoBytes
             /\ Show(f.page, f.of, limits[2]) /\ cached' = f.of
             /\ IF f.how = "load" THEN StartLoop(Missing(previews'), f.of)
                                  ELSE UNCHANGED loop
    <3>1. f.of = bytes
      BY <2>1, <2>4 DEF FetchInv
    <3>2. Showing
      BY <1>0, <2>2, <2>4, <3>1, PaddedShows DEF Show
    <3>3. Missing(previews') \subseteq Pages
      <4>1. PICK m \in Pages \cup {0} : previews' \in [1 .. m -> Bytes]
        BY PreviewingTypes
      <4> QED BY <4>1, PagesUpTo DEF Missing
    <3>4. loop' = loop \/ (loop'.at = "ask" => loop'.of = f.of)
      BY <2>2, <2>4, <3>3, StartTypes
    <3> QED BY <1>0, <2>1, <2>4, <3>1, <3>2, <3>4 DEF FetchInv
  <2> QED BY <1>4, <2>3, <2>4 DEF Rendered
<1>5. ASSUME NEW f \in fetches, JobPreview(f) PROVE FetchInv' /\ Showing
  <2>1. /\ f \in FetchRecords /\ UNCHANGED <<loop, cached>>
        /\ f.how = "job" /\ f.of[2] = "job"
    BY <1>0, <1>5 DEF JobPreview, FetchInv
  <2>2. f.page \in Pages /\ f.of \in Bytes
    BY <2>1 DEF FetchRecords
  <2>3. \/ fetches' \subseteq fetches
        \/ bytes # NoBytes /\ fetches' = (fetches \ {f}) \cup {Fetch(f.page, Source, "page")}
    BY <1>5 DEF JobPreview
  <2>4. \/ UNCHANGED previews
        \/ f.page \in DOMAIN previews /\ previews' = [Padded(0) EXCEPT ![f.page] = f.of]
    BY <1>5 DEF JobPreview, Show
  <2>5. Showing
    <3>1. CASE f.page \in DOMAIN previews /\ previews' = [Padded(0) EXCEPT ![f.page] = f.of]
      BY <2>1, <2>2, <3>1, PaddedShows
    <3> QED BY <1>1, <2>4, <3>1
  <2>6. FetchInv'
    BY <1>0, <2>1, <2>3 DEF FetchInv, Fetch
  <2> QED BY <2>5, <2>6
<1>6. ASSUME Preloaded PROVE FetchInv' /\ Showing
  <2>1. loop.page \in Pages /\ loop.of \in Bytes /\ loop.at = "ask"
    BY <1>0, <1>6 DEF Preloaded, LoopInv, LoopRecords
  <2>2. /\ UNCHANGED fetches /\ loop' \in {Loop("pause", 0, NoBytes), Idle}
        /\ \/ UNCHANGED <<previews, cached>>
           \/ /\ previews' = [Padded(loop.page) EXCEPT ![loop.page] = loop.of]
              /\ cached' = loop.of /\ bytes # NoBytes
    BY <1>6 DEF Preloaded, Show
  <2>3. loop'.at # "ask"
    BY <2>2 DEF Loop, Idle
  <2>4. bytes # NoBytes => loop.of = bytes
    BY <2>1 DEF FetchInv
  <2>5. Showing
    <3>1. loop.page <= loop.page
      BY <2>1, LimitsAre
    <3>2. CASE /\ previews' = [Padded(loop.page) EXCEPT ![loop.page] = loop.of]
               /\ bytes # NoBytes
      BY <1>0, <2>1, <2>4, <3>1, <3>2, PaddedShows
    <3> QED BY <1>1, <2>2, <3>2
  <2>6. FetchInv'
    BY <1>0, <2>2, <2>3, <2>4 DEF FetchInv
  <2> QED BY <2>5, <2>6
<1>7. ASSUME LoopWakes PROVE FetchInv' /\ Showing
  <2>1. /\ UNCHANGED <<previews, fetches, cached>>
        /\ loop' = Idle \/ (bytes # NoBytes /\ Turn(Missing(previews), Source))
    BY <1>7 DEF LoopWakes, display
  <2>2. loop'.at = "ask" => bytes # NoBytes /\ loop'.of = Source
    BY <1>0, <2>1, TurnTypes, IdleIsLoop
  <2> QED BY <1>0, <1>1, <2>1, <2>2 DEF FetchInv
<1> QED BY <1>2, <1>3, <1>4, <1>5, <1>6, <1>7 DEF Previewing

\* Every step keeps the previews current.
LEMMA ShowStep ==
  TypeOK /\ LoopInv /\ RunInv /\ FetchInv /\ [Next]_vars => FetchInv' /\ [Showing]_vars
<1> SUFFICES ASSUME TypeOK, LoopInv, RunInv, FetchInv, [Next]_vars
             PROVE  FetchInv' /\ (Showing \/ UNCHANGED vars)
  BY DEF Showing
<1>1. UNCHANGED previews => Showing
  BY DEF Showing
<1>2. CASE UNCHANGED vars
  BY <1>2 DEF vars, display, loading, FetchInv
<1>3. CASE Previewing
  BY <1>3, PreviewingShows
<1>4. CASE Load
  <2>1. /\ bytes' = <<docs + 1, "source">> /\ cached' = NoBytes /\ loop' = OldLoop
        /\ fetches' = FromJobs \cup
             {Fetch(1, <<docs + 1, "source">>, "load") : p \in 1 .. limits[3]}
    BY <1>4 DEF Load
  <2>2. \A f \in fetches' : \/ f \in fetches /\ f.how = "job"
                            \/ f.how = "load" /\ f.of = bytes'
    BY <2>1 DEF FromJobs, Fetch
  <2>3. FetchInv'
    BY <2>1, <2>2, IdleIsLoop DEF FetchInv
  <2>4. Showing
    BY <1>4 DEF Load, Showing
  <2> QED BY <2>3, <2>4
<1>5. ASSUME NEW t \in Tasks, Process(t) \/ Cancel(t) \/ Clear(t)
      PROVE  FetchInv' /\ Showing
  <2>1. /\ UNCHANGED <<bytes, previews>>
        /\ \/ UNCHANGED <<cached, fetches, loop>>
           \/ cached' = NoBytes /\ fetches' = FromJobs /\ loop' = OldLoop
    BY <1>5 DEF Process, Cancel, Clear, display, loading, Outdate
  <2>2. UNCHANGED <<bytes, cached, fetches, loop>> => FetchInv'
    BY DEF FetchInv
  <2> QED BY <1>1, <2>1, <2>2, OutdatedFetches
<1>6. ASSUME NEW t \in Tasks,
             Opened(t) \/ Connected(t) \/ Listens(t) \/ AsyncAnswered(t)
             \/ SyncAnswered(t) \/ CancelAnswered(t)
      PROVE  FetchInv' /\ Showing
  <2>1. /\ UNCHANGED previews
        /\ \/ UNCHANGED <<bytes, cached, fetches, loop>>
           \/ cached' = NoBytes /\ fetches' = FromJobs /\ loop' = OldLoop
    BY <1>6
    DEF Opened, Connected, Listens, AsyncAnswered, SyncAnswered, CancelAnswered,
        Teardown, Outdate, display, loading
  <2>2. UNCHANGED <<bytes, cached, fetches, loop>> => FetchInv'
    BY DEF FetchInv
  <2> QED BY <1>1, <2>1, <2>2, OutdatedFetches
<1>7. ASSUME NEW t \in Tasks, Dropped(t) \/ Left(t) PROVE FetchInv' /\ Showing
  <2>1. UNCHANGED <<cached, fetches, loop>>
    BY <1>7 DEF Dropped, Left, loading
  <2>2. \/ UNCHANGED <<bytes, previews>>
        \/ bytes' = NoBytes /\ previews' = [p \in {} |-> NoBytes]
    <3>1. UNCHANGED display \/ Finish(t)
      BY <1>7 DEF Dropped, Left
    <3>2. task[t].kind \in Kinds \ {"none"}
      <4>1. task[t].at \in {"drop", "leave"}
        BY <1>7 DEF Dropped, Left
      <4>2. task[t] \in TaskRecords
        BY DEF TypeOK, TaskRecords, Kinds, Places
      <4> QED BY <4>1, <4>2 DEF RunInv, TaskRecords
    <3> QED BY <3>1, <3>2, EndDisplays DEF display
  <2>3. Showing
    BY <2>2 DEF Showing
  <2>4. FetchInv'
    BY <2>1, <2>2 DEF FetchInv
  <2> QED BY <2>3, <2>4
<1>8. ASSUME NEW s \in Tasks, Frame(s) PROVE FetchInv' /\ Showing
  <2>1. /\ UNCHANGED <<bytes, cached, fetches, loop>>
        /\ \/ UNCHANGED previews
           \/ \E p \in Pages : previews' = Padded(p)
    BY <1>8 DEF Frame, loading
  <2>2. Showing
    <3>1. ASSUME NEW p \in Pages, previews' = Padded(p) PROVE Showing
      BY <3>1 DEF Showing, Padded
    <3> QED BY <1>1, <2>1, <3>1
  <2>3. FetchInv'
    BY <2>1 DEF FetchInv
  <2> QED BY <2>2, <2>3
<1> QED
  BY <1>2, <1>3, <1>4, <1>5, <1>6, <1>7, <1>8
  DEF Next, Command, Resumes, Arrives, Previewing

-----------------------------------------------------------------------------
(* What is being processed.                                                *)

\* A run that will end the processing.
WillEnd(t) ==
  \/ task[t].kind = "sync" /\ task[t].at \in {"open", "connect", "swap", "http"}
  \/ task[t].kind = "async" /\ Live(t)

BusyInv == busy => job # None \/ \E t \in Tasks : WillEnd(t)

LEMMA BusyStep ==
  TypeOK /\ LoopInv /\ RunInv /\ BusyInv /\ [Next]_vars => BusyInv'
<1> SUFFICES ASSUME TypeOK, LoopInv, RunInv, BusyInv, [Next]_vars PROVE BusyInv'
  OBVIOUS
<1>0. /\ Tasks' = Tasks /\ task \in [Tasks -> TaskRecords]
      /\ None \notin Tasks
  BY LimitsStay, LimitsAre DEF TypeOK, Tasks, TaskRecords, Kinds, Places
<1>1. ASSUME UNCHANGED <<busy, job, task>> PROVE BusyInv'
  BY <1>0, <1>1 DEF BusyInv, WillEnd, Live
<1>2. busy' = FALSE => BusyInv'
  BY DEF BusyInv
\* One task moves and goes on.
<1>3. ASSUME NEW t \in Tasks, NEW where \in Places \ {"none"},
             task' = [task EXCEPT ![t].at = where], UNCHANGED <<busy, job>>,
             WillEnd(t) => \/ where \notin {"drop", "leave", "done"}
                           \/ task[t].kind = "async" /\ where # "done",
             task[t].kind = "sync" => where # "asked"
      PROVE  BusyInv'
  <2>1. /\ task'[t].at = where /\ task'[t].kind = task[t].kind
        /\ \A u \in Tasks : u # t => task'[u] = task[u]
    BY <1>0, <1>3, TaskAt
  <2>2. \A u \in Tasks : u # t => WillEnd(u)' = WillEnd(u)
    BY <2>1 DEF WillEnd, Live
  <2>3. WillEnd(t) => WillEnd(t)'
    BY <1>3, <2>1 DEF WillEnd, Live, Places
  <2> QED BY <1>0, <1>3, <2>2, <2>3 DEF BusyInv
<1>4. CASE Previewing \/ UNCHANGED vars
  BY <1>1, <1>4, PreviewingFrame DEF vars, display
<1>5. CASE Load
  BY <1>2, <1>5 DEF Load
<1>6. ASSUME NEW t \in Tasks, Process(t) PROVE BusyInv'
  <2>1. PICK kind \in {"sync", "async"} : Begins(t, kind, "open", DocOf(bytes))
    BY <1>6 DEF Process
  <2>2. task'[t].kind = kind /\ task'[t].at = "open"
    BY <1>0, <2>1 DEF Begins
  <2>3. WillEnd(t)'
    BY <2>2 DEF WillEnd, Live
  <2> QED BY <1>0, <2>3 DEF BusyInv
<1>7. ASSUME NEW t \in Tasks, Cancel(t) \/ Clear(t) PROVE BusyInv'
  <2>1. UNCHANGED <<busy, job>>
    BY <1>7 DEF Cancel, Clear, display
  <2>2. task[t] = NoTask /\ \A u \in Tasks : u # t => task'[u] = task[u]
    BY <1>0, <1>7 DEF Cancel, Clear, Begins
  <2>3. ~WillEnd(t)
    BY <2>2 DEF WillEnd, NoTask
  <2>4. \A u \in Tasks : WillEnd(u) => WillEnd(u)'
    BY <2>2, <2>3 DEF WillEnd, Live
  <2> QED BY <1>0, <2>1, <2>4 DEF BusyInv
<1>8. ASSUME NEW t \in Tasks, Finish(t), task[t].at \in {"drop", "leave"}
      PROVE  BusyInv'
  <2>1. task[t].kind \in Kinds \ {"none"}
    BY <1>0, <1>8 DEF RunInv, TaskRecords
  <2>2. busy' = FALSE \/ (task[t].kind = "sync" /\ UNCHANGED <<busy, job>>)
    BY <1>8, <2>1, EndDisplays DEF display
  <2>3. \A u \in Tasks : u # t => task'[u] = task[u]
    BY <1>0, <1>8, TaskEnds
  <2>4. task[t].kind = "sync" => ~WillEnd(t)
    BY <1>8 DEF WillEnd
  <2>5. task[t].kind = "sync" => \A u \in Tasks : WillEnd(u) => WillEnd(u)'
    BY <2>3, <2>4 DEF WillEnd, Live
  <2> QED BY <1>0, <1>2, <2>2, <2>5 DEF BusyInv
<1>9. ASSUME NEW t \in Tasks, Dropped(t) \/ Left(t) PROVE BusyInv'
  <2>1. task[t].at \in {"drop", "leave"}
    BY <1>9 DEF Dropped, Left
  <2>2. \/ Finish(t)
        \/ task' = [task EXCEPT ![t].at = "leave"] /\ UNCHANGED <<busy, job>>
    BY <1>9 DEF Dropped, Left, At, display
  <2>3. WillEnd(t) => task[t].kind = "async"
    BY <2>1 DEF WillEnd
  <2> QED BY <1>3, <1>8, <2>1, <2>2, <2>3 DEF Places
<1>10. ASSUME NEW t \in Tasks,
              Opened(t) \/ Connected(t) \/ Listens(t) \/ CancelAnswered(t)
       PROVE  BusyInv'
  <2>1. /\ UNCHANGED <<busy, job>>
        /\ \/ \E where \in {"connect", "swap", "http"} :
                task' = [task EXCEPT ![t].at = where]
           \/ /\ task[t].kind = "async" \/ task[t].at = "asked"
              /\ task' = [task EXCEPT ![t].at = "drop"]
    BY <1>10
    DEF Opened, Connected, Listens, CancelAnswered, Teardown, At, display
  <2>2. task[t].at = "asked" => task[t].kind = "cancel"
    BY DEF RunInv
  <2>3. WillEnd(t) => task[t].kind \in {"sync", "async"}
    BY DEF WillEnd
  <2> QED BY <1>3, <2>1, <2>2, <2>3 DEF Places
<1>11. ASSUME NEW t \in Tasks, SyncAnswered(t) PROVE BusyInv'
  BY <1>2, <1>11 DEF SyncAnswered
<1>12. ASSUME NEW t \in Tasks, AsyncAnswered(t) PROVE BusyInv'
  <2>1. \/ job' = t
        \/ /\ UNCHANGED <<busy, job>> /\ task[t].kind = "async"
           /\ task' = [task EXCEPT ![t].at = "drop"]
    BY <1>12 DEF AsyncAnswered, Teardown, At
  <2>2. job' = t => BusyInv'
    BY <1>0 DEF BusyInv
  <2> QED BY <1>3, <2>1, <2>2 DEF Places
<1>13. ASSUME NEW s \in Tasks, Frame(s) PROVE BusyInv'
  <2>1. busy' = FALSE \/ UNCHANGED <<busy, job, task>>
    BY <1>13 DEF Frame
  <2> QED BY <1>1, <1>2, <2>1
<1> QED
  BY <1>4, <1>5, <1>6, <1>7, <1>9, <1>10, <1>11, <1>12, <1>13
  DEF Next, Command, Resumes, Arrives, Previewing

-----------------------------------------------------------------------------
(* What a patient user sees.                                               *)

OneDocument == bytes # NoBytes => DocOf(bytes) = docs /\ boxes \subseteq {docs}

\* At most one listener and one socket, and they can be closed; a frame that
\* arrives is of the document on display.
Wired ==
  /\ listeners \subseteq {held} /\ sockets \subseteq {socket}
  /\ bytes = NoBytes => listeners = {}
  /\ listeners # {} => \A s \in sockets : task[s].doc = docs

\* A run opens alone, with nothing else connected; runs that wait are of the
\* document on display; what cleans up has cancelled its listener.
Apart ==
  \A t \in Tasks :
    /\ Opening(t) => \A u \in Tasks : Live(u) => u = t
    /\ Live(t) /\ IsRun(t) => bytes # NoBytes /\ task[t].doc = docs
    /\ task[t].at \in {"drop", "leave"} => listeners = {}
    /\ task[t].at = "connect" => sockets = {}
    /\ task[t].at = "swap" => sockets \subseteq {t} /\ listeners = {}
    /\ Live(t) /\ task[t].kind = "clear" =>
         \A u \in Tasks : Live(u) => u = t \/ task[u].kind = "cancel"

PatientInv == ~hasty => OneDocument /\ Wired /\ Apart

LEMMA PatientStep ==
  TypeOK /\ RunInv /\ PatientInv /\ [Next]_vars => PatientInv'
<1> SUFFICES ASSUME TypeOK, RunInv, PatientInv, [Next]_vars, ~hasty'
             PROVE  OneDocument' /\ Wired' /\ Apart'
  BY DEF PatientInv
<1>0. /\ Tasks' = Tasks /\ task \in [Tasks -> TaskRecords]
      /\ listeners \subseteq Tasks /\ sockets \subseteq Tasks
      /\ docs \in 0 .. MaxDocs
  BY LimitsStay DEF TypeOK, Tasks, TaskRecords, Kinds, Places
<1>1. ~hasty
  BY DEF Next, Command, Resumes, Arrives, Load, SelectPage, RetryPreview,
         Process, Cancel, Clear, Dropped, Left, Opened, Connected, Listens,
         SyncAnswered, AsyncAnswered, CancelAnswered, Rendered, JobPreview,
         Preloaded, LoopWakes, Frame, vars, history
<1>2. OneDocument /\ Wired /\ Apart
  BY <1>1 DEF PatientInv
<1>3. ASSUME UNCHANGED <<bytes, boxes, wire, task, docs>>
      PROVE  OneDocument' /\ Wired' /\ Apart'
  BY <1>0, <1>2, <1>3
  DEF OneDocument, Wired, Apart, Opening, Live, IsRun, wire
<1>4. CASE Previewing \/ UNCHANGED vars
  BY <1>3, <1>4, PreviewingFrame DEF vars, display, history
\* Nobody waits when a run, a load or a clear begins.
<1>5. ASSUME Waiting = {}, NEW t \in Tasks PROVE ~Live(t)
  BY <1>5 DEF Waiting
<1>6. CASE Load
  <2>1. /\ bytes' = <<docs + 1, "source">> /\ docs' = docs + 1 /\ boxes' = {}
        /\ UNCHANGED <<wire, task>> /\ Waiting = {} /\ bytes = NoBytes
    BY <1>6 DEF Load
  <2>2. OneDocument'
    BY <2>1 DEF OneDocument, DocOf
  <2>3. Wired'
    BY <1>2, <2>1 DEF Wired, wire
  <2>4. Apart'
    <3>1. \A u \in Tasks : ~Live(u) /\ Live(u)' = Live(u)
      BY <1>5, <2>1 DEF Live
    <3> QED BY <1>0, <2>1, <3>1 DEF Apart, Live, Opening
  <2> QED BY <2>2, <2>3, <2>4
<1>7. ASSUME NEW t \in Tasks, Process(t) PROVE OneDocument' /\ Wired' /\ Apart'
  <2>1. /\ UNCHANGED <<bytes, boxes, wire, docs>> /\ Waiting = {} /\ bytes # NoBytes
    BY <1>7 DEF Process
  <2>2. PICK kind \in {"sync", "async"} : Begins(t, kind, "open", DocOf(bytes))
    BY <1>7 DEF Process
  <2>3. /\ task[t] = NoTask
        /\ task'[t] = [kind |-> kind, at |-> "open", doc |-> DocOf(bytes)]
        /\ \A u \in Tasks : u # t => task'[u] = task[u]
    BY <1>0, <2>2 DEF Begins
  <2>4. OneDocument' /\ DocOf(bytes) = docs
    BY <1>2, <2>1 DEF OneDocument
  <2>5. Wired'
    <3>1. t \notin sockets
      BY <2>3 DEF RunInv, IsRun, NoTask
    <3> QED BY <1>0, <1>2, <2>1, <2>3, <3>1 DEF Wired, wire
  <2>6. Apart'
    <3>1. \A u \in Tasks : u # t => ~Live(u)'
      BY <1>5, <2>1, <2>3 DEF Live
    <3> QED BY <1>0, <2>1, <2>3, <2>4, <3>1 DEF Apart, Live, Opening, wire
  <2> QED BY <2>4, <2>5, <2>6
<1>8. ASSUME NEW t \in Tasks, Cancel(t) PROVE OneDocument' /\ Wired' /\ Apart'
  <2>1. /\ UNCHANGED <<bytes, boxes, wire, docs>>
        /\ \A u \in Tasks : ~Opening(u)
    BY <1>8 DEF Cancel, display
  <2>2. /\ task[t] = NoTask
        /\ task'[t] = [kind |-> "cancel", at |-> "asked", doc |-> 0]
        /\ \A u \in Tasks : u # t => task'[u] = task[u]
    BY <1>0, <1>8 DEF Cancel, Begins
  <2>3. OneDocument'
    BY <1>2, <2>1 DEF OneDocument
  <2>4. Wired'
    <3>1. t \notin sockets
      BY <2>2 DEF RunInv, IsRun, NoTask
    <3> QED BY <1>0, <1>2, <2>1, <2>2, <3>1 DEF Wired, wire
  <2>5. Apart'
    BY <1>0, <1>2, <2>1, <2>2 DEF Apart, Live, Opening, IsRun, wire
  <2> QED BY <2>3, <2>4, <2>5
<1>9. ASSUME NEW t \in Tasks, Clear(t) PROVE OneDocument' /\ Wired' /\ Apart'
  <2>1. /\ UNCHANGED <<bytes, boxes, docs, held, socket, sockets>>
        /\ listeners' = listeners \ {held} /\ Waiting = {}
    BY <1>9 DEF Clear, display
  <2>2. /\ task'[t] = [kind |-> "clear", at |-> "drop", doc |-> 0]
        /\ \A u \in Tasks : u # t => task'[u] = task[u]
    BY <1>0, <1>9 DEF Clear, Begins
  <2>3. listeners' = {}
    BY <1>2, <2>1 DEF Wired
  <2>4. OneDocument'
    BY <1>2, <2>1 DEF OneDocument
  <2>5. Wired'
    BY <1>2, <2>1, <2>3 DEF Wired
  <2>6. Apart'
    <3>1. \A u \in Tasks : u # t => ~Live(u)'
      BY <1>5, <2>1, <2>2 DEF Live
    <3> QED BY <1>0, <2>2, <2>3, <3>1 DEF Apart, Live, Opening, IsRun
  <2> QED BY <2>4, <2>5, <2>6
\* A task is elsewhere: what it must find there.
<1>10. ASSUME NEW t \in Tasks, Live(t), NEW where \in Places,
              task' = [task EXCEPT ![t].at = where],
              UNCHANGED <<boxes, docs>>,
              bytes' = bytes \/ (IsRun(t) /\ bytes' = <<docs, "result">>),
              where \in {"connect", "swap", "open"} => Opening(t),
              where \in {"drop", "leave"} => listeners' = {},
              where = "connect" => sockets' = {},
              where = "swap" => sockets' \subseteq {t} /\ listeners' = {},
              \/ Opening(t)
              \/ sockets' \subseteq sockets /\ listeners' \subseteq listeners,
              Wired'
       PROVE  OneDocument' /\ Wired' /\ Apart'
  <2>1. /\ task'[t].at = where
        /\ task'[t].kind = task[t].kind /\ task'[t].doc = task[t].doc
        /\ \A u \in Tasks : u # t => task'[u] = task[u]
    BY <1>0, <1>10, TaskAt
  <2>2. bytes' = bytes \/ (bytes # NoBytes /\ bytes' # NoBytes /\ DocOf(bytes') = docs)
    BY <1>2, <1>10 DEF Apart, DocOf, NoBytes
  <2>3. OneDocument'
    BY <1>2, <1>10, <2>2 DEF OneDocument
  <2>4. /\ \A u \in Tasks : Live(u)' => Live(u)
        /\ \A u \in Tasks : u # t => Opening(u)' = Opening(u) /\ Live(u)' = Live(u)
        /\ \A u \in Tasks : IsRun(u)' = IsRun(u)
    BY <1>10, <2>1 DEF Live, Opening, IsRun
  <2>5. \A u \in Tasks : Opening(u)' => \A v \in Tasks : Live(v)' => v = u
    <3>1. Opening(t)' => Opening(t)
      BY <1>10, <2>1 DEF Opening
    <3> QED BY <1>2, <2>4, <3>1 DEF Apart
  <2>6. \A u \in Tasks : Live(u)' /\ IsRun(u)' => bytes' # NoBytes /\ task'[u].doc = docs
    BY <1>2, <2>1, <2>2, <2>4 DEF Apart
  <2>7. \A u \in Tasks : task'[u].at \in {"drop", "leave"} => listeners' = {}
    <3>1. ASSUME NEW u \in Tasks, u # t, task[u].at \in {"drop", "leave"}
          PROVE  listeners' = {}
      <4>1. Live(u) /\ ~Opening(t) /\ listeners = {}
        BY <1>2, <1>10, <3>1 DEF Apart, Live
      <4> QED BY <1>10, <4>1
    <3> QED BY <1>10, <2>1, <3>1
  <2>8. \A u \in Tasks :
          /\ task'[u].at = "connect" => sockets' = {}
          /\ task'[u].at = "swap" => sockets' \subseteq {u} /\ listeners' = {}
    <3>1. ASSUME NEW u \in Tasks, u # t, task[u].at \in {"connect", "swap"}
          PROVE  FALSE
      BY <1>2, <1>10, <3>1 DEF Apart, Opening
    <3> QED BY <1>10, <2>1, <3>1
  <2>9. \A u \in Tasks : Live(u)' /\ task'[u].kind = "clear" =>
          \A v \in Tasks : Live(v)' => v = u \/ task'[v].kind = "cancel"
    BY <1>2, <2>1, <2>4 DEF Apart
  <2>10. Apart'
    BY <1>0, <1>10, <2>5, <2>6, <2>7, <2>8, <2>9 DEF Apart
  <2> QED BY <1>10, <2>3, <2>10
\* A task ends.
<1>11. ASSUME NEW t \in Tasks, Finish(t), task[t].at \in {"drop", "leave"},
              UNCHANGED <<listeners, docs>>,
              sockets' \subseteq sockets, sockets' \subseteq {socket'}
       PROVE  OneDocument' /\ Wired' /\ Apart'
  <2>1. listeners' = {} /\ Live(t)
    BY <1>2, <1>11 DEF Apart, Live
  <2>2. /\ task'[t].at = "done"
        /\ \A u \in Tasks : u # t => task'[u] = task[u]
    BY <1>0, <1>11, TaskEnds
  <2>3. \/ UNCHANGED <<bytes, boxes>>
        \/ task[t].kind = "clear" /\ bytes' = NoBytes
    <3>1. task[t].kind \in Kinds \ {"none"}
      BY <1>0, <1>11 DEF RunInv, TaskRecords
    <3> QED BY <1>11, <3>1, EndDisplays DEF display
  <2>4. OneDocument'
    BY <1>2, <1>11, <2>3 DEF OneDocument
  <2>5. Wired'
    BY <1>11, <2>1 DEF Wired
  <2>6. /\ \A u \in Tasks : Live(u)' => u # t /\ Live(u)
        /\ \A u \in Tasks : Opening(u)' => u # t /\ Opening(u)
    BY <2>2 DEF Live, Opening
  <2>7. \A u \in Tasks : Live(u)' /\ IsRun(u)' => bytes' # NoBytes /\ task'[u].doc = docs
    <3>1. ASSUME NEW u \in Tasks, Live(u)', IsRun(u)'
          PROVE  bytes' # NoBytes /\ task'[u].doc = docs
      <4>1. u # t /\ Live(u) /\ IsRun(u) /\ task'[u] = task[u]
        BY <2>2, <2>6, <3>1 DEF IsRun
      <4>2. task[t].kind # "clear"
        BY <1>2, <2>1, <4>1 DEF Apart, IsRun
      <4> QED BY <1>2, <2>3, <4>1, <4>2 DEF Apart
    <3> QED BY <3>1
  <2>8. Apart'
    BY <1>0, <1>2, <1>11, <2>1, <2>2, <2>6, <2>7 DEF Apart
  <2> QED BY <2>4, <2>5, <2>8
<1>12. ASSUME NEW t \in Tasks, Opened(t) PROVE OneDocument' /\ Wired' /\ Apart'
  <2>1. /\ Opening(t) /\ Live(t) /\ UNCHANGED <<bytes, boxes, docs>>
        /\ bytes # NoBytes
    <3>1. IsRun(t)
      BY <1>12 DEF RunInv, Opened
    <3>2. Opening(t) /\ Live(t) /\ UNCHANGED <<bytes, boxes, docs>>
      BY <1>12 DEF Opened, Opening, Live, history
    <3> QED BY <1>2, <3>1, <3>2 DEF Apart
  <2>2. CASE /\ UNCHANGED <<held, listeners>> /\ socket' = None
             /\ sockets' = sockets \ {socket} /\ At(t, "connect")
    <3>1. sockets' = {}
      BY <1>2, <2>2 DEF Wired
    <3>2. Wired'
      BY <1>2, <2>1, <2>2, <3>1 DEF Wired
    <3> QED BY <1>10, <2>1, <2>2, <3>1, <3>2 DEF At, Places
  <2>3. CASE UNCHANGED wire /\ At(t, "http")
    <3>1. Wired'
      <4>1. \A u \in Tasks : task'[u].doc = task[u].doc
        BY <1>0, <2>3, TaskAt DEF At, Places
      <4> QED BY <1>0, <1>2, <2>1, <2>3, <4>1 DEF Wired, wire
    <3> QED BY <1>10, <2>1, <2>3, <3>1 DEF At, Places, wire
  <2>4. CASE UNCHANGED <<held, socket, sockets>> /\ Teardown(t)
    <3>1. listeners' = {}
      BY <1>2, <2>4 DEF Wired, Teardown
    <3>2. Wired'
      BY <1>2, <2>1, <2>4, <3>1 DEF Wired
    <3> QED BY <1>10, <2>1, <2>4, <3>1, <3>2 DEF Teardown, At, Places
  <2> QED BY <1>12, <2>2, <2>3, <2>4 DEF Opened, wire
<1>13. ASSUME NEW t \in Tasks, Connected(t) PROVE OneDocument' /\ Wired' /\ Apart'
  <2>1. /\ Opening(t) /\ Live(t) /\ UNCHANGED <<bytes, boxes, docs, held>>
        /\ listeners' = listeners \ {held} /\ At(t, "swap")
    BY <1>13 DEF Connected, Opening, Live, display, history
  <2>2. sockets = {}
    BY <1>2, <1>13 DEF Apart, Connected
  <2>3. /\ listeners' = {}
        /\ sockets' \subseteq {t} /\ sockets' \subseteq {socket'}
    BY <1>2, <1>13, <2>1, <2>2 DEF Wired, Connected
  <2>4. Wired'
    BY <2>3 DEF Wired
  <2> QED BY <1>10, <2>1, <2>3, <2>4 DEF At, Places
<1>14. ASSUME NEW t \in Tasks, Listens(t) PROVE OneDocument' /\ Wired' /\ Apart'
  <2>1. /\ Opening(t) /\ Live(t) /\ UNCHANGED <<bytes, boxes, docs, socket, sockets>>
        /\ held' = t /\ listeners' = listeners \cup {t} /\ At(t, "http")
    BY <1>14 DEF Listens, Opening, Live, display, history
  <2>2. /\ sockets \subseteq {t} /\ listeners = {}
        /\ bytes # NoBytes /\ task[t].doc = docs
    <3>1. IsRun(t) /\ task[t].at = "swap"
      BY <1>14 DEF RunInv, Listens
    <3> QED BY <1>2, <2>1, <3>1 DEF Apart
  <2>3. Wired'
    <3>1. task'[t].doc = docs
      BY <1>0, <2>1, <2>2, TaskAt DEF At, Places
    <3> QED BY <1>2, <2>1, <2>2, <3>1 DEF Wired
  <2> QED BY <1>10, <2>1, <2>3 DEF At, Places
\* The tasks that wait for an answer.
<1>15. ASSUME NEW t \in Tasks, Teardown(t), Live(t),
              UNCHANGED <<boxes, docs, held, socket, sockets>>,
              bytes' = bytes \/ (IsRun(t) /\ bytes' = <<task[t].doc, "result">>)
       PROVE  OneDocument' /\ Wired' /\ Apart'
  <2>1. listeners' = {} /\ At(t, "drop")
    BY <1>2, <1>15 DEF Wired, Teardown
  <2>2. Wired'
    BY <1>2, <1>15, <2>1 DEF Wired
  <2>3. bytes' = bytes \/ (IsRun(t) /\ bytes' = <<docs, "result">>)
    BY <1>2, <1>15 DEF Apart
  <2> QED BY <1>10, <1>15, <2>1, <2>2, <2>3 DEF At, Places
<1>16. ASSUME NEW t \in Tasks, SyncAnswered(t) \/ CancelAnswered(t)
       PROVE  OneDocument' /\ Wired' /\ Apart'
  <2>1. /\ Teardown(t) /\ Live(t) /\ UNCHANGED <<boxes, docs, held, socket, sockets>>
        /\ bytes' = bytes \/ (IsRun(t) /\ bytes' = <<task[t].doc, "result">>)
    BY <1>16 DEF SyncAnswered, CancelAnswered, Live, IsRun, display, history
  <2> QED BY <1>15, <2>1
<1>17. ASSUME NEW t \in Tasks, AsyncAnswered(t)
       PROVE  OneDocument' /\ Wired' /\ Apart'
  <2>1. /\ Live(t) /\ UNCHANGED <<bytes, boxes, docs, held, socket, sockets>>
    BY <1>17 DEF AsyncAnswered, Live, history
  <2>2. CASE Teardown(t)
    BY <1>15, <2>1, <2>2
  <2>3. CASE At(t, "done") /\ UNCHANGED listeners
    <3>1. Wired'
      <4>1. \A u \in Tasks : task'[u].doc = task[u].doc
        BY <1>0, <2>3, TaskAt DEF At, Places
      <4> QED BY <1>0, <1>2, <2>1, <2>3, <4>1 DEF Wired
    <3> QED BY <1>10, <2>1, <2>3, <3>1 DEF At, Places
  <2> QED BY <1>17, <2>2, <2>3 DEF AsyncAnswered
<1>18. ASSUME NEW t \in Tasks, Dropped(t) PROVE OneDocument' /\ Wired' /\ Apart'
  <2>1. /\ Live(t) /\ task[t].at = "drop" /\ held' = None
        /\ UNCHANGED <<listeners, docs>> /\ listeners = {}
    <3>1. /\ Live(t) /\ task[t].at = "drop" /\ held' = None
          /\ UNCHANGED <<listeners, docs>>
      BY <1>18 DEF Dropped, Live, history
    <3> QED BY <1>2, <3>1 DEF Apart
  <2>2. CASE Finish(t) /\ UNCHANGED <<socket, sockets>>
    BY <1>2, <1>11, <2>1, <2>2 DEF Wired
  <2>3. CASE /\ socket' = None /\ sockets' = sockets \ {socket}
             /\ At(t, "leave") /\ UNCHANGED display
    <3>1. Wired'
      BY <1>2, <2>1, <2>3 DEF Wired
    <3> QED BY <1>10, <2>1, <2>3, <3>1 DEF At, Places, display
  <2> QED BY <1>18, <2>2, <2>3 DEF Dropped
<1>19. ASSUME NEW t \in Tasks, Left(t) PROVE OneDocument' /\ Wired' /\ Apart'
  <2>1. /\ Finish(t) /\ task[t].at = "leave"
        /\ UNCHANGED <<listeners, socket, sockets, docs>>
    BY <1>19 DEF Left, wire, history
  <2> QED BY <1>2, <1>11, <2>1 DEF Wired
<1>20. ASSUME NEW s \in Tasks, Frame(s) PROVE OneDocument' /\ Wired' /\ Apart'
  <2>1. /\ UNCHANGED <<bytes, wire, task, docs>>
        /\ boxes' \in {boxes, boxes \cup {task[s].doc}}
        /\ s \in sockets /\ listeners # {}
    BY <1>20 DEF Frame, history
  <2>2. task[s].doc = docs
    BY <1>2, <2>1 DEF Wired
  <2>3. OneDocument'
    BY <1>2, <2>1, <2>2 DEF OneDocument
  <2>4. Wired' /\ Apart'
    BY <1>0, <1>2, <2>1 DEF Wired, Apart, Opening, Live, IsRun, wire
  <2> QED BY <2>3, <2>4
<1> QED
  BY <1>4, <1>6, <1>7, <1>8, <1>9, <1>12, <1>13, <1>14, <1>16, <1>17, <1>18,
     <1>19, <1>20
  DEF Next, Command, Resumes, Arrives, Previewing

-----------------------------------------------------------------------------
(* The theorems.                                                           *)

\* All of it holds at the start.
LEMMA Starts ==
  Init => TypeOK /\ LoopInv /\ RunInv /\ FetchInv /\ BusyInv /\ PatientInv
<1> SUFFICES ASSUME Init
             PROVE  TypeOK /\ LoopInv /\ RunInv /\ FetchInv /\ BusyInv /\ PatientInv
  OBVIOUS
<1>1. /\ limits[1] \in Nat \ {0} /\ limits[2] \in Nat \ {0}
      /\ MaxDocs \in Nat \ {0} /\ NoTask \in TaskRecords
  BY WorkstationAssumption DEF Init, NoTask, TaskRecords, Kinds, Places
<1>2. /\ bytes = NoBytes /\ boxes = {} /\ busy = FALSE /\ job = None
      /\ listeners = {} /\ sockets = {} /\ fetches = {} /\ loop.at = "off"
      /\ task = [t \in Tasks |-> NoTask]
  BY DEF Init, Idle, Loop
<1>3. \A t \in Tasks : task[t] = NoTask
  BY <1>2
<1>4. TypeOK
  <2>1. previews \in [1 .. 0 -> Bytes]
    BY BytesAre DEF Init
  <2>2. \E n \in Pages \cup {0} : previews \in [1 .. n -> Bytes]
    BY <2>1
  <2>3. task \in [Tasks -> TaskRecords]
    BY <1>1, <1>2
  <2>4. loop \in LoopRecords
    BY BytesAre DEF Init, Idle, Loop, LoopRecords
  <2>5. /\ limits \in Limits /\ bytes \in Bytes /\ cached \in Bytes
        /\ boxes \subseteq 1 .. MaxDocs /\ busy \in BOOLEAN /\ hasty \in BOOLEAN
        /\ {job, lastJob, last, held, socket} \subseteq Tasks \cup {None}
        /\ listeners \subseteq Tasks /\ sockets \subseteq Tasks
        /\ fetches = {}
    BY BytesAre DEF Init
  <2>6. docs \in 0 .. MaxDocs
    BY <1>1 DEF Init
  <2> QED BY <2>2, <2>3, <2>4, <2>5, <2>6
          DEF TypeOK, LoopRecords, TaskRecords, Kinds, Places
<1>5. LoopInv /\ BusyInv
  BY <1>2 DEF LoopInv, BusyInv
<1>6. RunInv
  BY <1>2, <1>3 DEF RunInv, IsRun, NoTask
<1>7. FetchInv
  BY <1>2 DEF Init, FetchInv
<1>8. PatientInv
  BY <1>2, <1>3 DEF PatientInv, OneDocument, Wired, Apart, Opening, Live, NoTask
<1> QED BY <1>4, <1>5, <1>6, <1>7, <1>8

\* In every behaviour the state of the workstation has its types, and the pages
\* on display are numbered from 1 up to at most the length of a document,
\* however late frames and previews pad them (the loops that lengthen
\* updatedPages in handleWsFrame, in the preview requests and in the preloader).
THEOREM WorkstationType == Spec => []TypeOK
<1>1. TypeOK /\ LoopInv /\ RunInv /\ [Next]_vars => TypeOK' /\ LoopInv' /\ RunInv'
  BY TypeStep
<1> QED BY <1>1, Starts, PTL DEF Spec

\* Whenever the workstation says that it is processing, a run is on its way
\* whose end will say otherwise, or there is a job to cancel: isProcessing is
\* left set by no interleaving of runs, cancels, clears and late frames.
THEOREM BusyHasAReason == Spec => []BusyIsAccountable
<1>1. TypeOK /\ RunInv /\ BusyInv => BusyIsAccountable
  <2> SUFFICES ASSUME RunInv, NEW t \in Tasks, WillEnd(t)
               PROVE  t \in Waiting /\ task[t].kind \in {"sync", "async"}
    BY DEF BusyInv, BusyIsAccountable
  <2> QED BY DEF WillEnd, Waiting, Live
<1>2. TypeOK /\ LoopInv /\ RunInv /\ [Next]_vars => TypeOK' /\ LoopInv' /\ RunInv'
  BY TypeStep
<1>3. TypeOK /\ LoopInv /\ RunInv /\ BusyInv /\ [Next]_vars => BusyInv'
  BY BusyStep
<1> QED BY <1>1, <1>2, <1>3, Starts, PTL DEF Spec

\* A user who lets each run, cancel and clear end before the next run, load or
\* clear, and cancels no run that is opening its session, sees one document:
\* the one loaded last, whatever frames, previews and results still arrive.
THEOREM PatientUsers == Spec => []PatientUserSeesOneDocument
<1>1. PatientInv => PatientUserSeesOneDocument
  BY DEF PatientInv, OneDocument, PatientUserSeesOneDocument
<1>2. TypeOK /\ LoopInv /\ RunInv /\ [Next]_vars => TypeOK' /\ LoopInv' /\ RunInv'
  BY TypeStep
<1>3. TypeOK /\ RunInv /\ PatientInv /\ [Next]_vars => PatientInv'
  BY PatientStep
<1> QED BY <1>1, <1>2, <1>3, Starts, PTL DEF Spec

\* Every preview that is put on a page was rendered from the bytes that are
\* loaded then, or comes from a job: the generation and the cached id keep out
\* the answers that belong to a document, or a version of it, that is gone.
THEOREM PreviewsAreCurrent == Spec => RendersTheLoadedBytes
<1>1. TypeOK /\ LoopInv /\ RunInv /\ [Next]_vars => TypeOK' /\ LoopInv' /\ RunInv'
  BY TypeStep
<1>2. TypeOK /\ LoopInv /\ RunInv /\ FetchInv /\ [Next]_vars =>
        FetchInv' /\ [Showing]_vars
  BY ShowStep
<1>3. Showing <=>
        \A p \in DOMAIN previews' :
          previews'[p] = NoBytes \/ previews'[p][2] = "job"
          \/ (p \in DOMAIN previews /\ previews'[p] = previews[p])
          \/ previews'[p] = bytes'
  BY DEF Showing
<1> QED BY <1>1, <1>2, <1>3, Starts, PTL DEF Spec, RendersTheLoadedBytes
=============================================================================
