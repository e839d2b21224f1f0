--------------------------- MODULE HybridWorkflow ---------------------------
(***************************************************************************)
(* One run of the hybrid OCR engine: HybridEngine.execute in               *)
(* core/workflows/hybrid.py with its stages (core/workflows/stages/) and   *)
(* the quality repair (hybrid_repair.py, repair.py).                       *)
(*                                                                         *)
(* A run converts the document, detects boxes chunk by chunk, reads the    *)
(* pages in an asyncio.TaskGroup, refines empty boxes in a second group,   *)
(* repairs doubtful blocks one by one, and assembles and writes.  A page   *)
(* is read at once, or, when dense, box by box in a group of its own; the  *)
(* calls of a group share one semaphore.                                   *)
(*                                                                         *)
(* A task of a group is a pair <<page, box>>, box 0 for the page itself.   *)
(* The body of the group takes the results as they are completed; a task   *)
(* that raises CircuitOpenError is noticed one event-loop step later, by   *)
(* its done callback, which stops the other tasks and the body; the group  *)
(* is left when all tasks have ended.  A job is cancelled by a mark that   *)
(* the engine polls, and interrupted by the cancellation of the asyncio    *)
(* task it runs in (a shutdown).                                           *)
(*                                                                         *)
(* Left out: the cache of decoded images (a miss decodes again), the       *)
(* wording of progress, spellcheck, trust and routing (off, or metadata),  *)
(* and callbacks that raise.                                               *)
(***************************************************************************)
EXTENDS PageText

CONSTANTS
  MaxPages,        \* bound: pages selected from the document
  MaxBoxes,        \* bound: boxes of a page
  Boxes,           \* the boxes that may be found, and the full page
  Layouts,         \* per page, what detection and recall may find: sequences
                   \* of boxes
  FitBoxes,        \* the boxes large enough for a crop (_is_refinable)
  Readings,        \* what a page may read as: sequences of lines
  Crops,           \* what a crop may read as: texts
  Settings,        \* options of a run
  Concurrency,     \* permits of the semaphore, max(1, concurrency)
  DenseThreshold,  \* boxes above which a page is dense (60)
  Target,          \* RepairOptions.target (0.98), as a rank
  MaxRetries       \* RepairOptions.max_retries (2)

Pages    == 1 .. MaxPages

Tasks    == Pages \X (0 .. MaxBoxes)
PageOf(t) == t[1]
BoxOf(t)  == t[2]

ASSUME HybridAssumption ==
  /\ FullPage \in FitBoxes /\ FitBoxes \subseteq Boxes
  /\ MaxPages \in Nat /\ MaxBoxes \in Nat \ {0}
  /\ \A p \in Pages : \A layout \in Layouts[p] :
       layout \in Seq(Boxes) /\ Len(layout) <= MaxBoxes
  /\ Readings \subseteq Seq(Seq(Words)) /\ Crops \subseteq Seq(Words)
  /\ Concurrency \in Nat \ {0}
  /\ MaxRetries \in Nat \ {0}
  /\ DenseThreshold \in Nat /\ Target \in Nat
  /\ Settings \subseteq [mode : {"never", "auto", "always"},
                         refine : BOOLEAN, repair : BOOLEAN, merge : BOOLEAN]

VARIABLES
  phase,        \* where execute is
  opts,         \* its options
  n,            \* number of pages selected
  doc,          \* pages_structured, by position in page_nums
  dense,        \* per_box_pages
  task,         \* the tasks of the open group, and of the groups inside it
  ready,        \* what the task of a page will return
  crop,         \* what the task of a box will return
  body,         \* the body of the group: "collect", "emit" or "exit"
  emitting,     \* the task whose result is being announced
  collected,    \* the tasks whose results have been taken
  errs,         \* the errors the group will raise: "cancel", "circuit"
  failed,       \* last_failed_pages
  cur,          \* repair: page, block and attempt
  below,        \* repair: below_target_count
  cancelled,    \* what cancel_check() answers
  interrupted,  \* whether the asyncio task has been cancelled
  outcome,      \* how execute ended
  heard,        \* history: what was read of each page as a whole
  erred         \* history: pages whose task returned an error

group == <<task, ready, crop, body, emitting, collected, errs>>
history == <<heard, erred>>
vars == <<phase, opts, n, doc, dense, group, failed, cur, below, cancelled,
          interrupted, outcome, history>>

NoTask == <<0, 0>>
NoBlock == [page |-> 0, block |-> 0, attempt |-> 0]

NoTasks == [t \in Tasks |-> "none"]

Init ==
  /\ phase = "convert" /\ opts \in Settings /\ n = 0
  /\ doc = [p \in Pages |-> <<>>] /\ dense = {}
  /\ task = NoTasks
  /\ ready = [p \in Pages |-> <<>>] /\ crop = [t \in Tasks |-> <<>>]
  /\ body = "collect" /\ emitting = NoTask /\ collected = {} /\ errs = {}
  /\ failed = <<>> /\ cur = NoBlock /\ below = 0
  /\ cancelled = FALSE /\ interrupted = FALSE /\ outcome = "none"
  /\ heard = [p \in Pages |-> <<>>] /\ erred = {}

End(how) == phase' = "ended" /\ outcome' = how

-----------------------------------------------------------------------------
(* Conversion and layout detection.                                        *)

\* convert_pages: the pages selected, none when the range is past the end.
Convert ==
  /\ phase = "convert"
  /\ n' \in 0 .. MaxPages /\ phase' = "detect"
  /\ UNCHANGED <<opts, doc, dense, group, failed, cur, below, cancelled,
                 interrupted, outcome, history>>

\* The gate at the entry of _detect_layout.
EnterDetection ==
  /\ phase = "detect"
  /\ IF cancelled THEN End("cancelled")
                  ELSE phase' = "detecting" /\ UNCHANGED outcome
  /\ UNCHANGED <<opts, n, doc, dense, group, failed, cur, below, cancelled,
                 interrupted, history>>

IsDense(page) ==
  \/ opts.mode = "always"
  \/ opts.mode = "auto" /\ Len(page) > DenseThreshold

Detected(layout) ==
  [i \in DOMAIN layout |-> [box |-> layout[i], text |-> <<>>]]

\* detect_layout and select_dense_pages, and the tasks of the pages.  A chunk
\* of pages that the detector got wrong has no boxes.
Detect ==
  /\ phase = "detecting"
  /\ \E found \in [1 .. n -> UNION {Layouts[p] : p \in Pages}] :
       /\ \A p \in 1 .. n : found[p] \in Layouts[p]
       /\ doc' = [p \in Pages |-> IF p <= n THEN Detected(found[p]) ELSE <<>>]
       /\ dense' = {p \in 1 .. n : IsDense(found[p])}
  /\ task' = [t \in Tasks |->
                IF PageOf(t) <= n /\ BoxOf(t) = 0 THEN "wait" ELSE "none"]
  /\ phase' = "ocr"
  /\ UNCHANGED <<opts, n, ready, crop, body, emitting, collected, errs, failed,
                 cur, below, cancelled, interrupted, outcome, history>>

\* A document that cannot be opened, a bad page range, a detector that raises.
PreparationFails ==
  /\ phase \in {"convert", "detecting"}
  /\ End("failed")
  /\ UNCHANGED <<opts, n, doc, dense, group, failed, cur, below, cancelled,
                 interrupted, history>>

-----------------------------------------------------------------------------
(* The tasks of a group.                                                   *)

\* wait      no permit yet
\* call      holds a permit, the model is reading
\* inner     a dense page whose boxes are being read
\* ok, fail  ended with a result; fail is a result with an error
\* raised    ended with CircuitOpenError, the callback has not run
\* told      ... and the group has been told
\* stop      cancelled while waiting, has not resumed
\* stopping  cancelled in a call, still holds its permit
\* closing   a dense page stopped by an error of a box, or from outside
\* gone      ended by cancellation
TaskStates == {"none", "wait", "call", "inner", "ok", "fail", "raised", "told",
               "stop", "stopping", "closing", "gone"}

InGroup == phase \in {"ocr", "refine"}

\* The tasks that the run's own group waits for.
RunTasks ==
  {t \in Tasks : task[t] # "none" /\ (phase = "refine" \/ BoxOf(t) = 0)}

DenseTask(t) == phase = "ocr" /\ BoxOf(t) = 0 /\ PageOf(t) \in dense

\* The boxes of a dense page.
Inside(p) == {t \in Tasks : PageOf(t) = p /\ BoxOf(t) \in DOMAIN doc[p]}

Ended(t) == task[t] \in {"ok", "fail", "told", "gone"}

\* task after a group has stopped the tasks of S.
Stopped(S) ==
  [t \in Tasks |->
     CASE t \in S /\ task[t] = "wait"  -> "stop"
       [] t \in S /\ task[t] = "call"  -> "stopping"
       [] t \in S /\ task[t] = "inner" -> "closing"
       [] OTHER -> task[t]]

InFlight == {t \in Tasks : task[t] \in {"call", "stopping"}}

\* Mutated form: a dense page keeps a permit while its boxes are read.
FreeNested ==
  Cardinality({t \in Tasks :
                 task[t] \in {"call", "stopping", "inner", "closing"}})
    < Concurrency

Free == Cardinality(InFlight) < Concurrency

Refinable(t) == doc[PageOf(t)][BoxOf(t)].box \in FitBoxes

\* A permit is acquired and the call made; a box too small for a crop gives
\* the permit back with an empty text.
Acquire(t) ==
  /\ InGroup /\ task[t] = "wait" /\ ~DenseTask(t) /\ Free
  /\ IF BoxOf(t) = 0 \/ Refinable(t)
       THEN task' = [task EXCEPT ![t] = "call"] /\ UNCHANGED crop
       ELSE task' = [task EXCEPT ![t] = "ok"] /\ crop' = [crop EXCEPT ![t] = <<>>]
  /\ UNCHANGED <<phase, opts, n, doc, dense, ready, body, emitting, collected,
                 errs, failed, cur, below, cancelled, interrupted, outcome,
                 history>>

\* ocr_per_box starts the tasks of the boxes of a dense page.
OpenDense(p) ==
  /\ phase = "ocr" /\ p \in dense /\ task[<<p, 0>>] = "wait"
  /\ task' = [t \in Tasks |-> IF t = <<p, 0>> THEN "inner"
                              ELSE IF t \in Inside(p) THEN "wait"
                              ELSE task[t]]
  /\ UNCHANGED <<phase, opts, n, doc, dense, ready, crop, body, emitting,
                 collected, errs, failed, cur, below, cancelled, interrupted,
                 outcome, history>>
\* perform_ocr answers, and the lines are aligned before the permit is given
\* back; no lines leave the page as it was detected.
ReadPage(p) ==
  /\ phase = "ocr" /\ task[<<p, 0>>] = "call"
  /\ \E lines \in Readings :
       /\ heard' = [heard EXCEPT ![p] = lines]
       /\ IF lines = <<>>
            THEN ready' = [ready EXCEPT ![p] = doc[p]]
            ELSE \E page \in Alignments(doc[p], lines) :
                   ready' = [ready EXCEPT ![p] = page]
  /\ task' = [task EXCEPT ![<<p, 0>>] = "ok"]
  /\ UNCHANGED <<phase, opts, n, doc, dense, crop, body, emitting, collected,
                 errs, failed, cur, below, cancelled, interrupted, outcome,
                 erred>>

\* perform_ocr fails, or the image of a dense page cannot be decoded: the page
\* keeps its boxes and the error is returned with them.
PageFails(p) ==
  /\ phase = "ocr"
  /\ \/ task[<<p, 0>>] = "call"
     \/ p \in dense /\ task[<<p, 0>>] = "wait"
  /\ task' = [task EXCEPT ![<<p, 0>>] = "fail"]
  /\ ready' = [ready EXCEPT ![p] = doc[p]]
  /\ erred' = erred \cup {p}
  /\ UNCHANGED <<phase, opts, n, doc, dense, crop, body, emitting, collected,
                 errs, failed, cur, below, cancelled, interrupted, outcome,
                 heard>>

\* Mutated form: the text goes to the page at once, not to the task's result.
ReadCropInPlace(t) ==
  /\ InGroup /\ BoxOf(t) # 0 /\ task[t] = "call"
  /\ \E text \in Crops \cup {<<>>} :
       /\ crop' = [crop EXCEPT ![t] = text]
       /\ doc' = [doc EXCEPT ![PageOf(t)][BoxOf(t)].text = text]
  /\ task' = [task EXCEPT ![t] = "ok"]
  /\ UNCHANGED <<phase, opts, n, dense, ready, body, emitting, collected, errs,
                 failed, cur, below, cancelled, interrupted, outcome, history>>

\* The crop of a box is read; a crop that fails reads as nothing.
ReadCrop(t) ==
  /\ InGroup /\ BoxOf(t) # 0 /\ task[t] = "call"
  /\ \E text \in Crops \cup {<<>>} : crop' = [crop EXCEPT ![t] = text]
  /\ task' = [task EXCEPT ![t] = "ok"]
  /\ UNCHANGED <<phase, opts, n, doc, dense, ready, body, emitting, collected,
                 errs, failed, cur, below, cancelled, interrupted, outcome,
                 history>>

\* The breaker of the endpoint is open (module CircuitBreaker).
CircuitOpens(t) ==
  /\ InGroup /\ task[t] = "call"
  /\ task' = [task EXCEPT ![t] = "raised"]
  /\ UNCHANGED <<phase, opts, n, doc, dense, ready, crop, body, emitting,
                 collected, errs, failed, cur, below, cancelled, interrupted,
                 outcome, history>>

\* The done callback of a task that raised: the error is kept, and a group
\* that is not being left already stops its tasks and its body.
Notice(t) ==
  /\ InGroup /\ task[t] = "raised"
  /\ IF t \in RunTasks
       THEN /\ errs' = errs \cup {"circuit"}
            /\ task' = [Stopped(IF body = "exit" THEN {} ELSE Tasks)
                          EXCEPT ![t] = "told"]
            /\ body' = "exit"
       ELSE /\ task' = [Stopped(Inside(PageOf(t)) \cup {<<PageOf(t), 0>>})
                          EXCEPT ![t] = "told"]
            /\ UNCHANGED <<errs, body>>
  /\ UNCHANGED <<phase, opts, n, doc, dense, ready, crop, emitting, collected,
                 failed, cur, below, cancelled, interrupted, outcome, history>>

\* A task that was cancelled resumes, and ends.
Resume(t) ==
  /\ InGroup /\ task[t] \in {"stop", "stopping"}
  /\ task' = [task EXCEPT ![t] = "gone"]
  /\ UNCHANGED <<phase, opts, n, doc, dense, ready, crop, body, emitting,
                 collected, errs, failed, cur, below, cancelled, interrupted,
                 outcome, history>>

\* The group of a dense page is left: with the texts of its boxes, with the
\* error of a box, even if the page was cancelled too, or cancelled.
CloseDense(p) ==
  /\ phase = "ocr" /\ task[<<p, 0>>] \in {"inner", "closing"}
  /\ \A t \in Inside(p) : Ended(t)
  /\ IF task[<<p, 0>>] = "inner"
       THEN /\ task' = [task EXCEPT ![<<p, 0>>] = "ok"]
            /\ ready' = [ready EXCEPT ![p] =
                 [i \in DOMAIN doc[p] |-> SetText(doc[p][i], crop[<<p, i>>])]]
       ELSE /\ task' = [task EXCEPT ![<<p, 0>>] =
                 IF \E t \in Inside(p) : task[t] = "told" THEN "raised"
                                                          ELSE "gone"]
            /\ UNCHANGED ready
  /\ UNCHANGED <<phase, opts, n, doc, dense, crop, body, emitting, collected,
                 errs, failed, cur, below, cancelled, interrupted, outcome,
                 history>>

-----------------------------------------------------------------------------
(* The body of the group.                                                  *)

\* doc with the result of t stored.
Stored(t) ==
  IF phase = "ocr"
    THEN [doc EXCEPT ![PageOf(t)] = ready[PageOf(t)]]
    ELSE [doc EXCEPT ![PageOf(t)][BoxOf(t)].text = crop[t]]

\* A result is stored, then the cancel mark is looked at: a cancelled job
\* raises OCRCancelled and the group stops its tasks.
Collect(t) ==
  /\ InGroup /\ body = "collect" /\ t \in RunTasks \ collected
  /\ task[t] \in {"ok", "fail"}
  /\ doc' = Stored(t)
  /\ collected' = collected \cup {t}
  /\ IF cancelled
       THEN /\ body' = "exit" /\ errs' = errs \cup {"cancel"}
            /\ task' = Stopped(Tasks) /\ UNCHANGED emitting
       ELSE body' = "emit" /\ emitting' = t /\ UNCHANGED <<errs, task>>
  /\ UNCHANGED <<phase, opts, n, dense, ready, crop, failed, cur, below,
                 cancelled, interrupted, outcome, history>>

\* The callbacks and the progress of the result have been sent; a page that
\* failed is noted.
Emitted ==
  /\ InGroup /\ body = "emit"
  /\ failed' = IF task[emitting] = "fail" THEN Append(failed, PageOf(emitting))
                                          ELSE failed
  /\ body' = "collect" /\ emitting' = NoTask
  /\ UNCHANGED <<phase, opts, n, doc, dense, task, ready, crop, collected,
                 errs, cur, below, cancelled, interrupted, outcome, history>>

\* The worker's asyncio task is cancelled: the body leaves a group that is
\* open; one that is being left swallows it; outside groups the run ends.
Interrupt ==
  /\ phase # "ended" /\ ~interrupted
  /\ interrupted' = TRUE
  /\ IF InGroup
       THEN /\ body' = "exit"
            /\ task' = Stopped(IF body = "exit" THEN {} ELSE Tasks)
            /\ UNCHANGED <<phase, outcome>>
       ELSE End("interrupted") /\ UNCHANGED <<task, body>>
  /\ UNCHANGED <<opts, n, doc, dense, ready, crop, emitting, collected, errs,
                 failed, cur, below, cancelled, history>>

\* How the group's errors leave the two except* clauses: alone, or, when both
\* clauses raise, as an exception group.
Escape(errors) ==
  CASE errors = {} -> "interrupted"
    [] errors = {"cancel"} -> "cancelled"
    [] errors = {"circuit"} -> "circuit"
    [] OTHER -> "group"

\* Mutated form: the group is left without waiting for the tasks it stopped.
LeaveGroupEarly ==
  /\ InGroup /\ body = "exit"
  /\ End(Escape(errs))
  /\ UNCHANGED <<opts, n, doc, dense, group, failed, cur, below, cancelled,
                 interrupted, history>>

LeaveGroup ==
  /\ InGroup /\ body = "exit"
  /\ \A t \in RunTasks : Ended(t)
  /\ End(Escape(errs))
  /\ UNCHANGED <<opts, n, doc, dense, group, failed, cur, below, cancelled,
                 interrupted, history>>

-----------------------------------------------------------------------------
(* Refine: the empty boxes of sparse pages that are large enough.          *)

AllCollected == body = "collect" /\ RunTasks \subseteq collected

Sparse(p) == p \in 1 .. n /\ p \notin dense

RefineTargets ==
  {t \in Tasks : /\ Sparse(PageOf(t)) /\ BoxOf(t) \in DOMAIN doc[PageOf(t)]
                 /\ Blank(doc[PageOf(t)][BoxOf(t)]) /\ Refinable(t)}

\* All pages are read; refine_pages opens a group for its targets, if any.
FinishOcr ==
  /\ phase = "ocr" /\ AllCollected
  /\ phase' = IF opts.refine THEN "refine" ELSE "repair"
  /\ task' = [t \in Tasks |->
                IF opts.refine /\ t \in RefineTargets THEN "wait" ELSE "none"]
  /\ collected' = {}
  /\ ready' = [p \in Pages |-> <<>>] /\ crop' = [t \in Tasks |-> <<>>]
  /\ cur' = NoBlock
  /\ UNCHANGED <<opts, n, doc, dense, body, emitting, errs, failed, below,
                 cancelled, interrupted, outcome, history>>

\* All boxes are refined, and duplicates of their neighbours dropped.
FinishRefine ==
  /\ phase = "refine" /\ AllCollected
  /\ doc' = [p \in Pages |->
               DropRefinedDuplicates(
                 doc[p], {i \in DOMAIN doc[p] : <<p, i>> \in RunTasks})]
  /\ phase' = "repair"
  /\ task' = NoTasks /\ collected' = {}
  /\ crop' = [t \in Tasks |-> <<>>]
  /\ UNCHANGED <<opts, n, dense, ready, body, emitting, errs, failed, cur,
                 below, cancelled, interrupted, outcome, history>>

-----------------------------------------------------------------------------
(* Repair: blocks below the target are read again, one at a time.          *)

Doubtful(text) == text # <<>> /\ Confidence(text) < Target

\* The blocks after (page, block), in the order of the loops.
After(page, block) ==
  {b \in [page : 1 .. n, block : 1 .. MaxBoxes, attempt : {1}] :
     /\ b.block \in DOMAIN doc[b.page]
     /\ \/ b.page > page
        \/ b.page = page /\ b.block > block
     /\ Doubtful(doc[b.page][b.block].text)}

IsEarliest(b, B) == \A c \in B : \/ b.page < c.page
                                 \/ b.page = c.page /\ b.block <= c.block

\* The loops go on behind block b, or the phase is over.
Advance(b) ==
  LET rest == IF opts.repair THEN After(b.page, b.block) ELSE {}
  IN  \/ rest = {} /\ cur' = NoBlock /\ phase' = "finalize"
      \/ \E next \in rest :
           IsEarliest(next, rest) /\ cur' = next /\ UNCHANGED phase

StartRepair ==
  /\ phase = "repair" /\ cur = NoBlock
  /\ Advance(NoBlock)
  /\ UNCHANGED <<opts, n, doc, dense, group, failed, below, cancelled,
                 interrupted, outcome, history>>

\* Mutated form: one attempt more than there are retries.
RepairReadsOnceMore ==
  /\ phase = "repair" /\ cur # NoBlock
  /\ \E text \in Crops \cup {<<>>} :
       LET old == Confidence(doc[cur.page][cur.block].text)
           new == Confidence(text)
       IN  IF new <= old
             THEN /\ Advance(cur) /\ below' = below + 1
                  /\ UNCHANGED doc
             ELSE /\ doc' = [doc EXCEPT ![cur.page][cur.block].text = text]
                  /\ IF new >= Target \/ cur.attempt > MaxRetries
                       THEN /\ Advance(cur)
                            /\ below' = IF new < Target THEN below + 1 ELSE below
                       ELSE /\ cur' = [cur EXCEPT !.attempt = @ + 1]
                            /\ UNCHANGED <<phase, below>>
  /\ UNCHANGED <<opts, n, dense, group, failed, cancelled, interrupted,
                 outcome, history>>

\* Mutated form: no stall guard, the last reading is taken.
RepairReadsLast ==
  /\ phase = "repair" /\ cur # NoBlock
  /\ \E text \in Crops \cup {<<>>} :
       LET new == Confidence(text)
       IN  /\ doc' = [doc EXCEPT ![cur.page][cur.block].text = text]
           /\ IF new >= Target \/ cur.attempt = MaxRetries
                THEN /\ Advance(cur)
                     /\ below' = IF new < Target THEN below + 1 ELSE below
                ELSE /\ cur' = [cur EXCEPT !.attempt = @ + 1]
                     /\ UNCHANGED <<phase, below>>
  /\ UNCHANGED <<opts, n, dense, group, failed, cancelled, interrupted,
                 outcome, history>>

\* A reading that is not better is a stall and ends the attempts; a better
\* one is kept, and tried again while it is below the target.
RepairReads ==
  /\ phase = "repair" /\ cur # NoBlock
  /\ \E text \in Crops \cup {<<>>} :
       LET old == Confidence(doc[cur.page][cur.block].text)
           new == Confidence(text)
       IN  IF new <= old
             THEN /\ Advance(cur) /\ below' = below + 1
                  /\ UNCHANGED doc
             ELSE /\ doc' = [doc EXCEPT ![cur.page][cur.block].text = text]
                  /\ IF new >= Target \/ cur.attempt = MaxRetries
                       THEN /\ Advance(cur)
                            /\ below' = IF new < Target THEN below + 1 ELSE below
                       ELSE /\ cur' = [cur EXCEPT !.attempt = @ + 1]
                            /\ UNCHANGED <<phase, below>>
  /\ UNCHANGED <<opts, n, dense, group, failed, cancelled, interrupted,
                 outcome, history>>

\* An error of the call ends the attempts; the block stays below the target.
RepairFails ==
  /\ phase = "repair" /\ cur # NoBlock
  /\ Advance(cur) /\ below' = below + 1
  /\ UNCHANGED <<opts, n, doc, dense, group, failed, cancelled, interrupted,
                 outcome, history>>

RepairAborts ==
  /\ phase = "repair" /\ cur # NoBlock
  /\ End("circuit")
  /\ UNCHANGED <<opts, n, doc, dense, group, failed, cur, below, cancelled,
                 interrupted, history>>

\* The pages whose image run_repair_phase decodes on its way to the next
\* doubtful block, or to the end, if there was any doubtful block at all.
RepairDecodes ==
  LET rest == After(cur.page, cur.block)
  IN  {p \in cur.page + 1 .. n :
         /\ cur # NoBlock \/ rest # {}
         /\ doc[p] # <<>> /\ \A b \in rest : p <= b.page}

\* An image that refine_pages or run_repair_phase needs cannot be decoded: no
\* group is open then, the run fails, and what the last reading made of its
\* block goes with it.
DecodeFails ==
  /\ \/ phase = "ocr" /\ AllCollected /\ opts.refine /\ RefineTargets # {}
     \/ phase = "repair" /\ opts.repair /\ RepairDecodes # {}
  /\ End("failed")
  /\ task' = NoTasks
  /\ UNCHANGED <<opts, n, doc, dense, ready, crop, body, emitting, collected,
                 errs, failed, cur, below, cancelled, interrupted, history>>

-----------------------------------------------------------------------------
(* Finalize.                                                               *)

\* Mutated form: no gate behind the loops.
FinalizeUngated ==
  /\ phase = "finalize"
  /\ phase' = "write" /\ UNCHANGED outcome
  /\ doc' = IF opts.merge THEN CrossPageMerge(doc, n) ELSE doc
  /\ UNCHANGED <<opts, n, dense, group, failed, cur, below, cancelled,
                 interrupted, history>>

\* The gate at the entry of _finalize, and the text passes.
Finalize ==
  /\ phase = "finalize"
  /\ IF cancelled
       THEN End("cancelled") /\ UNCHANGED doc
       ELSE /\ phase' = "write" /\ UNCHANGED outcome
            /\ doc' = IF opts.merge THEN CrossPageMerge(doc, n) ELSE doc
  /\ UNCHANGED <<opts, n, dense, group, failed, cur, below, cancelled,
                 interrupted, history>>

\* The writer succeeds or raises.
Write ==
  /\ phase = "write"
  /\ \E how \in {"done", "failed"} : End(how)
  /\ UNCHANGED <<opts, n, doc, dense, group, failed, cur, below, cancelled,
                 interrupted, history>>

-----------------------------------------------------------------------------

\* cancel() of the job, or of its progress channel.
Cancel ==
  /\ phase # "ended" /\ ~cancelled
  /\ cancelled' = TRUE
  /\ UNCHANGED <<phase, opts, n, doc, dense, group, failed, cur, below,
                 interrupted, outcome, history>>

PageStep == \E p \in Pages : OpenDense(p) \/ ReadPage(p) \/ PageFails(p)
                             \/ CloseDense(p)

TaskStep == \E t \in Tasks : Acquire(t) \/ ReadCrop(t) \/ CircuitOpens(t)
                             \/ Notice(t) \/ Resume(t)

BodyStep == (\E t \in Tasks : Collect(t)) \/ Emitted \/ LeaveGroup

GroupStep == PageStep \/ TaskStep \/ BodyStep

RepairStep == StartRepair \/ RepairReads \/ RepairFails \/ RepairAborts

PhaseStep ==
  \/ Convert \/ EnterDetection \/ Detect \/ PreparationFails \/ DecodeFails
  \/ FinishOcr \/ FinishRefine \/ Finalize \/ Write

Run == GroupStep \/ RepairStep \/ PhaseStep

Next == Run \/ Cancel \/ Interrupt

Spec == Init /\ [][Next]_vars

-----------------------------------------------------------------------------
(* Properties.                                                             *)

TypeOK ==
  /\ phase \in {"convert", "detect", "detecting", "ocr", "refine", "repair",
                "finalize", "write", "ended"}
  /\ opts \in Settings /\ n \in 0 .. MaxPages
  /\ dense \subseteq Pages
  /\ task \in [Tasks -> TaskStates]
  /\ body \in {"collect", "emit", "exit"}
  /\ emitting \in Tasks \cup {NoTask}
  /\ collected \subseteq Tasks
  /\ errs \subseteq {"cancel", "circuit"}
  /\ cur \in [page : 0 .. MaxPages, block : 0 .. MaxBoxes,
              attempt : 0 .. MaxRetries]
  /\ below \in Nat
  /\ cancelled \in BOOLEAN /\ interrupted \in BOOLEAN
  /\ outcome \in {"none", "done", "failed", "cancelled", "circuit", "group",
                  "interrupted"}
  /\ erred \subseteq Pages

\* The calls of a run are structured: never more in flight than there are
\* permits, and none in flight, waiting or unnoticed once the group that made
\* it is over, however it was left.  (The TaskGroups of ocr_pages, ocr_per_box
\* and refine_uncertain; a call that outlived its job would spend for nobody.)
StructuredCalls ==
  /\ Cardinality(InFlight) <= Concurrency
  /\ ~InGroup => \A t \in Tasks : task[t] = "none" \/ Ended(t)

\* What last_failed_pages says at the end of a run.
FailuresNamed == ToSet(failed) = erred /\ Len(failed) = Cardinality(erred)

\* What becomes of the lines that were read.
LinesKept ==
  \A p \in 1 .. n : \A line \in ToSet(heard[p]) :
    \E q \in p .. n : \E i \in DOMAIN doc[q] :
      line \in SubSeqs(doc[q][i].text)

\* A run that ends well has accounted for every page: last_failed_pages names
\* the pages whose reading failed, each once, and, repairs aside, every line
\* that was read of a page stands whole in a block of that page or of a later
\* one, whatever was aligned, refined, dropped as a duplicate and merged.
PagesAccounted ==
  outcome = "done" => FailuresNamed /\ (~opts.repair => LinesKept)

\* The blocks that are still below the target.
DoubtfulBlocks ==
  {b \in (1 .. n) \X (1 .. MaxBoxes) :
     b[2] \in DOMAIN doc[b[1]] /\ Doubtful(doc[b[1]][b[2]].text)}

\* When the repair phase is over, its count of the blocks still below the
\* target is the number there are in the document.
RepairAccounts ==
  phase = "finalize" /\ opts.repair => below = Cardinality(DoubtfulBlocks)

\* A stop is honoured: a run that was interrupted, or cancelled before its
\* last gate, never ends as done, whatever its groups swallow.
StopIsHonoured ==
  [](interrupted \/ (cancelled /\ phase \in {"convert", "detect", "detecting",
                                   "ocr", "refine", "repair", "finalize"})
       => [](outcome # "done"))

\* Every run ends: its groups are left, no task waits for ever for a permit
\* that a page holds for its own boxes, and repair does not go on for ever.
RunEnds == <>(phase = "ended")
=============================================================================
