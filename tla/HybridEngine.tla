---------------------------- MODULE HybridEngine -----------------------------
(***************************************************************************)
(* The hybrid engine with its aligner: run() of module HybridWorkflow in   *)
(* which the lines of a page are given to its boxes by align_text of       *)
(* module Alignment, where HybridWorkflow takes any of Alignments.  Boxes  *)
(* are areas of the page here.                                             *)
(***************************************************************************)
EXTENDS HybridWorkflow, Alignment

\* Every box is an area, and the lines read are normalised
\* (_normalize_lines drops the empty ones).
ASSUME EngineAssumption ==
  /\ Boxes \subseteq Areas
  /\ Readings \subseteq Seq(Seq(Words) \ {<<>>})

\* perform_ocr answers, and HybridAligner aligns what it read, if anything.
ReadAligned(p) ==
  /\ phase = "ocr" /\ task[<<p, 0>>] = "call"
  /\ \E lines \in Readings :
       /\ heard' = [heard EXCEPT ![p] = lines]
       /\ ready' = [ready EXCEPT ![p] = IF lines = <<>> THEN doc[p]
                                       ELSE AlignText(doc[p], lines)]
  /\ task' = [task EXCEPT ![<<p, 0>>] = "ok"]
  /\ UNCHANGED <<phase, opts, n, doc, dense, crop, body, emitting, collected,
                 errs, failed, cur, below, cancelled, interrupted, outcome,
                 erred>>

EnginePageStep == \E p \in Pages : OpenDense(p) \/ ReadAligned(p)
                                   \/ PageFails(p) \/ CloseDense(p)

EngineRun ==
  EnginePageStep \/ TaskStep \/ BodyStep \/ RepairStep \/ PhaseStep

EngineNext == EngineRun \/ Cancel \/ Interrupt

EngineSpec == Init /\ [][EngineNext]_vars

\* The event loop goes on, and every call of the model ends: the client has
\* a timeout.
FairEngineSpec == EngineSpec /\ WF_vars(EngineRun)

-----------------------------------------------------------------------------
(* Properties.  The engine runs as HybridWorkflow lets it: Spec.           *)

\* What layout detection may have left of a page.
Found(p) ==
  {Detected(layout) : layout \in IF p <= n THEN Layouts[p] ELSE {<<>>}}

\* A page whose task has not returned is as layout detection left it: what is
\* aligned has no texts yet, whatever the other tasks, the boxes of the page
\* and the group's body have done (HybridOcrRunner.ocr_pages, ocr_per_box).
UnreadUntilReturned ==
  phase = "ocr" =>
    \A p \in Pages : task[<<p, 0>>] \notin {"ok", "fail"} => doc[p] \in Found(p)

(* What a run that reads pages relies on.  TLC evaluates each once for all *)
(* states.                                                                 *)

\* No line that was read is lost or given to two boxes, and the boxes of the
\* page stay, or are replaced by one over the whole page (align_text).
AlignerKeepsLines == InGroup => MeetsContract

\* Lines go to the boxes whose size fits them best: the alignment has the
\* least cost of all without crossings (_dp_align).
AlignmentIsCheapest == InGroup => CostIsLeast

\* A page of columns is not read across (_reading_order_indices).
ColumnsAreRead == InGroup => ColumnsFollowed
=============================================================================
