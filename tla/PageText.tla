------------------------------ MODULE PageText ------------------------------
(***************************************************************************)
(* What the hybrid engine does to the text of a page, as operators: the    *)
(* confidence proxy, the removal of duplicates after the refine stage      *)
(* (core/workflows/utils.py), the merge of sentences across pages          *)
(* (core/workflows/base.py), and what the engine needs of the aligner      *)
(* (core/aligner.py; module Alignment computes what the aligner does).     *)
(*                                                                         *)
(* A page is a sequence of blocks, a block a box and its text, and a text  *)
(* a sequence of words: stripping and joining with blanks or line breaks   *)
(* leave the words alone.  Words compare as _normalize_for_dedup leaves    *)
(* them.                                                                   *)
(***************************************************************************)
EXTENDS Integers, FiniteSets, Sequences, SequencesExt, Functions

CONSTANTS
  Words,      \* the words that may be read
  Letters,    \* those that are alphabetic, three letters or more
  Stops,      \* those that end with ".", "!" or "?"
  FullPage,   \* the box (0, 0, 1, 1)
  Radius      \* how far a duplicate is looked for (4)

ASSUME PageTextAssumption ==
  /\ Letters \subseteq Words /\ Stops \subseteq Words
  /\ Radius \in Nat

Blocks(boxes) == [box : boxes, text : Seq(Words)]

Blank(b) == b.text = <<>>

SetText(b, text) == [b EXCEPT !.text = text]

-----------------------------------------------------------------------------
(* Quality.  Of the six scores of _estimate_confidence the ranks are kept: *)
(* 0 for 0.0, 1 for 0.3, 2 for 0.7, 3 for 0.85 and 4 for 0.99; 0.4, one or *)
(* two words with fewer than three letters, and numbers do not occur.      *)

WellFormed == 4

Confidence(text) ==
  LET alpha == Cardinality({i \in DOMAIN text : text[i] \in Letters})
  IN  CASE text = <<>> -> 0
        [] text # <<>> /\ alpha = 0 -> 1
        [] text # <<>> /\ alpha # 0 /\ Len(text) < 3 -> 2
        [] OTHER -> IF 10 * alpha >= 6 * Len(text) THEN WellFormed ELSE 3

-----------------------------------------------------------------------------
(* Duplicates.                                                             *)

\* An equal text, the single word, or all of the words of r appear in o.
Covers(o, r) == r # <<>> /\ o # <<>> /\ ToSet(r) \subseteq ToSet(o)

\* Mutated form: the texts of the neighbours are removed, not the refined one.
DropRefinedDuplicatesOther(blocks, refined) ==
  [i \in DOMAIN blocks |->
     IF i \notin refined
          /\ \E r \in refined : /\ i - Radius <= r /\ r <= i + Radius
                                /\ Covers(blocks[i].text, blocks[r].text)
       THEN SetText(blocks[i], <<>>) ELSE blocks[i]]

\* A refined text is dropped when a block within the radius that was not
\* itself refined covers it.  Blocks that were not refined never change, so
\* the order of the loop does not matter.
DropRefinedDuplicates(blocks, refined) ==
  [i \in DOMAIN blocks |->
     IF i \in refined
          /\ \E o \in DOMAIN blocks \ refined :
               /\ i - Radius <= o /\ o <= i + Radius
               /\ Covers(blocks[o].text, blocks[i].text)
       THEN SetText(blocks[i], <<>>) ELSE blocks[i]]

-----------------------------------------------------------------------------
(* Sentences that run over a page break.  A document maps the positions of *)
(* its pages, 1 .. n, to pages.                                            *)

Spoken(page) == {k \in DOMAIN page : ~Blank(page[k])}

First(S) == CHOOSE k \in S : \A l \in S : k <= l

\* Whether page's literal last block is an unfinished sentence.
Unfinished(page) ==
  /\ page # <<>>
  /\ ~Blank(page[Len(page)])
  /\ Last(page[Len(page)].text) \notin Stops

MergePages(doc, i) ==
  LET tail == doc[i][Len(doc[i])]
      k    == First(Spoken(doc[i + 1]))
      head == doc[i + 1][k]
  IN  IF Unfinished(doc[i]) /\ Spoken(doc[i + 1]) # {}
        THEN [doc EXCEPT ![i][Len(doc[i])] = SetText(tail, <<>>),
                         ![i + 1][k] = SetText(head, tail.text \o head.text)]
        ELSE doc

CrossPageMerge(doc, n) ==
  LET upTo[i \in 0 .. n - 1] ==
        IF i = 0 THEN doc ELSE MergePages(upTo[i - 1], i)
  IN  IF n = 0 THEN doc ELSE upTo[n - 1]

-----------------------------------------------------------------------------
(* What the engine relies on: align_text gives every line to one box, the  *)
(* lines of a box in the order they were read, or all of them to a box     *)
(* that covers the page.                                                   *)

Joined(lines, chosen) ==
  FlattenSeq([k \in DOMAIN lines |-> IF k \in chosen THEN lines[k] ELSE <<>>])

\* The blocks when line k goes to block placement[k].
Placed(blocks, lines, placement) ==
  [i \in DOMAIN blocks |->
     SetText(blocks[i],
             Joined(lines, {k \in DOMAIN lines : placement[k] = i}))]

WholePage(lines) ==
  <<[box |-> FullPage, text |-> Joined(lines, DOMAIN lines)]>>

Alignments(blocks, lines) ==
  {WholePage(lines)} \cup
  {Placed(blocks, lines, placement) :
     placement \in [DOMAIN lines -> DOMAIN blocks]}
=============================================================================
