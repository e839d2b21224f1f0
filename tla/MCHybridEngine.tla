--------------------------- MODULE MCHybridEngine ----------------------------
(***************************************************************************)
(* A small instance of HybridEngine for TLC: a page of two boxes or none   *)
(* and a page of one box; in mode auto the first is dense, in mode always  *)
(* both are.  The aligner and the page ranges that a run calls are checked *)
(* next to it, on inputs of their own: pages of up to four boxes in two    *)
(* columns and one of five, with areas of 200 and 400, and readings of up  *)
(* to four lines of one word each, of 2 or 4 characters.                   *)
(***************************************************************************)
EXTENDS HybridEngine, PageRange

AllWords    == {"so", "on.", "7#7#"}
Alphabetic  == {"so", "on."}
EndingWords == {"on."}

Lengths == [w \in AllWords |-> CASE w = "so" -> 2 [] w = "on." -> 3
                                 [] w = "7#7#" -> 4]

Left(y0, y1)  == [x0 |-> 5, y0 |-> y0, x1 |-> 45, y1 |-> y1]
Right(y0, y1) == [x0 |-> 55, y0 |-> y0, x1 |-> 95, y1 |-> y1]
WholeArea     == [x0 |-> 0, y0 |-> 0, x1 |-> 100, y1 |-> 100]

\* In the order of detection: from the top, then from the left.
TwoColumns ==
  <<Left(10, 15), Right(10, 20), Left(20, 25), Right(35, 45),
    Left(60, 70)>>

Selection(S) ==
  [k \in 1 .. Cardinality(S) |-> TwoColumns[SetToSortSeq(S, <)[k]]]

ColumnPages == {Selection(S) : S \in (SUBSET (1 .. 4)) \cup {DOMAIN TwoColumns}}

PlainTexts ==
  UNION {[1 .. k -> {<<"so">>, <<"7#7#">>}] : k \in 0 .. 4}

Thin == Left(10, 11)
Wide == Left(20, 30)
Low  == Left(40, 50)

AllBoxes  == {Thin, Wide, Low, WholeArea}
CropBoxes == {Wide, Low, WholeArea}

PageLayouts == <<{<<>>, <<Wide, Low>>}, {<<Thin>>, <<Wide>>}>>

PageReadings == {<<>>, << <<"so">>, <<"on.">> >>, << <<"so", "7#7#">> >>}

CropReadings == {<<"so">>, <<"so", "7#7#", "7#7#">>, <<"so", "so", "on.">>}

RunSettings ==
  {[mode |-> "never",  refine |-> TRUE,  repair |-> FALSE, merge |-> TRUE],
   [mode |-> "never",  refine |-> FALSE, repair |-> TRUE,  merge |-> FALSE],
   [mode |-> "auto",   refine |-> TRUE,  repair |-> FALSE, merge |-> FALSE],
   [mode |-> "always", refine |-> FALSE, repair |-> FALSE, merge |-> TRUE]}

-----------------------------------------------------------------------------

\* Page selections survive a round trip through their text.
ASSUME RoundTrip ==
  \A pages \in SUBSET (1 .. 6), total \in {4, 6} :
    SelectionSurvives(pages, total)
=============================================================================
