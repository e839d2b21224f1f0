----------------------------- MODULE Alignment ------------------------------
(***************************************************************************)
(* The aligner of the hybrid engine: HybridAligner.align_text and its      *)
(* helpers in core/aligner.py, which give the lines a model read from a    *)
(* whole page to the boxes that layout detection found on it.              *)
(*                                                                         *)
(* Pure functions, evaluated by the runs of HybridWorkflow on inputs of    *)
(* their own.  HybridWorkflow takes the aligner's result from Alignments   *)
(* in PageText, and MeetsContract shows that it may.  Boxes are rectangles *)
(* with integer coordinates, hundredths of the page.  Costs are in         *)
(* thousandths, rounded down where the code has a float.                   *)
(***************************************************************************)
EXTENDS PageText, FiniteSetsExt

CONSTANTS
  BoxPages,     \* the pages, as sequences of boxes in the order of detection
  Texts,        \* what the model may read: sequences of lines
  LengthOf      \* the characters of each word

\* The boxes of a page.
Areas == [x0 : 0 .. 100, y0 : 0 .. 100, x1 : 0 .. 100, y1 : 0 .. 100]

ASSUME AlignmentAssumption ==
  /\ LengthOf \in [Words -> Nat \ {0}]
  /\ BoxPages \subseteq Seq(Areas)
  /\ Texts \subseteq Seq(Seq(Words) \ {<<>>})

-----------------------------------------------------------------------------
(* Reading order.  An order is a sequence of indices of boxes.             *)

\* ids sorted by key, a pair of numbers; equal keys keep their order in ids.
SortedBy(ids, key) ==
  LET before(p, q) ==
        LET a == key[ids[p]]  b == key[ids[q]]
        IN  \/ a[1] < b[1]
            \/ a[1] = b[1] /\ a[2] < b[2]
            \/ a = b /\ p < q
      rank(p) == Cardinality({q \in DOMAIN ids : before(q, p)})
  IN  [k \in DOMAIN ids |-> ids[CHOOSE p \in DOMAIN ids : rank(p) = k - 1]]

RowMajor(boxes, ids) ==
  SortedBy(ids, [i \in DOMAIN boxes |-> <<boxes[i].y0, boxes[i].x0>>])

\* Twice the centre, in hundredths; the threshold 0.2 is 40.
Centre(box) == box.x0 + box.x1
ColumnGap == 40

\* Mutated form: off by one, a column needs three boxes.
ReadingOrderThree(boxes, all) ==
  LET order[ids \in Seq(DOMAIN boxes)] ==
        LET size  == Len(ids)
            by    == SortedBy(ids,
                              [i \in DOMAIN boxes |-> <<Centre(boxes[i]), 0>>])
            gap   == [k \in 1 .. size - 1 |->
                        Centre(boxes[by[k + 1]]) - Centre(boxes[by[k]])]
            split == First({k \in 1 .. size - 1 :
                              \A l \in 1 .. size - 1 : gap[l] <= gap[k]})
        IN  IF size < 4 \/ gap[split] < ColumnGap
                 \/ split < 3 \/ split > size - 3
              THEN RowMajor(boxes, ids)
              ELSE order[SubSeq(by, 1, split)]
                   \o order[SubSeq(by, split + 1, size)]
  IN  order[all]

\* Columns from left to right: the boxes are split at the widest gap between
\* centres while both sides keep two boxes.  (The code also stops at a depth
\* of 50, which takes 102 boxes.)
ReadingOrder(boxes, all) ==
  LET order[ids \in Seq(DOMAIN boxes)] ==
        LET size  == Len(ids)
            by    == SortedBy(ids,
                              [i \in DOMAIN boxes |-> <<Centre(boxes[i]), 0>>])
            gap   == [k \in 1 .. size - 1 |->
                        Centre(boxes[by[k + 1]]) - Centre(boxes[by[k]])]
            split == First({k \in 1 .. size - 1 :
                              \A l \in 1 .. size - 1 : gap[l] <= gap[k]})
        IN  IF size < 4 \/ gap[split] < ColumnGap
                 \/ split < 2 \/ split > size - 2
              THEN RowMajor(boxes, ids)
              ELSE order[SubSeq(by, 1, split)]
                   \o order[SubSeq(by, split + 1, size)]
  IN  order[all]

-----------------------------------------------------------------------------
(* Costs.                                                                  *)

SkipLineCost == 1000
SkipBoxCost  == 400

Larger(a, b) == IF a > b THEN a ELSE b

Distance(a, b) == IF a > b THEN a - b ELSE b - a

\* The area of a box; a degenerate one counts as the smallest area there is.
Capacity(box) ==
  Larger(1, Distance(box.x0, box.x1) * Distance(box.y0, box.y1))

Chars(line) ==
  SumFunction([k \in DOMAIN line |-> LengthOf[line[k]]]) + Len(line) - 1

\* A line of actual characters in a box that should hold
\* capacity / capacities of chars, at least one character.
MatchCost(actual, capacity, capacities, chars) ==
  LET have == actual * capacities
      want == Larger(capacities, capacity * chars)
  IN  IF have > want THEN ((have - want) * 1000) \div have
                     ELSE ((want - have) * 500) \div want

\* The cost of giving line i to box j, for the lines and boxes in this order.
PairCost(ls, boxes) ==
  LET chars == [i \in DOMAIN ls |-> Chars(ls[i])]
      caps  == [j \in DOMAIN boxes |-> Capacity(boxes[j])]
  IN  [x \in (DOMAIN ls) \X (DOMAIN boxes) |->
         MatchCost(chars[x[1]], caps[x[2]],
                   SumFunction(caps), SumFunction(chars))]

-----------------------------------------------------------------------------
(* The alignment: the cheapest way to consume the lines and the boxes in   *)
(* order, matching a line with a box, skipping a line or skipping a box.   *)
(* A path is what was done, in order; on equal costs a match is kept       *)
(* before a skipped line, and that before a skipped box.                   *)

NoPath == [cost |-> 0, ops |-> <<>>]

Extend(path, cost, op) ==
  [cost |-> path.cost + cost, ops |-> Append(path.ops, op)]

Cheaper(a, b) == IF b.cost < a.cost THEN b ELSE a

\* Mutated form: a match is taken whenever there is a line and a box left.
BestPathGreedy(ls, boxes) ==
  LET cost == PairCost(ls, boxes)
      best[x \in (0 .. Len(ls)) \X (0 .. Len(boxes))] ==
        LET i == x[1]  j == x[2]
        IN  IF i = 0 /\ j = 0 THEN NoPath
            ELSE IF i = 0 THEN Extend(best[<<0, j - 1>>], SkipBoxCost, "box")
            ELSE IF j = 0 THEN Extend(best[<<i - 1, 0>>], SkipLineCost, "line")
            ELSE Extend(best[<<i - 1, j - 1>>], cost[i, j], "match")
  IN  best[<<Len(ls), Len(boxes)>>]

BestPath(ls, boxes) ==
  LET cost == PairCost(ls, boxes)
      best[x \in (0 .. Len(ls)) \X (0 .. Len(boxes))] ==
        LET i == x[1]  j == x[2]
        IN  IF i = 0 /\ j = 0 THEN NoPath
            ELSE IF i = 0 THEN Extend(best[<<0, j - 1>>], SkipBoxCost, "box")
            ELSE IF j = 0 THEN Extend(best[<<i - 1, 0>>], SkipLineCost, "line")
            ELSE Cheaper(
                   Cheaper(Extend(best[<<i - 1, j - 1>>], cost[i, j], "match"),
                           Extend(best[<<i - 1, j>>], SkipLineCost, "line")),
                   Extend(best[<<i, j - 1>>], SkipBoxCost, "box"))
  IN  best[<<Len(ls), Len(boxes)>>]

\* Mutated form: a line skipped before the first match goes to no box.
FollowDropping(state, op) ==
  CASE op = "match" -> [state EXCEPT !.box = @ + 1, !.last = state.box + 1,
                                     !.to = Append(@, state.box + 1),
                                     !.matches = @ + 1]
    [] op = "line"  -> [state EXCEPT !.to = Append(@, state.last)]
    [] op = "box"   -> [state EXCEPT !.box = @ + 1]

\* One step of the replay: to has the box of each line so far.  A skipped
\* line goes to the last matched box, or to the first box.
Follow(state, op) ==
  CASE op = "match" -> [state EXCEPT !.box = @ + 1, !.last = state.box + 1,
                                     !.to = Append(@, state.box + 1),
                                     !.matches = @ + 1]
    [] op = "line"  -> [state EXCEPT !.to = Append(@, Larger(1, state.last))]
    [] op = "box"   -> [state EXCEPT !.box = @ + 1]

Replay(ops) ==
  LET after[k \in 0 .. Len(ops)] ==
        IF k = 0 THEN [box |-> 0, last |-> 0, to |-> <<>>, matches |-> 0]
        ELSE Follow(after[k - 1], ops[k])
  IN  after[Len(ops)]

\* _dp_align with the boxes in the given order: the cost, and per line the
\* index of its box.
DpAlign(ls, boxes, order) ==
  LET path == BestPath(ls, [k \in DOMAIN order |-> boxes[order[k]]])
      end  == Replay(path.ops)
  IN  [cost |-> path.cost, matches |-> end.matches,
       placement |-> [k \in DOMAIN ls |->
                        IF end.to[k] = 0 THEN 0 ELSE order[end.to[k]]]]

\* Nothing matched, or a single line for many boxes.
Degenerate(ls, blocks, matches) ==
  \/ matches = 0 /\ Len(ls) > 1
  \/ Len(ls) = 1 /\ Len(blocks) >= 5

AlignText(blocks, ls) ==
  LET boxes == [i \in DOMAIN blocks |-> blocks[i].box]
      ids   == [i \in DOMAIN blocks |-> i]
      byRow == DpAlign(ls, boxes, RowMajor(boxes, ids))
      byCol == DpAlign(ls, boxes, ReadingOrder(boxes, ids))
      best  == Cheaper(byRow, byCol)
  IN  CASE blocks = <<>> /\ ls = <<>> -> <<>>
        [] blocks = <<>> /\ ls # <<>> -> WholePage(ls)
        [] blocks # <<>> /\ ls = <<>> ->
             [i \in DOMAIN blocks |-> SetText(blocks[i], <<>>)]
        [] blocks # <<>> /\ ls # <<>> ->
             IF Degenerate(ls, blocks, best.matches) THEN WholePage(ls)
             ELSE Placed(blocks, ls, best.placement)

-----------------------------------------------------------------------------
(* Properties: of every page and every reading of the instance.            *)

Unread(layout) == [i \in DOMAIN layout |-> [box |-> layout[i], text |-> <<>>]]

Ids(boxes) == [i \in DOMAIN boxes |-> i]

\* Whatever was detected and read, the result is one the engine may rely on:
\* every line is in the text of exactly one block, the lines of a block in
\* the order they were read, and the boxes are those detected in their order,
\* or one box over the whole page (align_text's fallbacks included).
MeetsContract ==
  \A layout \in BoxPages, lines \in Texts :
    LET page == Unread(layout)
    IN  {AlignText(page, lines)} \subseteq
          IF lines = <<>> THEN {page} ELSE Alignments(page, lines)

\* Every way to give some of i lines one of j boxes each, without crossings.
Matchings(i, j) ==
  {f \in UNION {[L -> 1 .. j] : L \in SUBSET (1 .. i)} :
     \A k, l \in DOMAIN f : k < l => f[k] < f[l]}

\* The cost of a matching, given the cost of each pair, by definition.
MatchingCost(f, i, j, cost) ==
  SumFunction([k \in DOMAIN f |-> cost[k, f[k]]])
    + SkipLineCost * (i - Cardinality(DOMAIN f))
    + SkipBoxCost * (j - Cardinality(DOMAIN f))

\* The boxes in the given order are aligned at the least cost there is.
Cheapest(ls, boxes, order) ==
  LET i == Len(ls)
      j == Len(boxes)
      cost == PairCost(ls, [k \in DOMAIN order |-> boxes[order[k]]])
      costs == {MatchingCost(f, i, j, cost) : f \in Matchings(i, j)}
      found == DpAlign(ls, boxes, order).cost
  IN  found \in costs /\ \A c \in costs : found <= c

\* The dynamic programme of _dp_align finds the cheapest alignment there is,
\* for each of the two orders that align_text tries.
CostIsLeast ==
  \A boxes \in BoxPages \ {<<>>}, lines \in Texts \ {<<>>} :
    /\ Cheapest(lines, boxes, RowMajor(boxes, Ids(boxes)))
    /\ Cheapest(lines, boxes, ReadingOrder(boxes, Ids(boxes)))

\* The boxes stand in columns of two or more, numbered from left to right:
\* boxes are a column gap apart when their columns differ, and only then.
InColumns(boxes, column) ==
  /\ \A i, j \in DOMAIN boxes :
       column[i] < column[j]
         <=> Centre(boxes[j]) - Centre(boxes[i]) >= ColumnGap
  /\ \A i \in DOMAIN boxes : \E j \in (DOMAIN boxes) \ {i} :
       column[j] = column[i]

\* The order goes down one column after the other.
DownColumns(boxes, column, order) ==
  \A k, l \in DOMAIN order : k < l =>
    \/ column[order[k]] < column[order[l]]
    \/ /\ column[order[k]] = column[order[l]]
       /\ boxes[order[k]].y0 < boxes[order[l]].y0

\* Line k fits the k-th box of the order, whatever k.
Fits(lines, boxes, order) ==
  LET cost == PairCost(lines, [k \in DOMAIN order |-> boxes[order[k]]])
  IN  \A k \in DOMAIN order : cost[<<k, k>>] = 0

\* A reading that fits the boxes when they are taken column by column, and
\* does not when they are taken row by row, is put there: line k in the k-th
\* box of the columns.
ColumnsFollowed ==
  \A boxes \in BoxPages :
    \A column \in [DOMAIN boxes -> 1 .. Len(boxes) \div 2] :
      InColumns(boxes, column) =>
        \A order \in [DOMAIN boxes -> DOMAIN boxes] :
          DownColumns(boxes, column, order) =>
            \A lines \in Texts :
              /\ Len(lines) = Len(boxes)
              /\ Fits(lines, boxes, order)
              /\ ~Fits(lines, boxes, RowMajor(boxes, Ids(boxes)))
              => \A k \in DOMAIN lines :
                   AlignText(Unread(boxes), lines)[order[k]].text = lines[k]
=============================================================================
