----------------------------- MODULE PageRange ------------------------------
(***************************************************************************)
(* The page selection of core/pdf/page_range.py, between its text form and *)
(* a set of pages.  A specification is a sequence of tokens separated by   *)
(* commas; a token is a pair <<start, end>> of numbers ("7" is <<7, 7>>),  *)
(* or Garbage when it does not match the pattern.                          *)
(***************************************************************************)
EXTENDS Integers, FiniteSets, Sequences

CONSTANT Garbage   \* a token that is not a page or a range of pages

ASSUME PageRangeAssumption == Garbage \notin Nat \X Nat

\* parse_page_range: None for a bad token, an empty range or page 0.
WellFormedSpec(spec) ==
  \A k \in DOMAIN spec :
    /\ spec[k] # Garbage
    /\ 1 <= spec[k][1] /\ spec[k][1] <= spec[k][2]

\* parse_page_range_with_total of a well-formed specification, as a set of
\* pages counted from 0; pages the document does not have are dropped.
SelectedPages(spec, total) ==
  LET named == UNION {spec[k][1] .. spec[k][2] : k \in DOMAIN spec}
  IN  {p - 1 : p \in named \cap 1 .. total}

\* serialize_page_range of pages counted from 1: one token per maximal run,
\* the one that k - 1 runs begin before in place k.
SerializePages(pages) ==
  LET starts == {p \in pages : p - 1 \notin pages}
      endOf(s) == CHOOSE e \in pages :
                    s <= e /\ s .. e \subseteq pages /\ e + 1 \notin pages
      nth(k) == CHOOSE s \in starts :
                  Cardinality({r \in starts : r < s}) = k - 1
  IN  [k \in 1 .. Cardinality(starts) |-> <<nth(k), endOf(nth(k))>>]

-----------------------------------------------------------------------------

\* Pages survive a round trip through their text, which names maximal runs in
\* ascending order; a total cuts off what lies beyond.
SelectionSurvives(pages, total) ==
  LET spec == SerializePages(pages)
  IN  /\ WellFormedSpec(spec)
      /\ SelectedPages(spec, total) = {p - 1 : p \in pages \cap 1 .. total}
      /\ \A k \in 1 .. Len(spec) - 1 : spec[k][2] + 1 < spec[k + 1][1]
=============================================================================
