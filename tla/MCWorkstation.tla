---------------------------- MODULE MCWorkstation ---------------------------
(***************************************************************************)
(* A small instance of Workstation for TLC: two documents, and three       *)
(* commands on documents of one page without previews, or two on documents *)
(* of two pages.                                                           *)
(***************************************************************************)
EXTENDS Workstation

SmallLimits == {<<3, 1, 0>>, <<2, 2, 1>>}
=============================================================================
