----------------------------- MODULE MCJobQueue -----------------------------
(***************************************************************************)
(* Small instances of JobQueue for TLC.  Job ids are interchangeable.      *)
(***************************************************************************)
EXTENDS JobQueue, TLC

CONSTANTS j1, j2

TwoJobs == {j1, j2}

JobSymmetry == Permutations(Jobs)
=============================================================================
