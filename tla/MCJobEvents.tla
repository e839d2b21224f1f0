----------------------------- MODULE MCJobEvents -----------------------------
(***************************************************************************)
(* Small instances of JobEvents for TLC.  Jobs and clients are             *)
(* interchangeable among themselves.                                       *)
(***************************************************************************)
EXTENDS JobEvents, TLC

CONSTANTS j1, j2, c1, c2

OneJob == {j1}
TwoJobs == {j1, j2}
OneClient == {c1}
TwoClients == {c1, c2}

EventSymmetry == Permutations(Jobs) \cup Permutations(Clients)
=============================================================================
