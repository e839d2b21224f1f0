------------------------- MODULE MCProgressSessions -------------------------
(***************************************************************************)
(* A small instance of ProgressSessions for TLC: two sessions, three       *)
(* sockets in use at a time, one frame under the cap, one reconnection and *)
(* one frame on its way up.                                                *)
(***************************************************************************)
EXTENDS ProgressSessions
=============================================================================
