---------------------------- MODULE JobLifecycle ----------------------------
(***************************************************************************)
(* What the job queue promises to those who listen to its events           *)
(* (JobQueued .. JobCancelled in plugins/jobs.py): in which order a job's  *)
(* lifecycle events may follow one another.  The queue (JobQueue)          *)
(* implements this specification; the event streams (JobEvents) are built  *)
(* on it.                                                                  *)
(***************************************************************************)
EXTENDS Naturals, Sequences, Functions

CONSTANT Jobs        \* job ids

VARIABLES events,    \* per job, the lifecycle events emitted so far
          erased     \* jobs that DELETE /api/jobs may have wiped

vars == <<events, erased>>

Kinds == {"queued", "started", "completed", "failed", "cancelled"}

Results == {"completed", "failed"}

\* The events that may follow the history h.  A job starts once, even when it
\* was announced as cancelled just before; it yields one result; a cancelled
\* job yields none, unless a clear made the queue forget the cancellation.
MayFollow(h, kind, forgotten) ==
  LET past == Range(h) IN
  /\ kind = "queued" <=> h = <<>>
  /\ kind # "queued" => past \cap Results = {}
  /\ kind = "started" => "started" \notin past
  /\ kind \in Results =>
       /\ "started" \in past
       /\ "cancelled" \in past => forgotten

Init ==
  /\ events = [j \in Jobs |-> <<>>]
  /\ erased = {}

Emit(j, kind) ==
  /\ MayFollow(events[j], kind, j \in erased)
  /\ events' = [events EXCEPT ![j] = Append(@, kind)]
  /\ UNCHANGED erased

Erase ==
  /\ erased' \in SUBSET Jobs
  /\ erased \subseteq erased'
  /\ UNCHANGED events

Next == Erase \/ \E j \in Jobs, kind \in Kinds : Emit(j, kind)

Spec == Init /\ [][Next]_vars

-----------------------------------------------------------------------------
\* Types of the event histories.
TypeOK ==
  /\ events \in [Jobs -> Seq(Kinds)]
  /\ erased \subseteq Jobs

\* A job never reports two results, and a job nobody erased never reports a
\* result together with a cancellation.
OneOutcome ==
  \A j \in Jobs : \A m, n \in DOMAIN events[j] :
    events[j][m] \in Results =>
      /\ events[j][n] \in Results => m = n
      /\ events[j][n] = "cancelled" => j \in erased
=============================================================================
