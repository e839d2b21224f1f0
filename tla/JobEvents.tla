------------------------------ MODULE JobEvents ------------------------------
(***************************************************************************)
(* The event streams of OmniScribe's jobs: the OCR plugin records every    *)
(* lifecycle event and progress frame of a job in a bounded buffer         *)
(* (plugins/ocr/service.py) and serves it as server-sent events            *)
(* (GET /api/process/{job_id}/events, plugins/ocr/plugin.py).              *)
(*                                                                         *)
(* record_event never suspends.  A stream is a generator that suspends     *)
(* only while the client takes what it yielded and while it waits for the  *)
(* job's asyncio.Event, so an action is what happens between two of those  *)
(* suspensions.  The jobs are the environment: their events come in any    *)
(* order JobLifecycle allows, which JobQueue is checked to implement.      *)
(*                                                                         *)
(* An entry of a buffer is its position in the job's log, so that the      *)
(* properties can tell a gap, a repetition and a change of order.          *)
(***************************************************************************)
EXTENDS Naturals, Sequences, FiniteSets, SequencesExt

CONSTANTS
  Jobs,         \* job ids
  Clients,      \* streams; a client that reconnects is another one
  NoJob,        \* the job of a stream that was not opened
  BufCap,       \* maxlen of a job's deque (500)
  MaxBuffered,  \* max_buffered_jobs (500)
  MaxFrames,    \* bound: progress frames of a job
  MaxCancels,   \* bound: JobCancelled events of a job
  MaxClears     \* bound: jobs that DELETE /api/jobs wipes in a behaviour

ASSUME JobEventsAssumption ==
  /\ NoJob \notin Jobs
  /\ IsFiniteSet(Jobs)
  /\ BufCap \in Nat \ {0}
  /\ MaxBuffered \in Nat \ {0}
  /\ MaxFrames \in Nat
  /\ MaxCancels \in Nat
  /\ MaxClears \in Nat

VARIABLES
  log,       \* per job, everything ever recorded: kinds of events
  rows,      \* jobs that have a record in the queue
  erased,    \* jobs whose record DELETE /api/jobs has wiped
  buffers,   \* _event_buffers: per job, the entries held
  keys,      \* the jobs that have a buffer, in insertion order
  done,      \* _done_jobs
  notify,    \* _event_notify: per job, no Event, or whether it is set
  streams,   \* per client, its generator: where it is, and its locals
  received,  \* per client, the entries it was sent
  opened,    \* per client, the length of its job's log when it connected
  dropped    \* jobs an entry of which a bound has thrown away

jobs == <<log, rows, erased>>
service == <<buffers, keys, done, notify, dropped>>
clients == <<streams, received, opened>>
vars == <<jobs, service, clients>>

Progress == "progress"
Terminal == {"completed", "failed", "cancelled"}

Stages == {"off", "refused", "opened", "sending", "waiting", "woken",
           "pinged", "closed", "left"}
Ended == {"off", "refused", "closed", "left"}

IsLifecycle(kind) == kind # Progress

Count(j, kind) == Cardinality({n \in DOMAIN log[j] : log[j][n] = kind})

Lifecycle(j) == SelectSeq(log[j], IsLifecycle)

Life == INSTANCE JobLifecycle WITH events <- [j \in Jobs |-> Lifecycle(j)]

\* A generator that has sent nothing yet.
Fresh(pc, j) == [pc |-> pc, job |-> j, cursor |-> 0, backlog |-> <<>>,
                 event |-> "current"]

Off == Fresh("off", NoJob)

Init ==
  /\ log = [j \in Jobs |-> <<>>]
  /\ rows = {} /\ erased = {}
  /\ buffers = [j \in Jobs |-> <<>>]
  /\ keys = <<>> /\ done = {} /\ dropped = {}
  /\ notify = [j \in Jobs |-> "none"]
  /\ streams = [c \in Clients |-> Off]
  /\ received = [c \in Clients |-> <<>>]
  /\ opened = [c \in Clients |-> 0]

-----------------------------------------------------------------------------
(* record_event.                                                           *)

\* deque(maxlen=BufCap).append(entry)
Push(buffer, entry) ==
  LET b == Append(buffer, entry) IN
  IF Len(b) > BufCap THEN Tail(b) ELSE b

\* Mutated form: an evicted job stays in _done_jobs.
PruneKeepsDone(ks, ds) ==
  [jobs |-> IF Len(ks) > MaxBuffered THEN Tail(ks) ELSE ks,
   gone |-> IF Len(ks) > MaxBuffered THEN {Head(ks)} ELSE {},
   done |-> ds]

\* _prune_events_if_needed: the job whose buffer is the oldest loses its
\* buffer, its Event and its place in _done_jobs, running or not.  The second
\* half of the code, for a _done_jobs beyond the limit, keeps the jobs that
\* have a buffer.
Prune(ks, ds) ==
  LET over == Len(ks) > MaxBuffered
      gone == IF over THEN {Head(ks)} ELSE {}
      left == IF over THEN Tail(ks) ELSE ks
  IN [jobs |-> left,
      gone |-> gone,
      done |-> IF Cardinality(ds \ gone) > MaxBuffered
                 THEN ds \cap ToSet(left) ELSE ds \ gone]

\* Event.set wakes every stream that waits for this Event; popping it leaves
\* those that hold it with an Event nobody will ever set.
Notified(j, gone) ==
  [c \in Clients |->
     LET s == streams[c] IN
     IF s.job = j /\ s.pc = "waiting" /\ s.event = "current"
       THEN [s EXCEPT !.pc = "woken"]
     ELSE IF s.job \in gone /\ s.pc \in {"waiting", "woken"}
       THEN [s EXCEPT !.event = "popped"]
     ELSE s]

Record(j, kind) ==
  LET ks == IF Contains(keys, j) THEN keys ELSE Append(keys, j)
      pruned == Prune(ks, IF kind \in Terminal THEN done \cup {j} ELSE done)
      full == Len(buffers[j]) = BufCap
  IN
  /\ log' = [log EXCEPT ![j] = Append(@, kind)]
  /\ buffers' = [i \in Jobs |->
                   IF i \in pruned.gone THEN <<>>
                   ELSE IF i = j THEN Push(buffers[j], Len(log[j]) + 1)
                   ELSE buffers[i]]
  /\ keys' = pruned.jobs
  /\ done' = pruned.done
  /\ notify' = [i \in Jobs |-> IF i \in pruned.gone THEN "none"
                               ELSE IF i = j THEN "set" ELSE notify[i]]
  /\ streams' = Notified(j, pruned.gone)
  /\ dropped' = dropped \cup pruned.gone \cup (IF full THEN {j} ELSE {})
  /\ UNCHANGED <<received, opened>>

-----------------------------------------------------------------------------
(* The environment: the jobs and the queue.                                *)

\* The queue emits a lifecycle event; the record exists since submit.
JobEvent(j, kind) ==
  /\ Life!MayFollow(Lifecycle(j), kind, j \in erased)
  /\ kind = "cancelled" => Count(j, kind) < MaxCancels
  /\ Record(j, kind)
  /\ rows' = IF kind = "queued" THEN rows \cup {j} ELSE rows
  /\ UNCHANGED erased

\* The runner reports progress while it runs, through a progress channel.
Frame(j) ==
  /\ Contains(log[j], "started")
  /\ ToSet(log[j]) \cap Life!Results = {}
  /\ Count(j, Progress) < MaxFrames
  /\ Record(j, Progress)
  /\ UNCHANGED <<rows, erased>>

\* DELETE /api/jobs wipes the records and nothing of the event buffers.
Clear ==
  /\ rows # {}
  /\ erased' = erased \cup rows
  /\ Cardinality(erased') <= MaxClears
  /\ rows' = {}
  /\ UNCHANGED <<log, service, clients>>

-----------------------------------------------------------------------------
(* A stream.                                                               *)

\* Mutated form: is_done is looked at before the backlog is sent.
NextStopDoneFirst(j, cursor, seen, flag) ==
  IF j \in done
    THEN [pc |-> "closed", cursor |-> cursor, backlog |-> seen, flag |-> flag]
  ELSE IF cursor < Len(seen)
    THEN [pc |-> "sending", cursor |-> cursor, backlog |-> seen, flag |-> flag]
  ELSE IF flag = "set" /\ cursor < Len(buffers[j])
    THEN [pc |-> "sending", cursor |-> cursor, backlog |-> buffers[j],
          flag |-> "clear"]
  ELSE [pc |-> "waiting", cursor |-> cursor, backlog |-> seen, flag |-> "clear"]

\* Mutated form: the Event is cleared before it is waited for, not after.
NextStopClearsFirst(j, cursor, seen, flag) ==
  IF cursor < Len(seen)
    THEN [pc |-> "sending", cursor |-> cursor, backlog |-> seen, flag |-> flag]
  ELSE IF j \in done
    THEN [pc |-> "closed", cursor |-> cursor, backlog |-> seen, flag |-> flag]
  ELSE [pc |-> "waiting", cursor |-> cursor, backlog |-> seen, flag |-> "clear"]

\* Mutated form: is_done is looked at only when the Event is found set.
NextStopNeedsEvent(j, cursor, seen, flag) ==
  IF cursor < Len(seen)
    THEN [pc |-> "sending", cursor |-> cursor, backlog |-> seen, flag |-> flag]
  ELSE IF j \in done /\ flag = "set"
    THEN [pc |-> "closed", cursor |-> cursor, backlog |-> seen, flag |-> flag]
  ELSE IF flag = "set" /\ cursor < Len(buffers[j])
    THEN [pc |-> "sending", cursor |-> cursor, backlog |-> buffers[j],
          flag |-> "clear"]
  ELSE [pc |-> "waiting", cursor |-> cursor, backlog |-> seen, flag |-> "clear"]

\* Where the generator suspends next, when it has sent cursor entries of the
\* backlog it has seen: it sends what is left of it; the job being over, it
\* ends; an Event found set is cleared and the backlog looked at again; else
\* it waits, creating the Event if there is none.
NextStop(j, cursor, seen, flag) ==
  IF cursor < Len(seen)
    THEN [pc |-> "sending", cursor |-> cursor, backlog |-> seen, flag |-> flag]
  ELSE IF j \in done
    THEN [pc |-> "closed", cursor |-> cursor, backlog |-> seen, flag |-> flag]
  ELSE IF flag = "set" /\ cursor < Len(buffers[j])
    THEN [pc |-> "sending", cursor |-> cursor, backlog |-> buffers[j],
          flag |-> "clear"]
  ELSE [pc |-> "waiting", cursor |-> cursor, backlog |-> seen, flag |-> "clear"]

RunTo(c, stop) ==
  /\ streams' = [streams EXCEPT ![c] =
                   [pc |-> stop.pc, job |-> @.job, cursor |-> stop.cursor,
                    \* the snapshot is of no use once it has been sent
                    backlog |-> IF stop.pc = "sending" THEN stop.backlog
                                                       ELSE <<>>,
                    event |-> "current"]]
  /\ notify' = [notify EXCEPT ![streams[c].job] = stop.flag]
  /\ UNCHANGED <<jobs, buffers, keys, done, dropped, opened>>

\* The request, for an id that a submit has returned: 404 for a job with
\* neither a record nor a backlog left.
Open(c, j) ==
  /\ streams[c].pc = "off"
  /\ log[j] # <<>>
  /\ streams' = [streams EXCEPT ![c] =
                   Fresh(IF j \in rows \/ buffers[j] # <<>>
                           THEN "opened" ELSE "refused", j)]
  /\ opened' = [opened EXCEPT ![c] = Len(log[j])]
  /\ UNCHANGED <<jobs, service, received>>

\* Mutated form: a stream starts at the end of the backlog.
ReadFromEnd(c) ==
  LET s == streams[c]
      from == IF s.pc = "opened" THEN Len(buffers[s.job]) ELSE s.cursor IN
  /\ s.pc \in {"opened", "pinged"}
  /\ RunTo(c, NextStop(s.job, from, buffers[s.job], notify[s.job]))
  /\ UNCHANGED received

\* Mutated form: after a keep-alive the backlog is sent from its start.
ReadFromStart(c) ==
  LET s == streams[c] IN
  /\ s.pc \in {"opened", "pinged"}
  /\ RunTo(c, NextStop(s.job, 0, buffers[s.job], notify[s.job]))
  /\ UNCHANGED received

\* Mutated form: after a keep-alive the last entry is sent again.
ReadRewinds(c) ==
  LET s == streams[c]
      from == IF s.pc = "pinged" THEN s.cursor - 1 ELSE s.cursor IN
  /\ s.pc \in {"opened", "pinged"}
  /\ RunTo(c, NextStop(s.job, from, buffers[s.job], notify[s.job]))
  /\ UNCHANGED received

\* The top of the loop, at the first turn and after a keep-alive.
Read(c) ==
  LET s == streams[c] IN
  /\ s.pc \in {"opened", "pinged"}
  /\ RunTo(c, NextStop(s.job, s.cursor, buffers[s.job], notify[s.job]))
  /\ UNCHANGED received

\* The client takes the entry that was yielded, and the generator goes on
\* with the backlog it read before.
Send(c) ==
  LET s == streams[c] IN
  /\ s.pc = "sending"
  /\ received' = [received EXCEPT ![c] = Append(@, s.backlog[s.cursor + 1])]
  /\ RunTo(c, NextStop(s.job, s.cursor + 1, s.backlog, notify[s.job]))

\* wait_for_events returns: the Event is cleared, for every stream, and the
\* backlog is read.
Wake(c) ==
  LET s == streams[c]
      flag == IF s.event = "current" THEN "clear" ELSE notify[s.job] IN
  /\ s.pc = "woken"
  /\ RunTo(c, NextStop(s.job, s.cursor, buffers[s.job], flag))
  /\ UNCHANGED received

\* Mutated form: the time-out waits again without a look at the backlog.
KeepAliveOnly(c) ==
  /\ streams[c].pc = "waiting"
  /\ UNCHANGED vars

\* SSE_KEEPALIVE_SECONDS have passed; the comment sent is no event.
KeepAlive(c) ==
  /\ streams[c].pc \in {"waiting", "woken"}
  /\ streams' = [streams EXCEPT ![c].pc = "pinged"]
  /\ UNCHANGED <<jobs, service, received, opened>>

\* The client goes away, wherever its stream is; what it got is forgotten.
Disconnect(c) ==
  /\ streams[c].pc \notin Ended
  /\ streams' = [streams EXCEPT ![c] = Fresh("left", streams[c].job)]
  /\ received' = [received EXCEPT ![c] = <<>>]
  /\ opened' = [opened EXCEPT ![c] = 0]
  /\ UNCHANGED <<jobs, service>>

-----------------------------------------------------------------------------
Stream(c) == Read(c) \/ Send(c) \/ Wake(c) \/ KeepAlive(c)

Next ==
  \/ \E j \in Jobs : Frame(j) \/ \E kind \in Life!Kinds : JobEvent(j, kind)
  \/ Clear
  \/ \E c \in Clients, j \in Jobs : Open(c, j)
  \/ \E c \in Clients : Stream(c) \/ Disconnect(c)

Spec == Init /\ [][Next]_vars

\* Each generator is a task of its own, the client reads what it is sent or
\* goes away, and the timer of the keep-alive fires.  Jobs owe nothing.
FairSpec == Spec /\ \A c \in Clients : WF_vars(Stream(c))

-----------------------------------------------------------------------------
(* Properties.                                                             *)

Increasing(q) == \A m, n \in DOMAIN q : m < n => q[m] < q[n]

Entries == 1 .. MaxFrames + MaxCancels + 3

\* Types of the variables.
TypeOK ==
  /\ log \in [Jobs -> Seq(Life!Kinds \cup {Progress})]
  /\ rows \subseteq Jobs
  /\ erased \subseteq Jobs
  /\ buffers \in [Jobs -> Seq(Nat)]
  /\ keys \in Seq(Jobs)
  /\ done \subseteq Jobs
  /\ notify \in [Jobs -> {"none", "clear", "set"}]
  /\ streams \in [Clients -> [pc : Stages, job : Jobs \cup {NoJob},
                              cursor : Nat, backlog : Seq(Nat),
                              event : {"current", "popped"}]]
  /\ received \in [Clients -> Seq(Nat)]
  /\ opened \in [Clients -> Nat]
  /\ dropped \subseteq Jobs

\* The bookkeeping of finished and unfinished jobs stays within its bounds
\* and agrees with itself: a job is in the insertion order, has entries and
\* may be done, or has nothing at all.  (notify is not bounded: a stream of
\* an evicted job creates an Event that no eviction will find.)
BoundedBuffers ==
  /\ Len(keys) <= MaxBuffered
  /\ IsInjective(keys)
  /\ done \subseteq ToSet(keys)
  /\ \A j \in Jobs : /\ Len(buffers[j]) <= BufCap
                     /\ buffers[j] # <<>> <=> Contains(keys, j)

\* No stream ever gets an event twice or an older one after a newer one, even
\* when its cursor points into a buffer that overflowed, or that was evicted
\* and begun again.
ReceivedInOrder == \A c \in Clients : Increasing(received[c])

\* As long as the bounds threw nothing of its job away, a stream has got a
\* prefix of the job's log: woken, late or slow, it skips nothing.
NothingSkipped ==
  \A c \in Clients : streams[c].job \in Jobs \ dropped =>
    \A n \in DOMAIN received[c] : received[c][n] = n

\* A stream that the server ended has replayed at least everything recorded
\* before it was opened: one opened after the job's end gets its outcome.
ReplayIsComplete ==
  \A c \in Clients :
    streams[c].pc = "closed" /\ streams[c].job \notin dropped
      => Len(received[c]) >= opened[c]

\* With no other stream on its job, a stream that waits has nothing to wait
\* for that has already happened: the wake-up is never lost to itself.
SoleStreamIsCurrent ==
  \A c \in Clients :
    LET s == streams[c] IN
    /\ s.pc = "waiting" /\ s.job \notin dropped
    /\ \A d \in Clients \ {c} : streams[d].job # s.job
    => s.cursor = Len(buffers[s.job]) /\ s.job \notin done

\* Although the streams of a job clear one another's wake-ups, every stream
\* of a job that is over ends, unless the job's buffer is evicted before.
FinishedStreamsEnd ==
  \A c \in Clients, j \in Jobs :
    streams[c].pc \notin Ended /\ streams[c].job = j /\ j \in done
      ~> streams[c].pc \in Ended \/ j \notin done

\* Every event that a stream's job has recorded reaches the stream, unless the
\* stream ends first or a bound throws away an entry of the job.
EventsReachStreams ==
  \A c \in Clients, j \in Jobs, n \in Entries :
    streams[c].pc \notin Ended /\ streams[c].job = j /\ n <= Len(log[j])
      ~> n <= Len(received[c]) \/ streams[c].pc \in Ended \/ j \in dropped

-----------------------------------------------------------------------------
(* A statement of the code's comments that the code does not keep.         *)

\* The artifact token is delivered by the job_completed event of the stream:
\* a stream that the server ends for a completed job has delivered it.
ClosedHasToken ==
  \A c \in Clients : streams[c].pc = "closed" =>
    \A n \in DOMAIN log[streams[c].job] :
      log[streams[c].job][n] = "completed" => n \in ToSet(received[c])
=============================================================================
