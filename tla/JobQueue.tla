------------------------------ MODULE JobQueue ------------------------------
(***************************************************************************)
(* The background job queue of OmniScribe (plugins/jobs.py) over the       *)
(* SQLite state backend (plugins/state_backend_sqlite.py).                 *)
(*                                                                         *)
(* Everything runs on one asyncio event loop.  Every backend operation is  *)
(* "async with self._lock: await to_thread(..)", and asyncio.Lock serves   *)
(* its waiters in arrival order, so the callers are serialised by the      *)
(* queue lockq.  The head of lockq is the operation in the thread; the     *)
(* caller that issued it then runs, without suspending, up to its next     *)
(* backend operation, before the next head can run.  One action therefore  *)
(* is "the operation at the head takes effect and its caller continues":   *)
(* the snapshots the code holds across two operations are what a caller    *)
(* read at one head and uses at a later one.  An event is emitted in that  *)
(* continuation: the harness schedules the listeners at once, in order.    *)
(*                                                                         *)
(* What a write changes besides the status (result, error) goes with that  *)
(* status, so a row is its status; a job runs at most once, so an artifact *)
(* is named by its owner.                                                  *)
(***************************************************************************)
EXTENDS Naturals, Sequences, FiniteSets, Functions

CONSTANTS
  Jobs,        \* job ids that submit may draw (uuid4: never drawn twice)
  NoJob,       \* the worker holds no job; the job of a "clear" operation
  MaxCalls,    \* bound: client operations waiting for the backend at once
  PageSize,    \* jobs per page of the listing that shutdown walks (100)
  MaxClears,   \* bound: DELETE /api/jobs calls in a behaviour
  MaxFaults,   \* bound: backend operations or runners that fail hard
  MaxStops     \* bound: crashes and orderly shutdowns in a behaviour

ASSUME JobQueueAssumption ==
  /\ NoJob \notin Jobs
  /\ IsFiniteSet(Jobs)
  /\ MaxCalls \in Nat
  /\ PageSize \in Nat \ {0}
  /\ MaxClears \in Nat
  /\ MaxFaults \in Nat
  /\ MaxStops \in Nat

VARIABLES
  rows,        \* jobs table: the status of each job's row, or "absent"
  artifacts,   \* jobs whose result blob was put in the artifact store
  created,     \* ids ever submitted, newest first (ORDER BY created_at DESC)
  payloads,    \* queue._payloads: jobs whose payload is still held
  cancelled,   \* queue._cancelled
  fifo,        \* queue._queue, the asyncio.Queue of ids
  lockq,       \* backend operations in arrival order at the backend's lock
  worker,      \* the worker task: where it is, its job, if it has a payload
  server,      \* "up", "stopping", "stopped", "aborted" or "crashed"
  paging,      \* shutdown's walk: the offset and the page's queued rows
  orphan,      \* write still in its thread after the worker was cancelled
  events,      \* per job, the lifecycle events emitted so far
  acked,       \* per job, whether and when a cancel call returned True
  lost,        \* jobs submitted before the last restart
  cleared,     \* jobs submitted before the last clear
  budget       \* what is left of the bounds

database == <<rows, artifacts, created>>
memory   == <<payloads, cancelled, fifo>>
history  == <<events, acked, cleared>>
control  == <<server, paging, orphan, lost>>
vars == <<database, memory, history, control, lockq, worker, budget>>

Terminal == {"complete", "error", "cancelled"}
Statuses == {"queued", "running"} \cup Terminal

\* Mutated form: a status outside the JobStatus literal.
WritesUnknown ==
  [submit_put |-> "queued",  cancel_put |-> "cancelled",
   start_put  |-> "running", final_put  |-> "completed",
   error_put  |-> "error",   marked_put |-> "cancelled"]

\* The status that each upsert_job of the code writes.
Writes == [submit_put |-> "queued",    cancel_put |-> "cancelled",
           start_put  |-> "running",   final_put  |-> "complete",
           error_put  |-> "error",     marked_put |-> "cancelled"]

Kinds == {"queued", "started", "completed", "failed", "cancelled"}

ClientOps == {"submit_put", "cancel_get", "cancel_put", "clear"}
WorkerOps == {"start_get", "start_put", "artifact_put", "final_get",
              "final_put", "error_get", "error_put", "marked_get",
              "marked_put"}

JobOps == WorkerOps \cup (ClientOps \ {"clear"})

Workers == [pc : {"idle", "busy", "running", "dead", "stopped"},
            job : Jobs \cup {NoJob}, payload : {"held", "none"}]

Idle == [pc |-> "idle", job |-> NoJob, payload |-> "none"]
Stopped == [pc |-> "stopped", job |-> NoJob, payload |-> "none"]

-----------------------------------------------------------------------------
(* The backend's lock and the two ways a caller leaves it.                 *)

Op(name, j) == [op |-> name, job |-> j]

Budgets == [clears : Nat, faults : Nat, stops : Nat]

Operations == [op : JobOps, job : Jobs] \cup {Op("clear", NoJob)}

Enqueue(name, j) == lockq' = Append(lockq, Op(name, j))

AtHead(name, j) == lockq # <<>> /\ Head(lockq) = Op(name, j)

\* The caller's continuation needs no further operation of the backend.
Leave == lockq' = Tail(lockq)

\* The caller's continuation asks for another operation, behind the waiters.
Then(name, j) == lockq' = Append(Tail(lockq), Op(name, j))

Write(name, j) == rows' = [rows EXCEPT ![j] = Writes[name]]

Emit(j, kind) == events' = [events EXCEPT ![j] = Append(@, kind)]

Emitted(j) == Range(events[j])

Waiting(ops) == {i \in DOMAIN lockq : lockq[i].op \in ops}

CallAdmitted == server = "up" /\ Cardinality(Waiting(ClientOps)) < MaxCalls

\* The worker has read is_cancelled(j) for the last time.
PastCheck(j) ==
  \E i \in DOMAIN lockq :
    /\ lockq[i].job = j
    /\ lockq[i].op \in {"artifact_put", "final_get", "final_put",
                        "error_get", "error_put"}

-----------------------------------------------------------------------------
Init ==
  /\ rows = [j \in Jobs |-> "absent"]
  /\ artifacts = {} /\ created = <<>>
  /\ payloads = {} /\ cancelled = {} /\ fifo = <<>>
  /\ lockq = <<>>
  /\ worker = Idle
  /\ server = "up"
  /\ paging = [offset |-> 0, todo |-> {}]
  /\ orphan = <<>>
  /\ events = [j \in Jobs |-> <<>>]
  /\ acked = [j \in Jobs |-> "no"]
  /\ lost = {} /\ cleared = {}
  /\ budget = [clears |-> MaxClears, faults |-> MaxFaults, stops |-> MaxStops]

-----------------------------------------------------------------------------
(* Client calls.                                                           *)

\* submit: the record is stamped with time.time() and the upsert is issued.
SubmitCall(j) ==
  /\ CallAdmitted
  /\ j \notin Range(created)
  /\ created' = <<j>> \o created
  /\ Enqueue("submit_put", j)
  /\ UNCHANGED <<rows, artifacts, memory, history, control, worker, budget>>

SubmitServe(j) ==
  /\ AtHead("submit_put", j)
  /\ Write("submit_put", j)
  /\ payloads' = payloads \cup {j}
  /\ fifo' = Append(fifo, j)
  /\ Emit(j, "queued")
  /\ Leave
  /\ UNCHANGED <<artifacts, created, cancelled, acked, cleared, control,
                 worker, budget>>

\* cancel: a client knows the id of a job whose submit has been served.
CancelCall(j) ==
  /\ CallAdmitted
  /\ events[j] # <<>>
  /\ Enqueue("cancel_get", j)
  /\ UNCHANGED <<database, memory, history, control, worker, budget>>

CancelRefused(j) ==
  /\ AtHead("cancel_get", j)
  /\ rows[j] \in Terminal \cup {"absent"}
  /\ Leave
  /\ UNCHANGED <<database, memory, history, control, worker, budget>>

\* Mutated form: the terminal statuses are not refused.
CancelAcceptedUnguarded(j) ==
  /\ AtHead("cancel_get", j)
  /\ rows[j] # "absent"
  /\ cancelled' = cancelled \cup {j}
  /\ acked' = [acked EXCEPT ![j] = "late"]
  /\ IF rows[j] = "running" THEN Leave ELSE Then("cancel_put", j)
  /\ UNCHANGED <<database, payloads, fifo, events, cleared, control, worker,
                 budget>>

\* Mutated form: the mark is set for running jobs only.
CancelAcceptedUnmarked(j) ==
  /\ AtHead("cancel_get", j)
  /\ rows[j] \in {"queued", "running"}
  /\ cancelled' = IF rows[j] = "running" THEN cancelled \cup {j} ELSE cancelled
  /\ acked' = [acked EXCEPT ![j] = "early"]
  /\ IF rows[j] = "queued" THEN Then("cancel_put", j) ELSE Leave
  /\ UNCHANGED <<database, payloads, fifo, events, cleared, control, worker,
                 budget>>

\* The mark is set and cancel will return True; a queued record is then also
\* written back as cancelled.
CancelAccepted(j) ==
  /\ AtHead("cancel_get", j)
  /\ rows[j] \in {"queued", "running"}
  /\ cancelled' = cancelled \cup {j}
  /\ acked' = [acked EXCEPT ![j] =
                 IF @ = "early" \/ ~PastCheck(j) THEN "early" ELSE "late"]
  /\ IF rows[j] = "queued" THEN Then("cancel_put", j) ELSE Leave
  /\ UNCHANGED <<database, payloads, fifo, events, cleared, control, worker,
                 budget>>

CancelWrite(j) ==
  /\ AtHead("cancel_put", j)
  /\ Write("cancel_put", j)
  /\ Emit(j, "cancelled")
  /\ Leave
  /\ UNCHANGED <<artifacts, created, memory, acked, cleared, control, worker,
                 budget>>

ClearCall ==
  /\ CallAdmitted
  /\ budget.clears > 0
  /\ budget' = [budget EXCEPT !.clears = @ - 1]
  /\ Enqueue("clear", NoJob)
  /\ UNCHANGED <<database, memory, history, control, worker>>

\* clear: every row goes, the payloads and the cancel marks are dropped; the
\* ids stay in the asyncio.Queue and a job being processed goes on.
ClearServe ==
  /\ AtHead("clear", NoJob)
  /\ rows' = [j \in Jobs |-> "absent"]
  /\ payloads' = {}
  /\ cancelled' = {}
  /\ cleared' = Range(created)
  /\ Leave
  /\ UNCHANGED <<artifacts, created, fifo, events, acked, control, worker,
                 budget>>

-----------------------------------------------------------------------------
(* The worker: one job at a time, _process_one.                            *)

\* Mutated form: the payload is looked up after it was popped.
WorkerTakePopsTwice ==
  /\ server = "up" /\ worker.pc = "idle" /\ fifo # <<>>
  /\ LET j == Head(fifo) IN
       /\ fifo' = Tail(fifo)
       /\ payloads' = payloads \ {j}
       /\ cancelled' = cancelled \ {j}
       /\ worker' = [pc |-> "busy", job |-> j,
                     payload |-> IF j \in payloads' THEN "held" ELSE "none"]
       /\ Enqueue(IF j \in cancelled THEN "marked_get" ELSE "start_get", j)
  /\ UNCHANGED <<database, history, control, budget>>

\* queue.get, payloads.pop, and the first look at the cancel mark.
WorkerTake ==
  /\ server = "up" /\ worker.pc = "idle" /\ fifo # <<>>
  /\ LET j == Head(fifo) IN
       /\ fifo' = Tail(fifo)
       /\ payloads' = payloads \ {j}
       /\ cancelled' = cancelled \ {j}
       /\ worker' = [pc |-> "busy", job |-> j,
                     payload |-> IF j \in payloads THEN "held" ELSE "none"]
       /\ Enqueue(IF j \in cancelled THEN "marked_get" ELSE "start_get", j)
  /\ UNCHANGED <<database, history, control, budget>>

WorkerLoad(j) ==
  /\ AtHead("start_get", j)
  /\ IF rows[j] = "absent"
       THEN Leave /\ worker' = Idle
       ELSE Then("start_put", j) /\ UNCHANGED worker
  /\ UNCHANGED <<database, memory, history, control, budget>>

\* The record read by WorkerLoad is written back as running.
WorkerStart(j) ==
  /\ AtHead("start_put", j)
  /\ Write("start_put", j)
  /\ Emit(j, "started")
  /\ worker' = [worker EXCEPT !.pc = "running"]
  /\ Leave
  /\ UNCHANGED <<artifacts, created, memory, acked, cleared, control, budget>>

\* The runner is over.  _mark_cancelled begins by forgetting the cancel mark.
AfterRunner(j, next) ==
  /\ worker.pc = "running" /\ worker.job = j
  /\ worker' = [worker EXCEPT !.pc = "busy"]
  /\ cancelled' = IF next = "marked_get" THEN cancelled \ {j} ELSE cancelled
  /\ Enqueue(next, j)
  /\ UNCHANGED <<database, payloads, fifo, history, control, budget>>

\* Mutated form: the job is completed before its result is stored.
RunnerReturnsUnstored(j) ==
  /\ worker.payload = "held"
  /\ AfterRunner(j, IF j \in cancelled THEN "marked_get" ELSE "final_get")

\* Mutated form: no look at the cancel mark once the runner has returned.
RunnerReturnsUnchecked(j) ==
  /\ worker.payload = "held"
  /\ AfterRunner(j, "artifact_put")

\* It returned: a cancel seen now discards the result.
RunnerReturns(j) ==
  /\ worker.payload = "held"
  /\ AfterRunner(j, IF j \in cancelled THEN "marked_get" ELSE "artifact_put")

\* Mutated form: no look at the cancel mark once the runner has raised.
RunnerRaisesUnchecked(j) == AfterRunner(j, "error_get")

\* It raised; a runner called without its payload always does.
RunnerRaises(j) ==
  AfterRunner(j, IF j \in cancelled THEN "marked_get" ELSE "error_get")

\* It raised OCRCancelled: it saw the queue's mark or a cancel sent through
\* its progress channel, which this module does not track.
RunnerCancelled(j) ==
  /\ worker.payload = "held"
  /\ AfterRunner(j, "marked_get")

StoreArtifact(j) ==
  /\ AtHead("artifact_put", j)
  /\ artifacts' = artifacts \cup {j}
  /\ Then("final_get", j)
  /\ UNCHANGED <<rows, created, memory, history, control, worker, budget>>

\* The last writes of a job: the status, its event, and the next job.
EndWith(op, kind, j) ==
  /\ AtHead(op, j)
  /\ Write(op, j)
  /\ Emit(j, kind)
  /\ worker' = Idle
  /\ Leave
  /\ UNCHANGED <<artifacts, created, memory, acked, cleared, control, budget>>

\* The reads before them: a row cleared meanwhile is not written again, but
\* the event is emitted all the same.
ReadToEnd(get, put, kind, j) ==
  /\ AtHead(get, j)
  /\ IF rows[j] = "absent"
       THEN Leave /\ worker' = Idle /\ Emit(j, kind)
       ELSE Then(put, j) /\ UNCHANGED <<worker, events>>
  /\ UNCHANGED <<database, memory, acked, cleared, control, budget>>

FinalRead(j)  == ReadToEnd("final_get", "final_put", "completed", j)
FinalWrite(j) == EndWith("final_put", "completed", j)

\* _set_error
ErrorRead(j)  == ReadToEnd("error_get", "error_put", "failed", j)
ErrorWrite(j) == EndWith("error_put", "failed", j)

\* Mutated form: only a queued row is marked.
MarkReadQueuedOnly(j) ==
  /\ AtHead("marked_get", j)
  /\ IF rows[j] # "queued"
       THEN Leave /\ worker' = Idle
       ELSE Then("marked_put", j) /\ UNCHANGED worker
  /\ UNCHANGED <<database, memory, history, control, budget>>

\* _mark_cancelled leaves absent and terminal rows alone, and is then silent.
MarkRead(j) ==
  /\ AtHead("marked_get", j)
  /\ IF rows[j] \in Terminal \cup {"absent"}
       THEN Leave /\ worker' = Idle
       ELSE Then("marked_put", j) /\ UNCHANGED worker
  /\ UNCHANGED <<database, memory, history, control, budget>>

MarkWrite(j) == EndWith("marked_put", "cancelled", j)

-----------------------------------------------------------------------------
(* Failures.                                                               *)

UseFault ==
  /\ budget.faults > 0
  /\ budget' = [budget EXCEPT !.faults = @ - 1]

\* The backend raises for the operation at the head (disk full, locked
\* database).  A client call becomes an HTTP 500; in the worker the exception
\* escapes _process_one and _run, and no task ever replaces the worker.  (A
\* runner that is not registered does the same once start_get has answered.)
BackendFault ==
  /\ UseFault
  /\ lockq # <<>>
  /\ Leave
  /\ IF Head(lockq).op \in WorkerOps
       THEN worker' = [worker EXCEPT !.pc = "dead"]
       ELSE UNCHANGED worker
  /\ UNCHANGED <<database, memory, history, control>>

\* The runner raises a BaseException that is no Exception: re-raised.
RunnerAborts(j) ==
  /\ UseFault
  /\ worker.pc = "running" /\ worker.job = j /\ j \notin cancelled
  /\ worker' = [worker EXCEPT !.pc = "dead"]
  /\ UNCHANGED <<database, memory, history, control, lockq>>

-----------------------------------------------------------------------------
(* Stopping and starting the process.                                      *)

UseStop ==
  /\ budget.stops > 0
  /\ budget' = [budget EXCEPT !.stops = @ - 1]

ForgetMemory ==
  /\ payloads' = {} /\ cancelled' = {} /\ fifo' = <<>>
  /\ lockq' = <<>>
  /\ worker' = Stopped
  /\ orphan' = <<>>
  /\ paging' = [offset |-> 0, todo |-> {}]

\* The process dies between two operations; the database keeps what is there.
Crash ==
  /\ UseStop
  /\ server \in {"up", "stopping"}
  /\ server' = "crashed"
  /\ ForgetMemory
  /\ UNCHANGED <<database, history, lost>>

\* shutdown, when no request is left: the worker is cancelled where it waits.
\* If it waits for an operation, the thread is not interrupted.
ShutdownBegin ==
  /\ UseStop
  /\ server = "up" /\ worker.pc # "dead" /\ Waiting(ClientOps) = {}
  /\ server' = "stopping"
  /\ worker' = Stopped
  /\ orphan' = lockq
  /\ lockq' = <<>>
  /\ UNCHANGED <<database, memory, history, paging, lost>>

\* Awaiting a worker that died re-raises its exception: shutdown goes no
\* further, and the dispose that called it is abandoned.
ShutdownAborts ==
  /\ UseStop
  /\ server = "up" /\ worker.pc = "dead" /\ Waiting(ClientOps) = {}
  /\ server' = "aborted"
  /\ ForgetMemory
  /\ UNCHANGED <<database, history, lost>>

\* The thread of the cancelled worker's operation completes.
OrphanLands ==
  /\ server = "stopping" /\ orphan # <<>>
  /\ LET o == Head(orphan) IN
       /\ rows' = IF o.op \in DOMAIN Writes
                    THEN [rows EXCEPT ![o.job] = Writes[o.op]] ELSE rows
       /\ artifacts' = IF o.op = "artifact_put"
                         THEN artifacts \cup {o.job} ELSE artifacts
  /\ orphan' = <<>>
  /\ UNCHANGED <<created, memory, history, server, paging, lost, lockq,
                 worker, budget>>

\* The rows that are there, by their place in "created", and how many of them
\* the listing returns before the one at place i.
Listed == {i \in DOMAIN created : rows[created[i]] # "absent"}

Ahead(i) == Cardinality({k \in Listed : k < i})

\* Mutated form: only the first page is ever read.
PageFromFirstOnly(offset) ==
  {i \in Listed : offset = 0 /\ Ahead(i) < PageSize}

\* LIMIT PageSize OFFSET offset
PageFrom(offset) == {i \in Listed : Ahead(i) - offset \in 0 .. PageSize - 1}

\* One list_jobs(limit, offset): the page is exhausted row by row.
ShutdownPage ==
  /\ server = "stopping" /\ paging.todo = {}
  /\ LET page == PageFrom(paging.offset) IN
       /\ page # {}
       /\ paging' = [offset |-> paging.offset + Cardinality(page),
                     todo |-> {j \in Jobs : rows[j] = "queued"
                                 /\ \E i \in page : created[i] = j}]
  /\ UNCHANGED <<database, memory, history, server, orphan, lost, lockq,
                 worker, budget>>

ShutdownMark(j) ==
  /\ server = "stopping" /\ j \in paging.todo
  /\ rows' = [rows EXCEPT ![j] = "cancelled"]
  /\ paging' = [paging EXCEPT !.todo = @ \ {j}]
  /\ UNCHANGED <<artifacts, created, memory, history, server, orphan, lost,
                 lockq, worker, budget>>

\* An empty page: shutdown returns and the process exits.
ShutdownEnd ==
  /\ server = "stopping" /\ paging.todo = {}
  /\ PageFrom(paging.offset) = {}
  /\ server' = "stopped"
  /\ ForgetMemory
  /\ UNCHANGED <<database, history, lost, budget>>

\* A new process on the same database: no row is read back into the queue.
Restart ==
  /\ server \in {"stopped", "aborted", "crashed"}
  /\ server' = "up"
  /\ worker' = Idle
  /\ lost' = Range(created)
  /\ UNCHANGED <<database, memory, history, paging, orphan, lockq, budget>>

-----------------------------------------------------------------------------
ClientCall == (\E j \in Jobs : SubmitCall(j) \/ CancelCall(j)) \/ ClearCall

\* The operation at the head completes and its caller continues.
Serve ==
  \/ \E j \in Jobs :
       \/ SubmitServe(j)
       \/ CancelRefused(j)
       \/ CancelAccepted(j)
       \/ CancelWrite(j)
       \/ WorkerLoad(j)
       \/ WorkerStart(j)
       \/ StoreArtifact(j)
       \/ FinalRead(j)
       \/ FinalWrite(j)
       \/ MarkRead(j)
       \/ MarkWrite(j)
       \/ ErrorRead(j)
       \/ ErrorWrite(j)
  \/ ClearServe

RunnerEnds ==
  \E j \in Jobs : RunnerReturns(j) \/ RunnerRaises(j) \/ RunnerCancelled(j)

Failure == BackendFault \/ \E j \in Jobs : RunnerAborts(j)

StopStart ==
  \/ Crash
  \/ ShutdownBegin
  \/ ShutdownAborts
  \/ OrphanLands
  \/ ShutdownPage
  \/ \E j \in Jobs : ShutdownMark(j)
  \/ ShutdownEnd
  \/ Restart

Next == ClientCall \/ Serve \/ WorkerTake \/ RunnerEnds \/ Failure \/ StopStart

\* The event loop runs every ready task, the backend's threads finish, and a
\* runner ends (its LLM calls have timeouts).  Clients owe nothing.
Fairness == WF_vars(Serve) /\ WF_vars(WorkerTake) /\ WF_vars(RunnerEnds)

Spec == Init /\ [][Next]_vars

FairSpec == Spec /\ Fairness

-----------------------------------------------------------------------------
(* The queue implements the abstract life of a job.                        *)

Lifecycle == INSTANCE JobLifecycle WITH erased <- cleared

\* The events of every job follow one another as JobLifecycle allows: no race
\* of cancel, clear, failures or restarts with the worker announces two
\* results, a result after a cancellation, or anything about a job that was
\* not accepted.
ImplementsLifecycle == Lifecycle!Spec

-----------------------------------------------------------------------------
(* Properties.                                                             *)

\* Types of the variables of the queue and of its ghosts.
TypeOK ==
  /\ rows \in [Jobs -> Statuses \cup {"absent"}]
  /\ artifacts \subseteq Jobs
  /\ created \in Seq(Jobs)
  /\ payloads \subseteq Jobs
  /\ cancelled \subseteq Jobs
  /\ fifo \in Seq(Jobs)
  /\ lockq \in Seq(Operations)
  /\ worker \in Workers
  /\ server \in {"up", "stopping", "stopped", "aborted", "crashed"}
  /\ paging \in [offset : Nat, todo : SUBSET Jobs]
  /\ orphan \in Seq(Operations)
  /\ events \in [Jobs -> Seq(Kinds)]
  /\ acked \in [Jobs -> {"no", "early", "late"}]
  /\ lost \subseteq Jobs
  /\ cleared \subseteq Jobs
  /\ budget \in Budgets

\* A row says "complete" only when the result blob it points to has been
\* stored: the put comes before the upsert, and no crash, clear or late write
\* of a cancelled worker can separate them the other way round.
CompleteHasResult ==
  \A j \in Jobs : rows[j] = "complete" => j \in artifacts

\* While the process is up, a row of one of its jobs that waits is still in
\* the queue or with the worker, and a row that says "running" is the
\* worker's job: no interleaving of calls with the worker strands a job in a
\* state nobody will ever move it out of.
NoStrandedJob ==
  server = "up" =>
    \A j \in Jobs \ lost :
      /\ rows[j] = "queued" => j \in Range(fifo) \/ worker.job = j
      /\ rows[j] = "running" => worker.job = j

\* A cancel that returned True before the worker's last look at the cancel
\* mark wins: the job ends neither complete nor in error.
EarlyCancelWins ==
  \A j \in Jobs \ cleared :
    acked[j] = "early" =>
      /\ rows[j] \notin {"complete", "error"}
      /\ {"completed", "failed"} \cap Emitted(j) = {}

\* The runner is called without its payload only for a job whose payload was
\* dropped by clear.
RunsWithPayload ==
  worker.pc = "running" /\ worker.payload = "none" => worker.job \in cleared

\* After an orderly shutdown no row is left waiting for a worker: the walk of
\* the listing, page by page, misses none.
ShutdownLeavesNoQueued ==
  server = "stopped" => \A j \in Jobs : rows[j] # "queued"

\* A row that says "complete" or "error" is never rewritten by a snapshot read
\* before; only clear removes it.
FinishedRowIsFinal ==
  [][\A j \in Jobs :
       rows[j] \in {"complete", "error"}
         => rows'[j] \in {rows[j], "absent"}]_vars

\* A cancelled row is overwritten only by the worker's start of that job, and
\* the cancel mark is then still set, so that the worker will cancel it again;
\* while the process stops, only by a start left in its thread, which may land
\* after the walk marked the row: never by a result that comes late.
CancelSurvivesStart ==
  [][\A j \in Jobs \ cleared :
       rows[j] = "cancelled" /\ rows'[j] \notin {"cancelled", "absent"}
         => /\ rows'[j] = "running"
            /\ \/ server = "up" /\ worker.job = j /\ j \in cancelled
               \/ /\ server = "stopping" /\ orphan # <<>>
                  /\ Head(orphan) = Op("start_put", j)]_vars

\* Every job that was accepted reaches an outcome, or is cleared.
EveryJobSettles ==
  \A j \in Jobs : rows[j] = "queued" ~> rows[j] \in Terminal \cup {"absent"}

\* A cancel accepted in time leaves the job cancelled for good, unless the job
\* is wiped by a clear, which makes the queue forget the mark.
CancelSettles ==
  \A j \in Jobs : acked[j] = "early" ~> j \in cleared \/ [](rows[j] = "cancelled")

-----------------------------------------------------------------------------
(* A statement of the documentation that the code does not keep.          *)

\* Cancelling an in-flight job is never overwritten by the runner's return.
CancelIsNeverOverwritten ==
  \A j \in Jobs \ cleared : acked[j] # "no" => rows[j] # "complete"
=============================================================================
