# OmniScribe: specifications, model checking and proofs

TLA+ modules for the server of OmniScribe (`src/src/omniscribe`), an OCR
service: a FastAPI application built from plugins, which queues uploaded
documents, recognises their pages with concurrent calls to an LLM endpoint, and
streams the progress of each job to its clients, and for two parts of its
Flutter client (`src/client`). The modules are translated
from the code; paths below are relative to the repository's `src/src/omniscribe`
unless they start with `src/`. `PROJECT.json` maps every definition to the lines
it models and lists the runs, the mutated forms, the hazards and the theorems.

## 1. Inventory

**Job queue** (`plugins/jobs.py`, `InMemoryJobQueue`). State: the ids in an
`asyncio.Queue`, their payloads, the set of cancel marks, the worker task; in
the backend, one `JobRecord` per job. Operations: `submit`, `cancel`, `clear`,
`status`, `list`, `start`, `shutdown`, and the worker's loop `_run` /
`_process_one`. Calls the state backend, the artifact store and the runner, and
emits `JobQueued` .. `JobCancelled`. Hard: every backend operation suspends its
caller, so the worker, cancels, clears and shutdown work on records they read
before; crashes leave rows; a backend error ends the only worker. Correct if the
row never says what did not happen, an acknowledged cancel wins when it came in
time, no job is stranded, and the events tell one consistent story per job.

**Job event streams** (`plugins/ocr/service.py` `record_event`,
`_prune_events_if_needed`, `wait_for_events`; `plugins/ocr/plugin.py`
`process_events`). State: per job a bounded deque, an `asyncio.Event`, a done
flag; per stream, a cursor and a snapshot of the backlog. Fed by the queue's
events and the runner's progress frames. Hard: streams of a job share one Event
and clear it for each other; the deque overflows; jobs are evicted under
streams; a stream is suspended while its client reads. Correct if no stream
skips, repeats or reorders events, and the stream of a finished job ends with
the outcome.

**Circuit breaker and chat retries** (`core/ocr/resilience.py`,
`core/ocr/chat_client.py`). State: a failure counter and the opening time,
shared by all callers of an endpoint; per call, its attempt. Hard: answers of
concurrent calls arrive in any order and after the circuit changed. Correct if
it opens on a run of failures only, an open circuit lets nothing in, and it does
not stay open.

**State backend** (`plugins/state_backend*.py`). Jobs, artifacts with expiry and
one-shot channels, in SQLite behind one `asyncio.Lock` or in memory. Hard:
serialisation of callers, records poorer after a round trip, expiry between
check and use, concurrent consumption of a channel.

**Artifact store** (`plugins/artifacts.py`): blobs with a token and a lifetime.

**OCR service** (`plugins/ocr/`): the runner of the queue's `ocr` jobs,
submissions, configuration, page previews (an LRU cache of 10), result download.

**Progress channels** (`plugins/progress.py`): channels with one-shot session
tokens and an expiry, a registry of attached web sockets, a cap on frames. Hard:
a token presented twice, sockets that break, close late or expire while their
handler waits. Correct if a token admits one socket and the registry holds
served sockets only.

**Runtime cleanup loop** (`plugins/runtime.py`) and **plugin harness**
(`harness/`, `server.py`): services, routers, listeners and effects of plugins,
mounted with rollback, unloaded in reverse order, with the loop running beside
them. Hard: a plugin that fails half-way, reversals that raise, a loop that looks
up a backend which is being closed. Correct if nothing is half-mounted and a
service outlives its users.

**OCR workflows** (`core/workflows/`): the hybrid engine reads pages in
concurrent tasks under a semaphore, dense pages box by box in groups of their
own, then refines, repairs, finalizes and writes. Hard: a cancel, an open circuit
and a shutdown travel as exceptions through two levels of task groups. Correct
if no call outlives its group, no page is lost, and a run that was stopped
writes nothing.

**Block alignment** (`core/aligner.py`): gives the lines read of a page to the
boxes found on it, by a dynamic programme over the reading order. **Page ranges**
(`core/pdf/page_range.py`). Pure; hard at their boundaries.

**Flutter client** (`src/client/`). `WsClient` keeps one web socket and
reconnects with a back-off; `WorkstationNotifier` holds the document on display,
its previews and its run. Hard: everything interleaves at `await`, and answers
come for documents that are gone. Correct if the client gives up in the end, and
if what is shown belongs to the document that is loaded.

**Middleware** (`middleware/`): sliding windows of requests per client, an upload
limit, a token check. Correct if no window holds more than its limit and nobody
is refused without cause.

**Glossary and lexicon** (`plugins/glossary/`, `core/lexicon/`): a table of
glossaries, and a one-shot migration from an older library. Hard: the migration
fails, is killed, or runs beside the server. Correct if no glossary is there
twice and none is moved away unsaved.

**Translation** (`core/translate/`), **transcription**, **recognition and quality
scoring**, **document writers**, **providers, health, logging, documents**: not
modelled, see section 5 and the notes of "components" in `PROJECT.json`.

Interactions: HTTP handlers call the OCR service, which submits to the queue;
the queue's worker calls the service's runner, which runs a workflow; the
workflow calls the endpoint through the breaker and reports progress to a
channel and to the event buffers; the queue's events reach the buffers through
the harness (`Context.emit` schedules the listeners at once, in order, so an
emission and its recording are not separated by other tasks' events of that job).

## 2. Modules

| module | models | used by |
|---|---|---|
| `JobLifecycle` | abstract: which lifecycle event may follow which | `JobQueue` implements it, `JobEvents` is driven by it |
| `JobQueue` | queue, worker, SQLite backend's lock, faults, crash, shutdown, restart | `MCJobQueue`, `JobQueueProofs` |
| `JobEvents` | event buffers and SSE streams | `MCJobEvents`, `JobEventsProofs` |
| `CircuitBreaker` | breaker and `ChatClient.chat` | `MCCircuitBreaker`, `ServiceProofs` |
| `HybridWorkflow` | one run of the hybrid engine, its task groups, refinement and repair | `HybridEngine`, `HybridWorkflowProofs` |
| `PageText` | what that run does to the text of its pages | `HybridWorkflow`, `Alignment` |
| `Alignment` | the aligner's algorithm | `HybridEngine`, `AlignmentProofs` |
| `HybridEngine` | the run with the aligner in its place; implements `HybridWorkflow` | `MCHybridEngine`, `HybridWorkflowProofs` |
| `PageRange` | page selections and their text form | `MCHybridEngine`, `AlignmentProofs` |
| `ProgressSessions` | channels and web socket handler, composed with the client that reconnects | `MCProgressSessions`, `ProgressSessionsProofs` |
| `PluginHarness` | mounting, rollback, unloading, the cleanup loop | `MCPluginHarness`, `PluginHarnessProofs` |
| `Workstation` | the client's workstation | `MCWorkstation`, `WorkstationProofs` |
| `RateLimit` | the rate limiter | `ServiceProofs` |
| `Lexicon` | the lexicon's store and its migration | `ServiceProofs` |
| `*Proofs` | theorems about the module of that name; `JobQueueProofs` also about `JobLifecycle`, `AlignmentProofs` about `PageRange`, `HybridWorkflowProofs` about `HybridEngine`, `ServiceProofs` about `CircuitBreaker`, `RateLimit` and `Lexicon` | |
| `MC*` | values and symmetry for TLC | |

### JobQueue

`rows` is the jobs table (a row is its status, since result and error are
written with it), `artifacts` the stored results, `payloads`, `cancelled` and
`fifo` the queue's fields. The backend runs each operation in a thread under an
`asyncio.Lock`, which serves waiters in order; `lockq` is that line of waiters.
An action ending in `Serve` is one operation taking effect together with what
its caller does next without suspending: a read at one head of `lockq` and a
write at a later one are therefore different steps, and everything else may
happen in between. `worker.pc` tells whether the worker waits for a job, for the
backend (`busy`) or for the runner (`running`), or has ended. The runner is
three nondeterministic ends: it returns, raises, or raises `OCRCancelled`;
`worker.payload = "none"` is a runner called with no payload, which can only
raise. `events`, `acked` and `cleared` are history. Backend errors
(`BackendFault`), runners that raise a bare `BaseException` (`RunnerAborts`) and
runners that are not registered end the worker's task for good, as in the code.
An orderly shutdown cancels the worker; an operation of it that is already in
its thread lands later (`orphan`, `OrphanLands`), possibly in the middle of the
walk that marks queued rows. A crash may come between any two steps. `Restart`
reads nothing back. Shutdown is taken when no request is waiting, which is when
the ASGI server runs the lifespan's end; faults of shutdown's own reads and
writes are not modelled.

### JobLifecycle

The promise to listeners: `queued` first and only once; `started` at most once
(possibly after a `cancelled`); at most one result, after `started`; no result
beside a `cancelled` unless the job was wiped by `DELETE /api/jobs`, which makes
the queue forget the cancel mark; nothing after a result. `OneOutcome` is what
that adds up to, and is proved from it.

### JobEvents

An entry of a buffer is its index in the job's log, so that the properties tell
gaps, repetitions and order. `Record` is `record_event` with its pruning, which
never suspends. A stream suspends at each `yield` and while it waits;
`NextStop` is the code between two suspensions: it finishes the snapshot, looks
at `is_done`, takes a set Event (and clears it for all), or waits. `Wake`,
`KeepAlive` and `Disconnect` end a suspension. `asyncio.wait_for` is modelled
as in Python 3.12 and later (the image uses 3.14): the awaited coroutine runs
in the same task, so an Event that is set is taken without a suspension. A
stream that holds an Event which an eviction popped (`event = "popped"`) is
only ended by its keep-alive. The jobs' events are any that `JobLifecycle`
allows; progress frames come between `started` and the result.

### CircuitBreaker

The breaker's methods do not suspend, so each is part of the action of its
caller. `age` is the time since opening in ticks, counted up to the cooldown.
An error is transient (retried after a back-off) or not; both count. A
cancelled call tells the breaker nothing. Every attempt, first or retry, asks
the breaker. The registry's sharing is the fact that there is one breaker.

### HybridWorkflow, PageText

`phase` is the stage of `HybridEngine.execute`. `task[t]` is the state of task
`<<page, box>>` of the group being run (box 0 is the page itself): waiting for a
permit, calling, ended in one way or another, or raised and not yet noticed,
since a done callback of an `asyncio.TaskGroup` runs one loop step after the task
ends and only then cancels the others and the body. `body` is the coroutine in
the group's `async with`, which takes results in order of completion and polls
the cancel mark after each. Whether a dense page holds a permit while it waits for
its boxes is modelled as in the code (it does not), which `RunEnds` depends on.
Repair is the loop of `repair.py`: best reading, count below target, stall. A
page is a sequence of blocks, a block a box and a text, a text a sequence of
words; `PageText` has the operators that change them (duplicates within `Radius`,
sentences merged over page breaks, the confidence proxy). An image that cannot be
decoded fails the run where the images are needed: in preparation, before the
refine tasks, and before each page that repair comes to, which leaves out only that
an image may be cached. `heard`, `erred` are
history. What the aligner makes of a page is any element of `Alignments` in
`PageText`; `HybridEngine` puts the real algorithm in its place.

### HybridEngine

`HybridWorkflow` with one action replaced: `ReadAligned` gives the lines of a page
to its boxes by `AlignText`, where `ReadPage` takes any of `Alignments`. `Boxes` are
areas of the page here, and readings have no empty lines (`EngineAssumption`:
`_normalize_lines` drops them). `EngineSpec` implements `Spec`, the abstract run, over
the same variables; that needs `UnreadUntilReturned`, since `align_text` keeps its
contract for boxes without texts only.

### Alignment, PageRange

`align_text` in full: reading order by recursive search for the widest gap, costs,
the dynamic programme over three moves as a recursive function, the replay that
attaches skipped lines, and the fallback to one full-page block. Costs are in
thousandths, rounded down. `MeetsContract`, `CostIsLeast` and `ColumnsFollowed`
compare it with definitions that do not look at how it is computed: every line
once, the least cost over all alignments without crossings, columns in order.
The last says when a page has columns (`InColumns`: two boxes are a column gap apart
when their columns differ and only then, with two or more boxes in each), in which order they are to be read (`DownColumns`) and when a reading fits an order
(`Fits`): a reading that fits the columns, and does not fit the rows, is put there.
`PageRange` parses, selects and serialises; that the three fit together is
`SelectionSurvives`, which TLC evaluates on selections of six pages (the assumption
`RoundTrip` of the MC module) and which is proved for all.

### ProgressSessions

`record`, `sent`, `connections` are the server's channels and registry,
`handler[s]` where the handler of socket `s` is suspended, `up[s]` the frames on
their way to it. `current`, `state`, `manual`, `timer`, `attempts`, `session` are
fields of `WsClient`, and `shaking`, `heeded` the sockets whose handshake is
awaited and whose streams it still listens to. A socket may break at any time, and
either side may notice or not. Socket numbers are used again when nothing refers
to them. `admitted` is history.

### PluginHarness

`phase` follows `Loader.load`, the lifespan and `Context.dispose`; `order` and
`refs` are the mounted plugins and what each registered, `live` the registrations
in force, `todo` those still to be reversed, `awaited`/`cleaned` the effects being
run and done, `loop` the cleanup task. Every reversal and every effect may be where
the loop gets its turn or an exception strikes; `apply()` may raise or be cancelled at
any of its steps, also behind the last. The worker that `jobs.apply` starts before it
registers anything, and that a refused registration would leave running, is not
modelled. The trees are `cordis.yml` and
patches of it, one with a plugin of the repository's tests.

### Workstation

Each command of the user that is not finished is a task with a program counter at
the await it waits at. `bytes` is what is on display as a pair of the document and
what was made of it, so that a preview rendered from other bytes is seen;
`generation`, `cached` are the notifier's and the server's guards against that.
`busy`, `job`, `listeners`, `sockets` are shared by all tasks. `hasty` is history:
the user began a run, load or clear while another was going on, or cancelled a run
that was still opening its session.

### RateLimit

`records` are the queues of times per client, `log` (history) all times a client
was let through, `answer` what was said at this instant. A check is one action,
with the dropping of idle clients above `MAX_TRACKED_IPS` and the eviction from
the queue. Time is a counter of ticks; equal times are allowed.

### Lexicon

`table` maps an id to what its rows say of a glossary; `library`, `chroma`, `kept`,
`lance` are the files; `store` whether the server holds the table; `migration` the
other process, with what it has yet to save. `Toggle` has the fallback that adds
rows before it deletes. A migration may be abandoned at any step.

## 3. Runs

| run | instance | shows |
|---|---|---|
| `job_queue_safety` | 2 jobs, 2 waiting calls, pages of 1, one clear, one fault, one stop | `CompleteHasResult`, `NoStrandedJob`, `EarlyCancelWins`, `RunsWithPayload`, `ShutdownLeavesNoQueued`, `FinishedRowIsFinal`, `CancelSurvivesStart`, and that `JobQueue` implements `JobLifecycle` |
| `job_queue_live` | 2 jobs, one clear, no failures | every job settles; a cancel accepted in time is final |
| `job_queue_late_cancel` | 2 jobs, no failures | **violated** `CancelIsNeverOverwritten` |
| `job_events_shared` | 1 job, 2 streams, a buffer of 4 | nothing is skipped, a replay is complete, no lost wake-up, streams of finished jobs end, every event arrives |
| `job_events_evict` | 2 jobs, 1 stream, a buffer of 3, room for 1 job, one wipe | bookkeeping bounded and consistent; order kept over overflow and eviction; streams of finished jobs end although their Event was evicted |
| `job_events_token` | as `job_events_shared` | **violated** `ClosedHasToken` |
| `circuit_breaker` | 3 callers, threshold 2, cooldown 2, 2 retries | open exactly after a run of failures, admits nothing while open, does not stay open, calls end |
| `circuit_breaker_probe` | as above | **violated** `SingleProbe` |
| `hybrid_engine` | 2 pages of up to 2 boxes, 2 permits, 4 settings, 2 repairs; the aligner on 17 pages and 31 readings | the engine with its aligner runs as `HybridWorkflow` lets it; calls are structured, pages and repairs accounted for, stops honoured, every run ends; what is aligned has not been read into, the aligner keeps lines, costs least, follows columns; page ranges survive a round trip |
| `progress_sessions` | 2 sessions, 3 sockets at a time, 1 reconnection | one listener per session; the client gives up |
| `plugin_harness` | 6 trees of up to 6 plugins | services outlive users, nothing half-mounted |
| `workstation` | 2 documents, 3 commands at once, or 2 with pages and previews | no stale preview, no unaccountable busy display, a patient user sees one document |

Bounds. `MaxCalls` (2) is how many client operations wait at the backend at
once: with the worker's this is three contenders, enough for a cancel to come
between a read and a write of the worker and a clear between those; the number
of calls in a behaviour is not bounded. Two jobs, because the worker handles one
while the other waits, and `PageSize` 1 then makes shutdown's walk three pages
long. `MaxClears`, `MaxFaults`, `MaxStops` are 1: each is an event that can come
anywhere in a behaviour, and a second one meets a state the first one already
produces. `BufCap` and `MaxBuffered` are the code's 500 made small enough to be
exceeded; in `job_events_shared` the cap admits a whole job, so that what is
claimed there is not excused by overflow. `MaxFrames`, `MaxCancels` bound a job's
log. `FailCap` is where the failure counter sticks; beyond the threshold its
value makes no difference to the code. `CHECK_DEADLOCK FALSE` appears where ids
and bounds run out, that is where nothing is left to do; `job_queue_live`,
without stops, ends in states where a finished job can still be cancelled, and
keeps the deadlock check.

In `hybrid_engine` one page has two boxes or none and the other one, so that in
each mode a dense page, a plain page and a full-page block meet; two permits and
three possible calls make tasks wait; a threshold of one box makes the first page
dense. One crop reading is below the target, one has words repeated, one ends a
sentence. One reading is a line of two words, which is a block of its own on a page
without boxes and the duplicate of a crop on another. `HybridWorkflow` has no run of its
own: its properties are checked of the engine, a special case of it, and hold of it
by the theorems. The aligner's pages are all selections of four boxes in two columns and
one page of five, with readings of up to four lines of two lengths: more lines
than boxes, fewer, none, and each tie between the moves occurs.
In `progress_sessions` three sockets are one in use, one being closed and one in
its handshake; one reconnection and one frame under the cap suffice to pass both
limits. `plugin_harness` has no bound but its trees; the six are the shipped tree
and the ways a patch can break it that `harness/` handles. In `workstation` three
commands are a run, what overtakes it, and a cancel; a document of two pages has a
page that is on display and one that is preloaded; the two instances divide these
because together they do not fit in the time of a run. The theorems
say that more commands, pages or documents would show nothing else. A preview that comes for the
document before last meets the same guards as one for the last, so two documents
are enough. These runs stop where sessions, documents or the run itself are used
up, hence their `CHECK_DEADLOCK FALSE`; `progress_sessions` never stops and keeps
the check.

Types that a theorem proves (`JobQueue`, `JobEvents`, `CircuitBreaker`,
`HybridWorkflow`, `PluginHarness`, `Workstation`) are not invariants of these runs.

Fairness. `HybridEngine`: weak fairness of the run's own steps, one condition for
all: the event loop goes on and model calls time out; neither a cancel nor a
shutdown need come. `ProgressSessions`: the server's handler of each socket is a
task, handshakes end, timers fire, a stream that is over is reported; the user, the
network and expiry owe nothing. `PluginHarness`, `Workstation`: safety only.
`JobQueue`: the event loop runs ready tasks, the backend's threads
finish, the runner ends because its calls have timeouts; clients owe nothing.
`JobEvents`: each generator is a task of its own, the client takes what it is
sent or goes away, and the keep-alive's timer fires; jobs owe nothing.
`CircuitBreaker`: the clock runs, attempts have timeouts, back-offs end; nobody
has to make a call. Symmetry is used only where no liveness is checked.

Every property has a mutated form of one definition of the code (written beside
it, with the comment "Mutated form") under which TLC finds it violated.

### Findings

* A cancel that arrives after the worker's last look at the cancel mark returns
  True and is overwritten by the completion (`plugins/jobs.py` 375-394); the
  architecture document says it is not (`src/docs/ARCHITECTURE.md` 263-265).
  `EarlyCancelWins` and `CancelSettles` state the part that does hold.
* A stream that is sending an older entry when its job completes ends without
  `job_completed`, the only carrier of the artifact token (`plugins/jobs.py`
  58-60, `plugins/ocr/plugin.py` 311). `ReplayIsComplete` states what holds.
* A half-open circuit admits every concurrent call, not one probe
  (`core/ocr/resilience.py` 34-35 and 273). `OpenDrains` states what holds.

Also noted, with no run of their own: `max_buffered_jobs` is documented to
refuse uploads, and evicts buffers; a stream whose cursor is at the cap of a
full deque gets nothing more; a stream opened for a job that ended before a
restart is kept alive for ever. A worker that a backend error has ended makes
`shutdown` raise that error where it awaits the task (`plugins/jobs.py` 262, only
`CancelledError` is suppressed), so that the walk behind it marks nothing: jobs that
waited stay queued, while its comment (264) says that pending work is marked
cancelled and a test (`src/tests/plugins/test_jobs_plugin.py` 233-234) that all
queued jobs are. `ShutdownAborts` is that end; `ShutdownLeavesNoQueued` speaks of a
shutdown that comes to its own.

Met while modelling the parts added since, again without a run of their own:

* Engine. `align_text` says that it always returns one tuple per input box
  (`core/aligner.py` 284); it returns one over the whole page when there are no boxes
  (296), and instead of the boxes when nothing matched or one line was read for five
  boxes or more (361). `AlignerKeepsLines` states what holds. When a group collects an `OCRCancelled` and a `CircuitOpenError`, both `except*` clauses
  raise and a `BaseExceptionGroup` leaves `ocr_pages`, which `plugins/jobs.py`
  (286-288) does not expect. A shutdown that interrupts a group in which a
  `CircuitOpenError` is on its way is swallowed by it.
* Progress. After a token is spent the client reconnects for as long as the server
  accepts and then refuses it, since an open socket resets the attempts that
  `maxReconnectAttempts` limits: `GivesUp` states what is left.
  `disconnect()` during `await channel.ready` is overridden by the handshake's
  end, and `connect()` leaves a reconnection that was scheduled. After the frame
  cap even the last frame is dropped.
* Harness. A cleanup loop that died of an exception makes `_stop_loop` raise it,
  which ends `dispose()` before the other plugins are unloaded.
* Workstation. `WsClient.stream` ends only in `dispose()`, so `_handleWsClosed`
  never runs and the end of an asynchronous job is not noticed (its comment, line
  881, says that it handles an unexpected closure). A synchronous result that comes
  late overwrites the document loaded since. A cancel while the session is opened or
  the submission awaited is overridden; one that overlaps the opening may leave the
  run's socket and listener connected, out of reach (section 4). The late answer of an older run ends the busy display of
  the newer one, and its cleanup disconnects the newer one's socket. Previews
  fetched from a job, and boxes of its frames, are put on whatever is loaded.
* Rate limiter. `MAX_TRACKED_IPS` does not bound the memory (its comment says so):
  only clients that are idle are dropped.
* Lexicon. The toggle's fallback adds all rows of the table once more and then
  deletes all of the toggled glossary: the others are doubled and that one is lost,
  while the comment says that no rows are lost. `save_glossary` gives a new id and
  enables what was disabled, so that "Save under the original glossary id" in the
  migration is not so. A migration that failed is refused when it is run again
  (`NoSecondChance`), while the hook's docstring says to do so; the hook is called
  from nowhere. A library that cannot be read counts as empty and is moved away.

## 4. Proofs

All theorems hold for every value of the constants under the modules' named
assumptions (`JobQueueAssumption`: ids are finitely many and `NoJob` is none of
them, a page is not empty; `CircuitBreakerAssumption`: the threshold is
positive and the counter's cap is beyond it).

* `JobQueueProofs!TypeCorrect`, `Spec => []TypeOK`. Lemmas say what entering and
  leaving the backend's line, emitting an event and forgetting the memory
  preserve; then one step per action.
* `JobQueueProofs!ResultStored`, `Spec => []CompleteHasResult`.
  `CompleteHasResult` is not inductive: `FinalWrite` writes `complete` without a
  look at the artifact store. `ResultInv` adds that the job of every operation
  `final_get` or `final_put` that waits at the backend, or is left in a thread by
  a cancelled worker, has its artifact stored (`StoredFirst`). The operation gets
  there only through `StoreArtifact`, and no step removes an artifact or puts an
  operation in any other way.
* `JobQueueProofs!NoneStranded`, `Spec => []NoStrandedJob`. `NoStrandedJob` is
  not inductive: the worker writes rows without asking whose they are. `StrandInv`
  adds that the worker has at most one operation waiting, that it is for the
  worker's job, and that it has one only while it is busy (`OneWorkerOp`); so a
  row that becomes `running` is the worker's, and one that leaves the worker has
  an outcome. The restart needs `OnlyKnown`, `Spec => []KnownInv`: no operation,
  row or event exists for an id that was not submitted, so the jobs that a new
  process does not answer for are all there are.
* `JobQueueProofs!LifecycleType`, `LifecycleOutcome`: the guards of the
  abstract specification imply `OneOutcome`, by appending one event at a time.
* `JobQueueProofs!QueueRefines`, `Spec => ImplementsLifecycle`. Each step of the
  queue is a step of `JobLifecycle` or leaves its variables alone; for the steps
  that emit an event the guard of the abstract step has to be found in the
  concrete state, where no such guard is tested. Four invariants supply it.
  `OnceInv`: a job is in one place at most (the queue, the worker, one operation of
  its submission), and what is anywhere but in its submission has been announced;
  so `queued` comes first and once, and nothing starts twice. `LifeInv`: what waits
  may still start, what an operation is about to report may still be reported, and
  the row agrees with the events (`Fit`, by the kind of the operation); a cancel that
  waits to write is served before the end of its job, because the lock serves in
  order (`CancelFirst`). `MarkInv`:
  a job that is being cancelled carries its mark wherever the worker will still
  look at it, so a result beside a cancellation needs a clear in between.
  `CreatedInv`: an id is submitted once and only what was submitted is wiped.
  `QueueOutcome`: hence `OneOutcome` of the queue's own events.
* `JobQueueProofs!EarlyCancels` (`EarlyCancelWins`), `CancelOutlivesStart`
  (`CancelSurvivesStart`), `FinishedStays` (`FinishedRowIsFinal`), from the same
  invariants: the only operation that can hold an old snapshot of a cancelled row is
  the start that was on its way, and none can of a finished one. When the worker is
  cancelled at shutdown that start may be left in its thread; `MarkInv` therefore
  says of a job that is being cancelled that no later write of its is left there.
* `JobQueueProofs!PayloadAtRunner` (`RunsWithPayload`). `PayInv`: what waits has its
  payload, and the worker took it with the job, unless the job was wiped; this
  needs that each job waits once, `OnceInv`.
* `JobQueueProofs!ShutdownSweeps` (`ShutdownLeavesNoQueued`). The walk reads pages at
  an offset of a listing that is sorted by creation, and rows may appear in it
  meanwhile. `WalkInv` counts: a row that still waits is on the page being marked,
  or has at least `offset` listed rows ahead of it (`Ahead`), so that when a page
  comes back empty there is none. The lemmas say how `Ahead` and `PageFrom` change
  when a row is marked, and when one lands.
* `JobEventsProofs!EventsType`, `BuffersBounded`. The types need that a sending
  generator has something to send (`TypeInv`); the bounds hold for any caps.
* `JobEventsProofs!StreamsInOrder`, `Spec => []ReceivedInOrder`. `OrderInv` says
  what a stream has still to send: the entries beyond its cursor, in its snapshot
  and in the job's buffer, are newer than those it sent, and position by position
  the buffer is no older than the snapshot (`Later`). Overflow and eviction only
  move newer entries to a position, which is why a cursor into a buffer that was
  cut or begun again may skip but never repeats.
* `JobEventsProofs!NoEventSkipped` (`NothingSkipped`), `ClosedStreamsAreComplete`
  (`ReplayIsComplete`), `SoleStreamSleepsWell` (`SoleStreamIsCurrent`), for any caps
  and any number of streams. `DeliveryInv` has three parts: while a job has
  overflowed nothing its buffer is its log (`GapFree`); a stream's cursor is the
  number of entries it sent, which are the beginning of that log, and a stream that
  ends has sent the snapshot it took (`CursorInv`); a stream alone on its job waits
  only at the end of the buffer, and while it sends a snapshot the buffer has
  outgrown, the Event is set (`WakeInv`).
* `ServiceProofs!BreakerType`, `BreakerAgrees` (`CounterAgrees`: the counter and the
  opening time agree; inductive with the types), `BreakerDrains` (`OpenDrains`, an action property: only
  `Begin` and `Retry` make a caller call, and both refuse when open).
* `ServiceProofs!BreakerOpensOnFailures` (`OpensOnRunOfFailures`). The
  property speaks of the last outcomes, which no variable of the code holds.
  `RunInv` ties them to the counter: at each distance from the end that is below
  the counter, up to the threshold, lies a failure; and a run of failures at the end
  has brought the counter as far as it is long. With `CounterAgrees` these are the two
  directions of the property.
* `HybridWorkflowProofs!CallsAreStructured`, `Spec => []StructuredCalls`.
  `GroupInv` adds to the types that a box of a page is only being read while the
  page's task waits for it (`BoxesInside`), that outside the groups no task is left
  (`Settled`), and that the calls are a finite set within the permits
  (`CallsBounded`). Without `BoxesInside` the step that leaves the outer group,
  which looks at the pages only, could leave a box calling.
* `HybridWorkflowProofs!StopsAreHonoured`, `Spec => StopIsHonoured`. `StopInv` ties
  an interruption to a group that is being left or a run that has ended otherwise;
  `Stopping`, a stop that came in time and has not been missed, is then kept by
  every step and excludes `done`. `HybridType`: the types.
* `HybridWorkflowProofs!FailuresAreNamed`: a run that ends as done has in
  `last_failed_pages` each page whose reading failed, once (the first half of
  `PagesAccounted`). By `FailInv`: during the reading the pages that failed are the
  tasks that ended so and were collected, and the list has no repetition.
* `HybridWorkflowProofs!PagesAreAccounted`, `Spec => []PagesAccounted`: also the
  second half, that no line is lost. `LinesInv` says where a line is: in the result
  of its page until that is stored, then in a box whose text the refine stage will
  not replace, and after the merge in its page or a later one. `DocInv`: the types
  of pages, texts and readings. The operators on texts are recursive (`FlattenSeq`,
  `CrossPageMerge`), and the library's induction theorems cannot be instantiated by
  the provers, so the module proves what it needs from `WFMin`: a set of numbers has
  a least element, hence counting through an interval (`Counting`) and the existence
  of functions defined by recursion on one (`Recursion`). `Flattened` and
  `CrossPageMergeKeeps` are the two inductions.
* `HybridWorkflowProofs!RepairCountIsRight` (`RepairAccounts`). `RepairInv` says that
  the loop's count is that of the doubtful blocks it has left behind, and that the
  block at hand is doubtful; `CountStep` is the step from a block to the next
  doubtful one, in the order of pages and blocks. `ShapeInv`: up to the merge
  the document is a page of blocks for each page.
* `AlignmentProofs`, for any page of boxes and any reading, under
  `AlignmentAssumption` (coordinates are hundredths of the page, words have a length,
  lines are not empty). `EveryBoxIsTaken`: both orders that `align_text` tries are
  permutations of the boxes; sorting because each has a rank of its own (the
  number of those before it), the split into columns because its parts cover what is
  split and are shorter. `AlignerIsFaithful`: the result is one of `Alignments`, or
  the page as it was when nothing was read. `Placing` says what the replay of a path
  has done to the lines so far, and holds along every path in the table.
  `ColumnsAreInOrder`: of a page of columns, however many (`InColumns`), the reading
  order is the one order down the columns there is (`DownColumns`). Where two boxes
  are in different columns the widest gap is one between columns, so the split leaves
  whole columns on both sides (`SplitBetweenColumns`, `Paired`), two boxes at least,
  and a single column is never split; `ReadingIsDown` goes down the recursion.
  `AlignmentIsOptimal`: the table's cost is that of some matching without crossings
  (`Reached`) and of none below (`NoneBelow`), cell by cell; a matching of some lines
  and boxes is one of fewer, and the last line unmatched, the last box unmatched, or
  the two matched with each other, and sums may be taken in any order
  (`SumOfOneMore`). `ColumnsAreFollowed` (`ColumnsFollowed`): an alignment costs nothing
  exactly when each line fits the box at its place, and then matches them one to one
  (`FreePath`, along the table), so that the columns win against the rows and each box
  down the columns has one line. Everything recursive in the model is a function defined by a step
  that looks at smaller arguments: `Recursive` shows that there is one and `FixedAgree`
  that it is the only one, `Downwards` proves a property of all its values, both from
  `LeastElement`. The model is
  written for these proofs where that also made it shorter: sorting by rank,
  matchings as increasing functions, sums over functions.
* `AlignmentProofs!SelectionsSurvive` (`SelectionSurvives`), for any selection of
  positive pages and any length of the document, under `PageRangeAssumption` (a token
  that does not parse is no pair of numbers). Every run ends and every page is in a
  run that begins, by a least element each; the runs have their places by the number
  of runs before (`UnderFacts`, `UnderIsTaken`). The proof found an expression that
  the tools read differently (a `UNION` next to an intersection), now written apart.
* `HybridWorkflowProofs!EngineRunsAsAllowed`, `EngineSpec => Spec`: the refinement of
  the abstract run by the engine with its aligner. `PagesStayUnread`
  (`UnreadUntilReturned`) is the invariant: what `ReadAligned` gives to `align_text`
  is a page as detected; `AlignerIsFaithful` then makes the step one of `ReadPage`.
  All theorems about `Spec` hold of the engine; `EngineKeepsPromises` spells out those
  that the run `hybrid_engine` checks. `AlignerServesEngine` (`AlignerKeepsLines`),
  `EngineAlignsCheaply` (`AlignmentIsCheapest`) and `EngineReadsColumns`
  (`ColumnsAreRead`) apply the theorems of `AlignmentProofs` to the instance's pages.
* `ProgressSessionsProofs!SessionsType`, `OneListener`, `Spec =>
  []OneListenerPerSession`. `SessionInv` adds what ties tokens to sockets: a
  token that is not spent has admitted nobody, a socket in use has its channel, and
  one in its handshake is not served yet.
* `PluginHarnessProofs!HarnessType`, `NoHalfMounts` (`NothingHalfMounted`),
  `ServicesOutlive` (`ServicesOutliveUsers`), for any plugins and trees. `OrderInv`:
  the mounted plugins are the first rows of the tree, as many as the stage says.
  `RegInv`: which registrations are in force, by stage; what the harness remembers of
  each plugin, in order; and that a reversal has come down to one step of `apply()`
  with all below it still to be reversed. `CleanInv`: cleanups run for the plugin
  being reversed and for those that are gone; of a disposal that a cleanup ended, such
  as that of the dead cleanup loop, it says the same. `ProvideInv`: what a plugin injected
  was registered before it, by itself or by a plugin mounted earlier. The last needs
  the harness's `list.remove`, which takes the first entry that is equal, to take the
  last one, as the lemma `RemoveLast` says it does where each is once. In trying to prove
  `ServicesOutliveUsers` for all plugins it turned out too strong in its first form:
  a plugin may inject a service of its own, which is reversed before an earlier
  effect of the plugin is cleaned up. The property now makes an exception of a plugin
  that is its own provider; the six trees have none.
* `WorkstationProofs!WorkstationType`, from `RunInv`: only runs open,
  connect and answer, only runs own sockets, and a run is of a document, so that a
  frame's box is of one too.
* `WorkstationProofs!PreviewsAreCurrent`, `Spec => RendersTheLoadedBytes`. `FetchInv`:
  what is cached, on its way or asked for by the preloader is of the bytes that are
  loaded, jobs' previews excepted; each step that replaces the bytes either outdates
  them all in the same turn or empties the display.
* `WorkstationProofs!BusyHasAReason` (`BusyIsAccountable`). `BusyInv` names the runs
  that will end the processing: synchronous ones up to their answer, asynchronous
  ones until they are over or have a job. A run that is being cleaned up after its
  answer does not count, although the property would let it.
* `WorkstationProofs!PatientUsers` (`PatientUserSeesOneDocument`). `PatientInv`: there
  is at most one listener, the one held, and one socket, the current one (`Wired`); a
  run opens alone and finds nothing connected, what cleans up has no listener left,
  and nothing but cancels overlaps a clear (`Apart`). The first statement of the
  property let cancels come at any time, and the invariant then failed to be
  inductive for a good reason: of two cancels that overlap the opening of a run one
  clears `_lastChannelId`, the other forgets the subscription that the run has just
  made; listener and socket are never closed, and once the next document is loaded a
  frame of the first one's job puts boxes on it. TLC confirms it with four commands,
  one more than the run has. The property now says what holds: the user cancels no
  run that is still opening its session.
* `ServiceProofs!NeverTooMany` (`WithinLimit`), `NeverTooFew` (`RefusalsAreDue`),
  `RateLimitType`, under `Limits` (limit and window positive). Neither property
  speaks of the queues, so neither is inductive. The invariant says that each record
  is the end of its client's history, times in order, and that all before it is out
  of the window, also when the record was dropped.
* `ServiceProofs!NoDuplicates` (`MigratedOnce`), under `NamesDiffer`. The invariant
  adds that a table without its directory is empty, that what is yet to be saved
  is in no row, and that who writes has a directory; `Begin` needs the first,
  `SaveNext` the second. `MovedAfterSave` (`MovedWhenSaved`) follows from it;
  `NoSecondChance` (`StuckForEver`) needs no invariant.

`RateLimit` and `Lexicon` are in no run: their properties are proved outright, and
small instances were model-checked while they were written.

Model-checked only: liveness, which the prover does not handle under fairness.
Every other property of a passing run is a theorem. An earlier form of
`ColumnsAreRead` did not say when a page has columns; it held of the pages of the
instance and not of all, for boxes of a column that are spread as wide as the gap
between the columns are split elsewhere. `InColumns` is the condition under which it
is proved, for any number of columns of any length; TLC evaluates it on two.

## 5. What is left

Proofs: pages whose columns overlap or have a single box, where the split is proved to
keep every box (`EveryBoxIsTaken`) and nothing is said about the order.

Compositions: `HybridWorkflow` under `JobQueue` (the group that leaves a run, and
what the worker makes of it), with `CircuitBreaker` in place of the choice of an
open circuit.

Not modelled, and why:

* State backend: rows are statuses, so what a record loses on its way through
  SQLite and artifacts that expire before their download are listed as hazards
  without a property. The memory backend, which never suspends, is not modelled.
* OCR service: the mapping of submissions, previews, configuration, downloads, and
  the files of uploads, which jobs that never run leave behind.
* OCR workflows: the grounded engine, which reads pages in sequence; spellcheck,
  trust scores and routing, which are metadata or off.
* Translation: sequential batches of calls whose content decides what is right.
  Transcription: calls to speech engines.
* Recognition and quality scoring work on real numbers; detection is another
  project's network; the block tree and the document processors rewrite layout.
* Writers and embedders are rendering through libraries; providers, health, logging
  and documents keep no state. Upload limit and authentication keep none beyond
  a request.
* Lexicon: queries, embeddings and import formats; two migrations at once.
* Client: the widgets and the other providers.
* The classification of endpoint errors is a choice in `CircuitBreaker`.
