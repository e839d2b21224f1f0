----------------------------- MODULE Workstation ----------------------------
(***************************************************************************)
(* The state of the client's workstation: WorkstationNotifier in           *)
(* client/lib/data/providers/workstation_notifier.dart.                    *)
(*                                                                         *)
(* Each command of the user that waits for something is a task; tasks      *)
(* interleave at every await and share the state on display and a few      *)
(* private fields.  A session, its channel, its socket, its listener and   *)
(* its job bear the number of the task that opened them.  The bytes of a   *)
(* document are a pair of the document and what was made of it: its        *)
(* source, or the result of a synchronous run.                             *)
(*                                                                         *)
(* Left out: viewport, selection and filters, progress and statistics,     *)
(* documents named by a path alone, images, a file dialog left open while  *)
(* a late result arrives, reconnections (module ProgressSessions), and     *)
(* _handleWsClosed: it is called when the stream of WsClient ends, and     *)
(* only dispose() ends it.                                                 *)
(***************************************************************************)
EXTENDS Integers, FiniteSets

CONSTANTS
  Limits,      \* bounds, as triples: the commands that wait, the pages of a
               \* document, and the previews on their way when a page is
               \* selected (0 leaves previews out)
  MaxDocs      \* bound: documents loaded

ASSUME WorkstationAssumption ==
  /\ Limits \subseteq (Nat \ {0}) \X (Nat \ {0}) \X Nat
  /\ MaxDocs \in Nat \ {0}

None  == 0
Bytes == (0 .. MaxDocs) \X {"none", "source", "result", "job"}
NoBytes == <<0, "none">>
DocOf(b) == b[1]

VARIABLES
  limits,      \* the triple of Limits of this behaviour
  bytes,       \* state.loadedBytes
  previews,    \* per page what its preview shows; no pages without a document
  boxes,       \* the documents whose boxes are on display
  busy,        \* state.isProcessing
  job,         \* state.activeJobId
  lastJob,     \* state.lastSubmittedJobId
  last,        \* _lastChannelId
  cached,      \* _previewDocId: the bytes the server keeps under it
  held,        \* _wsSubscription
  listeners,   \* the listeners on the stream of WsClient
  socket,      \* WsClient's current socket
  sockets,     \* the sockets whose frames reach the stream
  fetches,     \* previews on their way that still count
  loop,        \* the background preloader
  task,        \* what the tasks do
  docs,        \* history: documents loaded
  hasty        \* history: whether the user did not wait for a task to end,
               \* or, with a cancel, for a run to be open

Tasks == 1 .. limits[1]
Pages == 1 .. limits[2]

display == <<bytes, previews, boxes, busy, job, lastJob>>
wire == <<held, listeners, socket, sockets>>
loading == <<fetches, loop, cached>>
history == <<docs, hasty, limits>>
vars == <<display, last, wire, loading, task, history>>

NoTask == [kind |-> "none", at |-> "none", doc |-> 0]
Over   == [kind |-> "none", at |-> "done", doc |-> 0]
Loop(at, page, of) == [at |-> at, page |-> page, of |-> of]
Idle   == Loop("off", 0, NoBytes)

Init ==
  /\ limits \in Limits
  /\ bytes = NoBytes /\ previews = [p \in {} |-> NoBytes] /\ boxes = {}
  /\ busy = FALSE /\ job = None /\ lastJob = None
  /\ last = None /\ cached = NoBytes
  /\ held = None /\ listeners = {} /\ socket = None /\ sockets = {}
  /\ fetches = {} /\ loop = Idle
  /\ task = [t \in Tasks |-> NoTask]
  /\ docs = 0 /\ hasty = FALSE

Live(t) == task[t].at \notin {"none", "done"}
Waiting == {t \in Tasks : Live(t)}

\* A run that is opening its session, its socket and its listener.
Opening(t) == task[t].at \in {"open", "connect", "swap"}

-----------------------------------------------------------------------------
(* Previews.                                                               *)

\* _preloadGeneration++: the answers on their way will be ignored, those of a
\* job excepted, and the preloader ends when it resumes.
FromJobs == {f \in fetches : f.how = "job"}

OldLoop == IF loop = Idle THEN Idle ELSE Loop("stale", 0, NoBytes)

Outdate == fetches' = FromJobs /\ loop' = OldLoop

\* What the server renders: the document it has cached, or the bytes sent.
Source == IF cached # NoBytes THEN cached ELSE bytes

Missing(shown) == {p \in DOMAIN shown : shown[p] = NoBytes}

\* One turn of the preloader: it asks for a page of todo, if there is one.  It
\* gives up pages that could not be rendered, when is left open.
Turn(todo, of) ==
  \/ todo = {} /\ loop' = Idle
  \/ \E p \in todo : loop' = Loop("ask", p, of)

\* _startBackgroundPreloader: one at a time, even if it is out of date.
StartLoop(todo, of) ==
  IF loop = Idle /\ Cardinality(DOMAIN previews') > 1 THEN Turn(todo, of) ELSE UNCHANGED loop

\* The pages on display, at least n of them.
Padded(n) == [p \in DOMAIN previews \cup 1 .. n |->
                IF p \in DOMAIN previews THEN previews[p] ELSE NoBytes]

\* A preview of bytes b was rendered for page p, of n pages in all.
Show(p, b, n) == previews' = [Padded(n) EXCEPT ![p] = b]

Fetch(p, of, how) == [page |-> p, of |-> of, how |-> how]

\* selectPage: the preview is fetched if it is missing, from the job if there
\* was one.
SelectPage(p) ==
  /\ p \in DOMAIN previews /\ bytes # NoBytes
  /\ Cardinality(fetches) < limits[3]
  /\ LET owner == IF job # None THEN job ELSE lastJob
     IN  IF previews[p] # NoBytes THEN UNCHANGED fetches
         ELSE fetches' = fetches \cup
                {IF owner # None
                   THEN Fetch(p, <<task[owner].doc, "job">>, "job")
                   ELSE Fetch(p, Source, "page")}
  /\ UNCHANGED <<display, last, wire, cached, task, history>>
  /\ StartLoop(Missing(previews), Source)

\* retryPagePreview: after an error, never from a job.
RetryPreview(p) ==
  /\ p \in Missing(previews) /\ bytes # NoBytes
  /\ Cardinality(fetches) < limits[3]
  /\ fetches' = fetches \cup {Fetch(p, Source, "page")}
  /\ UNCHANGED <<display, last, wire, loop, cached, task, history>>

\* _loadDocumentPreview has an answer of this generation, or fails; it does
\* not count when the display has been emptied.
Rendered(f) ==
  /\ f \in fetches /\ f.how # "job"
  /\ fetches' = fetches \ {f}
  /\ \/ UNCHANGED <<previews, cached, loop>>
     \/ /\ bytes # NoBytes
        /\ Show(f.page, f.of, limits[2]) /\ cached' = f.of
        /\ IF f.how = "load" THEN StartLoop(Missing(previews'), f.of)
                             ELSE UNCHANGED loop
  /\ UNCHANGED <<bytes, boxes, busy, job, lastJob, last, wire, task,
                 history>>

\* _loadPagePreviewIfMissing: shown without a question, and rendered from the
\* bytes instead if the job has none.
JobPreview(f) ==
  /\ f \in fetches /\ f.how = "job"
  /\ \/ /\ fetches' = fetches \ {f}
        /\ IF f.page \in DOMAIN previews THEN Show(f.page, f.of, 0)
                                         ELSE UNCHANGED previews
     \/ /\ fetches' = (fetches \ {f}) \cup
              (IF bytes # NoBytes THEN {Fetch(f.page, Source, "page")} ELSE {})
        /\ UNCHANGED previews
  /\ UNCHANGED <<bytes, boxes, busy, job, lastJob, last, wire, cached,
                 loop, task, history>>

\* The preloader has an answer, or none, or its request raises; the display may
\* have been emptied in the same generation.
Preloaded ==
  /\ loop.at = "ask"
  /\ \/ /\ bytes # NoBytes
        /\ Show(loop.page, loop.of, loop.page) /\ cached' = loop.of
        /\ loop' = Loop("pause", 0, NoBytes)
     \/ /\ loop' = IF bytes # NoBytes THEN Loop("pause", 0, NoBytes) ELSE Idle
        /\ UNCHANGED <<previews, cached>>
     \/ loop' = Idle /\ UNCHANGED <<previews, cached>>
  /\ UNCHANGED <<bytes, boxes, busy, job, lastJob, last, wire, fetches, task,
                 history>>

\* The pause between two pages is over, or something of an old generation
\* comes in.
LoopWakes ==
  /\ \/ loop.at = "pause" /\ bytes # NoBytes /\ Turn(Missing(previews), Source)
     \/ loop.at \in {"pause", "stale"} /\ loop' = Idle
  /\ UNCHANGED <<display, last, wire, fetches, cached, task, history>>

-----------------------------------------------------------------------------
(* _cleanup.  It is entered in the same turn as what precedes it, and what *)
(* follows it runs in the turn in which it ends.                           *)

At(t, where) == task' = [task EXCEPT ![t].at = where]

\* Mutated form: the previews on their way stay current.
TeardownKeepsGeneration(t) ==
  /\ cached' = NoBytes /\ UNCHANGED <<fetches, loop>>
  /\ listeners' = listeners \ {held}
  /\ At(t, "drop")

\* The generation ends, the subscription is cancelled, and that is awaited.
Teardown(t) ==
  /\ Outdate
  /\ cached' = NoBytes
  /\ listeners' = listeners \ {held}
  /\ At(t, "drop")

\* What is behind the cleanup: the end of a run that answered before, the
\* error of a submission, the end of a cancel, or the empty display.
Finish(t) ==
  /\ last' = None
  /\ task' = [task EXCEPT ![t] =
                IF @.kind \in {"cancel", "clear"} THEN Over
                                                 ELSE [@ EXCEPT !.at = "done"]]
  /\ CASE task[t].kind = "sync" -> UNCHANGED display
       [] task[t].kind \in {"async", "cancel"} ->
            busy' = FALSE /\ UNCHANGED <<bytes, previews, boxes, job, lastJob>>
       [] task[t].kind = "clear" ->
            /\ bytes' = NoBytes /\ previews' = [p \in {} |-> NoBytes]
            /\ boxes' = {} /\ busy' = FALSE /\ job' = None /\ lastJob' = None

\* Only what a session opened is closed; disconnect() takes effect at once.
Dropped(t) ==
  /\ task[t].at = "drop"
  /\ held' = None
  /\ IF last = None
       THEN Finish(t) /\ UNCHANGED <<socket, sockets>>
       ELSE /\ socket' = None /\ sockets' = sockets \ {socket}
            /\ At(t, "leave") /\ UNCHANGED <<display, last>>
  /\ UNCHANGED <<listeners, loading, history>>

\* The server has answered for the channel, or could not be reached.
Left(t) ==
  /\ task[t].at = "leave"
  /\ Finish(t)
  /\ UNCHANGED <<wire, loading, history>>

-----------------------------------------------------------------------------
(* Runs.                                                                   *)

Begins(t, kind, where, doc) ==
  /\ ~\E u \in Tasks : u < t /\ task[u] = NoTask
  /\ task[t] = NoTask
  /\ task' = [task EXCEPT ![t] = [kind |-> kind, at |-> where,
                                    doc |-> doc]]

\* processOcrSync from the button or Ctrl+Enter, which does not ask whether
\* something is being processed, and processOcrAsync from the button.
Process(t) ==
  /\ bytes # NoBytes
  /\ \E kind \in IF busy THEN {"sync"} ELSE {"sync", "async"} :
       Begins(t, kind, "open", DocOf(bytes))
  /\ busy' = TRUE /\ job' = None /\ last' = None
  /\ hasty' = (hasty \/ Waiting # {})
  /\ UNCHANGED <<bytes, previews, boxes, lastJob, wire, loading, docs, limits>>

\* A session is open, and connect() closes the socket there is; or it fails,
\* which a synchronous run puts up with.
Opened(t) ==
  /\ task[t].at = "open"
  /\ \/ /\ last' = t
        /\ socket' = None /\ sockets' = sockets \ {socket}
        /\ At(t, "connect")
        /\ UNCHANGED <<held, listeners, loading>>
     \/ /\ task[t].kind = "sync" /\ At(t, "http")
        /\ UNCHANGED <<last, wire, loading>>
     \/ /\ task[t].kind = "async" /\ Teardown(t)
        /\ UNCHANGED <<last, held, socket, sockets>>
  /\ UNCHANGED <<bytes, previews, boxes, busy, job, lastJob, history>>

\* The handshake is over, with a socket or without; the subscription there is
\* is cancelled.
Connected(t) ==
  /\ task[t].at = "connect"
  /\ \/ socket' = t /\ sockets' = sockets \cup {t}
     \/ UNCHANGED <<socket, sockets>>
  /\ listeners' = listeners \ {held}
  /\ At(t, "swap")
  /\ UNCHANGED <<display, last, held, loading, history>>

Listens(t) ==
  /\ task[t].at = "swap"
  /\ held' = t /\ listeners' = listeners \cup {t}
  /\ At(t, "http")
  /\ UNCHANGED <<display, last, socket, sockets, loading, history>>

\* Mutated form: an error does not end the processing.
SyncAnsweredStuck(t) ==
  /\ task[t].at = "http" /\ task[t].kind = "sync"
  /\ \/ bytes' = <<task[t].doc, "result">> /\ busy' = FALSE
     \/ UNCHANGED <<bytes, busy>>
  /\ Teardown(t)
  /\ UNCHANGED <<previews, boxes, job, lastJob, last, held, socket,
                 sockets, history>>

\* The result of a synchronous run replaces the bytes, whatever they are by
\* now; or it has failed.
SyncAnswered(t) ==
  /\ task[t].at = "http" /\ task[t].kind = "sync"
  /\ bytes' \in {<<task[t].doc, "result">>, bytes}
  /\ busy' = FALSE
  /\ Teardown(t)
  /\ UNCHANGED <<previews, boxes, job, lastJob, last, held, socket,
                 sockets, history>>

\* A job was accepted, or not.
AsyncAnswered(t) ==
  /\ task[t].at = "http" /\ task[t].kind = "async"
  /\ \/ /\ busy' = TRUE /\ job' = t /\ lastJob' = t
        /\ At(t, "done")
        /\ UNCHANGED <<listeners, loading>>
     \/ Teardown(t) /\ UNCHANGED <<busy, job, lastJob>>
  /\ UNCHANGED <<bytes, previews, boxes, last, held, socket, sockets,
                 history>>

\* A frame from a socket, to every listener: a box, the acceptance of the
\* socket, or the end of a cancelled job.
Frame(s) ==
  /\ s \in sockets /\ listeners # {}
  /\ \/ /\ boxes' = boxes \cup {task[s].doc}
        /\ \E p \in Pages : previews' = Padded(p)
        /\ UNCHANGED <<busy, last>>
     \/ last' = s /\ UNCHANGED <<boxes, previews, busy>>
     \/ busy' = FALSE /\ UNCHANGED <<boxes, previews, last>>
  /\ UNCHANGED <<bytes, job, lastJob, wire, loading, task, history>>

-----------------------------------------------------------------------------
(* The other commands.                                                     *)

\* loadDocument, from the dropzone, which is there without a document only;
\* the number of pages is an estimate.
Load ==
  /\ bytes = NoBytes /\ docs < MaxDocs
  /\ docs' = docs + 1
  /\ bytes' = <<docs + 1, "source">>
  /\ \E n \in Pages : previews' = [p \in 1 .. n |-> NoBytes]
  /\ boxes' = {} /\ busy' = FALSE /\ job' = None /\ lastJob' = None
  /\ cached' = NoBytes
  /\ fetches' = FromJobs \cup
       {Fetch(1, <<docs + 1, "source">>, "load") : p \in 1 .. limits[3]}
  /\ loop' = OldLoop
  /\ hasty' = (hasty \/ Waiting # {})
  /\ UNCHANGED <<last, wire, task, limits>>

\* cancelOcr: the channel and the job are cancelled on the server first.
Cancel(t) ==
  /\ busy
  /\ Begins(t, "cancel", "asked", 0)
  /\ hasty' = (hasty \/ \E u \in Tasks : Opening(u))
  /\ UNCHANGED <<display, last, wire, loading, docs, limits>>

CancelAnswered(t) ==
  /\ task[t].at = "asked"
  /\ Teardown(t)
  /\ UNCHANGED <<display, last, held, socket, sockets, history>>

\* Mutated form: the display is emptied and nothing is cleaned up.
ClearConnected(t) ==
  /\ bytes # NoBytes
  /\ Begins(t, "clear", "done", 0)
  /\ bytes' = NoBytes /\ previews' = [p \in {} |-> NoBytes]
  /\ boxes' = {} /\ busy' = FALSE /\ job' = None /\ lastJob' = None
  /\ Outdate
  /\ cached' = NoBytes
  /\ hasty' = (hasty \/ Waiting # {})
  /\ UNCHANGED <<last, wire, docs, limits>>

\* clearDocument.
Clear(t) ==
  /\ bytes # NoBytes
  /\ Begins(t, "clear", "drop", 0)
  /\ Outdate
  /\ cached' = NoBytes
  /\ listeners' = listeners \ {held}
  /\ hasty' = (hasty \/ Waiting # {})
  /\ UNCHANGED <<display, last, held, socket, sockets, docs, limits>>

-----------------------------------------------------------------------------

Command ==
  \/ Load
  \/ \E p \in Pages : SelectPage(p) \/ RetryPreview(p)
  \/ \E t \in Tasks : Process(t) \/ Cancel(t) \/ Clear(t)

Resumes ==
  \E t \in Tasks :
    \/ Dropped(t) \/ Left(t) \/ Opened(t) \/ Connected(t)
    \/ Listens(t) \/ SyncAnswered(t) \/ AsyncAnswered(t) \/ CancelAnswered(t)

Arrives ==
  \/ \E f \in fetches : Rendered(f) \/ JobPreview(f)
  \/ Preloaded \/ LoopWakes
  \/ \E s \in Tasks : Frame(s)

Next == Command \/ Resumes \/ Arrives

Spec == Init /\ [][Next]_vars

-----------------------------------------------------------------------------
(* Properties.                                                             *)

TypeOK ==
  /\ limits \in Limits
  /\ bytes \in Bytes /\ cached \in Bytes
  /\ \E n \in Pages \cup {0} : previews \in [1 .. n -> Bytes]
  /\ boxes \subseteq 1 .. MaxDocs
  /\ busy \in BOOLEAN /\ hasty \in BOOLEAN
  /\ {job, lastJob, last, held, socket} \subseteq Tasks \cup {None}
  /\ listeners \subseteq Tasks /\ sockets \subseteq Tasks
  /\ fetches \subseteq [page : Pages, of : Bytes,
                       how : {"load", "page", "job"}]
  /\ loop \in [at : {"off", "ask", "pause", "stale"},
               page : Pages \cup {0}, of : Bytes]
  /\ task \in [Tasks -> [kind : {"none", "sync", "async", "cancel", "clear"},
                         at : {"none", "open", "connect", "swap", "http",
                               "asked", "drop", "leave", "done"},
                         doc : 0 .. MaxDocs]]
  /\ docs \in 0 .. MaxDocs

\* A page that is rendered while it is on display was rendered from the bytes
\* that are loaded at that moment: no answer that belongs to a document, or to
\* a version of it, that is gone is ever put on a page (the generation and the
\* cached id of _loadDocumentPreview and _startBackgroundPreloader, which run
\* next to clears, loads and results).
RendersTheLoadedBytes ==
  [][\A p \in DOMAIN previews' :
       previews'[p] = NoBytes \/ previews'[p][2] = "job"
       \/ (p \in DOMAIN previews /\ previews'[p] = previews[p])
       \/ previews'[p] = bytes']_vars

\* Whenever the display says that something is being processed, a run is on
\* its way that will end it, or there is a job to cancel.
BusyIsAccountable ==
  busy => \/ job # None
          \/ \E t \in Waiting : task[t].kind \in {"sync", "async"}

\* To a user who lets a run, a cancel or a clear end before the next run, load
\* or clear, and who cancels no run that is still opening its session, nothing
\* of another document is shown: the bytes and the boxes are those of the
\* document loaded last.  Cancels may otherwise come at any time, several at
\* once, and jobs may go on.
PatientUserSeesOneDocument ==
  ~hasty /\ bytes # NoBytes =>
    DocOf(bytes) = docs /\ boxes \subseteq {docs}
=============================================================================
