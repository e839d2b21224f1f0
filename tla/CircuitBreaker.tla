--------------------------- MODULE CircuitBreaker ---------------------------
(***************************************************************************)
(* The circuit breaker of an LLM endpoint (core/ocr/resilience.py) and the *)
(* calls it guards (ChatClient.chat in core/ocr/chat_client.py).           *)
(*                                                                         *)
(* The registry gives every OCRProcessor of an endpoint the same breaker,  *)
(* and the pages of a document are recognised concurrently, so many calls  *)
(* are under way at once.  The breaker's methods do not suspend; a call    *)
(* suspends while the endpoint answers and while it backs off.  The        *)
(* breaker keeps the time it opened and compares it with a clock: here,    *)
(* the time since then, in ticks, counted up to the cooldown.              *)
(***************************************************************************)
EXTENDS Naturals, Sequences, SequencesExt

CONSTANTS
  Callers,     \* tasks that make calls, one at a time each
  Threshold,   \* failure_threshold (5)
  Cooldown,    \* cooldown_seconds (30), in ticks; 0 is legal
  MaxRetries,  \* retries of a call after its first attempt (2)
  FailCap      \* bound: the failure counter sticks there

ASSUME CircuitBreakerAssumption ==
  /\ Threshold \in Nat \ {0}
  /\ Cooldown \in Nat
  /\ MaxRetries \in Nat
  /\ FailCap \in Nat /\ FailCap > Threshold

VARIABLES
  failures,    \* _consecutive_failures
  opened,      \* whether _opened_at is set: "yes" or "no"
  age,         \* the time since then, up to Cooldown
  calls,       \* per caller: where its call is, its attempt, how it got in
  recent       \* outcomes recorded last, newest last, at most Threshold

breaker == <<failures, opened, age>>
vars == <<breaker, calls, recent>>

State ==
  IF opened = "no" THEN "closed"
  ELSE IF age < Cooldown THEN "open" ELSE "half_open"

NoCall == [pc |-> "idle", attempt |-> 0, admitted |-> "closed"]

Waiting(attempt) ==
  [pc |-> "backoff", attempt |-> attempt, admitted |-> "closed"]

Calling == {c \in Callers : calls[c].pc = "calling"}

Init ==
  /\ failures = 0 /\ opened = "no" /\ age = 0
  /\ calls = [c \in Callers |-> NoCall]
  /\ recent = <<>>

-----------------------------------------------------------------------------
(* The breaker.                                                            *)

\* Mutated form: a success closes the circuit and leaves the counter.
RecordSuccessNoReset ==
  /\ failures' = failures
  /\ opened' = "no" /\ age' = 0

RecordSuccess ==
  /\ failures' = 0
  /\ opened' = "no" /\ age' = 0

\* Counted; an opened circuit is opened afresh, a closed one at the threshold.
RecordFailure ==
  /\ failures' = IF failures < FailCap THEN failures + 1 ELSE failures
  /\ IF opened = "yes" \/ failures + 1 >= Threshold
       THEN opened' = "yes" /\ age' = 0
       ELSE UNCHANGED <<opened, age>>

Remember(outcome) ==
  recent' = LET r == Append(recent, outcome) IN
            IF Len(r) > Threshold THEN Tail(r) ELSE r

-----------------------------------------------------------------------------
(* A call.                                                                 *)

\* Mutated form: only retries consult the breaker.
BeginUnchecked(c) ==
  /\ calls[c].pc = "idle"
  /\ calls' = [calls EXCEPT ![c] = [pc |-> "calling", attempt |-> 0,
                                    admitted |-> State]]
  /\ UNCHANGED <<breaker, recent>>

\* check() and the first attempt's request.
Begin(c) ==
  /\ calls[c].pc = "idle"
  /\ State # "open"
  /\ calls' = [calls EXCEPT ![c] = [pc |-> "calling", attempt |-> 0,
                                    admitted |-> State]]
  /\ UNCHANGED <<breaker, recent>>

\* Mutated form: the breaker is consulted before the first attempt only.
RetryUnchecked(c) ==
  /\ calls[c].pc = "backoff"
  /\ calls' = [calls EXCEPT ![c].pc = "calling", ![c].admitted = State]
  /\ UNCHANGED <<breaker, recent>>

\* The back-off is over: the breaker is consulted again, and an open circuit
\* ends the call with CircuitOpenError.
Retry(c) ==
  /\ calls[c].pc = "backoff"
  /\ calls' = [calls EXCEPT ![c] =
                 IF State = "open" THEN NoCall
                 ELSE [pc |-> "calling", attempt |-> calls[c].attempt,
                       admitted |-> State]]
  /\ UNCHANGED <<breaker, recent>>

Succeed(c) ==
  /\ calls[c].pc = "calling"
  /\ calls' = [calls EXCEPT ![c] = NoCall]
  /\ RecordSuccess
  /\ Remember("success")

\* Mutated form: the attempts are not counted.
FailForever(c, transient) ==
  /\ calls[c].pc = "calling"
  /\ calls' = [calls EXCEPT ![c] =
                 IF transient THEN Waiting(0) ELSE NoCall]
  /\ RecordFailure
  /\ Remember("failure")

\* Mutated form: one retry too many.
FailOnceMore(c, transient) ==
  /\ calls[c].pc = "calling"
  /\ calls' = [calls EXCEPT ![c] =
                 IF transient /\ @.attempt <= MaxRetries
                   THEN Waiting(calls[c].attempt + 1)
                   ELSE NoCall]
  /\ RecordFailure
  /\ Remember("failure")

\* An error, permanent (context size, authentication) or not: it is recorded
\* either way, and retried after a back-off only if transient.
Fail(c, transient) ==
  /\ calls[c].pc = "calling"
  /\ calls' = [calls EXCEPT ![c] =
                 IF transient /\ @.attempt < MaxRetries
                   THEN Waiting(calls[c].attempt + 1)
                   ELSE NoCall]
  /\ RecordFailure
  /\ Remember("failure")

\* The caller's task is cancelled: CancelledError is no Exception, and the
\* breaker is told nothing.
Cancel(c) ==
  /\ calls[c].pc # "idle"
  /\ calls' = [calls EXCEPT ![c] = NoCall]
  /\ UNCHANGED <<breaker, recent>>

Tick ==
  /\ opened = "yes" /\ age < Cooldown
  /\ age' = age + 1
  /\ UNCHANGED <<failures, opened, calls, recent>>

Answer(c) == Succeed(c) \/ \E transient \in BOOLEAN : Fail(c, transient)

Next ==
  \/ Tick
  \/ \E c \in Callers : Begin(c) \/ Retry(c) \/ Answer(c) \/ Cancel(c)

Spec == Init /\ [][Next]_vars

\* The clock runs, an attempt ends (it has a timeout) and so does a back-off.
\* Nobody has to make a call.
FairSpec ==
  /\ Spec
  /\ WF_vars(Tick)
  /\ \A c \in Callers : WF_vars(Answer(c) \/ Retry(c))

-----------------------------------------------------------------------------
(* Properties.                                                             *)

\* Types of the variables.
TypeOK ==
  /\ failures \in 0 .. FailCap
  /\ opened \in {"yes", "no"}
  /\ age \in 0 .. Cooldown
  /\ calls \in [Callers -> [pc : {"idle", "calling", "backoff"},
                            attempt : 0 .. MaxRetries,
                            admitted : {"closed", "open", "half_open"}]]
  /\ recent \in Seq({"success", "failure"})

\* However the answers of concurrent calls interleave, also while the circuit
\* is open, it is open or half-open exactly when the last outcomes, as many as
\* the threshold, were failures: it opens on an unbroken run of them, on every
\* such run, and closes on a success only.
OpensOnRunOfFailures ==
  opened = "yes" <=>
    Len(recent) = Threshold /\ \A n \in DOMAIN recent : recent[n] = "failure"

\* While the circuit stays open no attempt is let in, first or not: the
\* attempts under way only become fewer.
OpenDrains ==
  [][State = "open" /\ State' = "open" => Calling' \subseteq Calling]_vars

\* The circuit does not stay open: failures of attempts let in before it
\* opened restart the cooldown, but they run out.
OpenIsTemporary == State = "open" ~> State # "open"

\* Every call ends, whatever the endpoint answers.
CallsEnd == \A c \in Callers : calls[c].pc # "idle" ~> calls[c].pc = "idle"

-----------------------------------------------------------------------------
(* A statement of the code's comments that the code does not keep.         *)

\* A circuit whose cooldown has expired lets a single probe through.
SingleProbe ==
  State = "half_open" =>
    \A c, d \in Calling :
      calls[c].admitted = "half_open" /\ calls[d].admitted = "half_open"
        => c = d
=============================================================================
