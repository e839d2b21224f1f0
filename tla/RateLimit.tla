----------------------------- MODULE RateLimit -----------------------------
(***************************************************************************)
(* The rate limiter: RateLimitMiddleware in middleware/rate_limit.py.      *)
(*                                                                         *)
(* A request is checked without an await, on the event loop, so that a     *)
(* check is one step; the clock is read in the same step.  Time passes in  *)
(* ticks, of which Second make a second.  Requests that are exempt, or     *)
(* that come while no limit is set, never reach the check and are left     *)
(* out; a client is what _extract_client_ip makes of a request.            *)
(***************************************************************************)
EXTENDS Integers, Sequences, FiniteSets

CONSTANTS
  Clients,
  Limit,       \* requests a client may make in a window
  Window,      \* ticks of a window, 60 seconds in the code
  Second,      \* ticks of a second
  MaxTracked   \* clients that may be on record before stale ones are dropped

Limits == /\ Limit \in Nat \ {0} /\ Window \in Nat \ {0}
          /\ Second \in Nat \ {0} /\ MaxTracked \in Nat

VARIABLES
  now,       \* time.monotonic()
  records,   \* _records: per client on record the times of its requests
  log,       \* history: per client the times of all requests let through
  answer     \* the answer given at this instant, if any

vars == <<now, records, log, answer>>

NoAnswer == [kind |-> "none"]
Allowed(c) == [kind |-> "allowed", client |-> c]
Refused(c, retry) == [kind |-> "refused", client |-> c, retry |-> retry]

Init ==
  /\ now = 0
  /\ records = [c \in {} |-> <<>>]
  /\ log = [c \in Clients |-> <<>>]
  /\ answer = NoAnswer

Stale(t) == t + Window <= now

Latest(q) == q[Len(q)]

\* The clients that stay on record.
Tracked ==
  IF Cardinality(DOMAIN records) > MaxTracked
    THEN {c \in DOMAIN records :
            records[c] # <<>> /\ ~Stale(Latest(records[c]))}
    ELSE DOMAIN records

Queue(c) == IF c \in Tracked THEN records[c] ELSE <<>>

\* q without its n oldest requests, all those at its head that are stale.
Evicts(q, n) ==
  /\ \A i \in 1 .. n : Stale(q[i])
  /\ n < Len(q) => ~Stale(q[n + 1])

\* _check_rate_limit: what the client asked becomes its record.
Recorded(c, q) ==
  records' = [d \in Tracked \cup {c} |-> IF d = c THEN q ELSE records[d]]

Allow(c) ==
  /\ \E n \in 0 .. Len(Queue(c)) :
       LET q == SubSeq(Queue(c), n + 1, Len(Queue(c)))
       IN  /\ Evicts(Queue(c), n)
           /\ Len(q) < Limit
           /\ Recorded(c, Append(q, now))
  /\ log' = [log EXCEPT ![c] = Append(@, now)]
  /\ answer' = Allowed(c)
  /\ UNCHANGED now

\* The seconds until the oldest request leaves the window, rounded up.
Refuse(c) ==
  /\ \E n \in 0 .. Len(Queue(c)) :
       LET q == SubSeq(Queue(c), n + 1, Len(Queue(c)))
           remaining == q[1] + Window - now
       IN  /\ Evicts(Queue(c), n)
           /\ Len(q) >= Limit
           /\ Recorded(c, q)
           /\ \E retry \in 1 .. Window :
                /\ (retry - 1) * Second < remaining
                /\ remaining <= retry * Second
                /\ answer' = Refused(c, retry)
  /\ UNCHANGED <<now, log>>

Tick == now' = now + 1 /\ answer' = NoAnswer /\ UNCHANGED <<records, log>>

Next == Tick \/ \E c \in Clients : Allow(c) \/ Refuse(c)

Spec == Init /\ [][Next]_vars

-----------------------------------------------------------------------------
(* Properties.                                                             *)

TypeOK ==
  /\ now \in Nat
  /\ DOMAIN records \subseteq Clients
  /\ records \in [DOMAIN records -> Seq(Nat)]
  /\ log \in [Clients -> Seq(Nat)]

\* No window of the given length, wherever it begins, holds more than Limit
\* requests of a client that were let through: from the first to the last of
\* any Limit + 1 of them in a row a whole window goes by.  Neither the queues
\* that are cut nor the clients that are dropped from the records while others
\* stay ever let one more through.
WithinLimit ==
  \A c \in Clients : \A i \in 1 .. Len(log[c]) :
    i + Limit <= Len(log[c]) => log[c][i] + Window <= log[c][i + Limit]

\* No request is refused that a full window does not forbid, and a client that
\* waits the seconds it is told, and makes no request meanwhile, finds the
\* oldest of the requests that stood in its way gone.
RefusalsAreDue ==
  answer.kind = "refused" =>
    LET mine   == log[answer.client]
        oldest == Len(mine) - Limit + 1
    IN  /\ oldest >= 1
        /\ ~Stale(mine[oldest])
        /\ mine[oldest] + Window <= now + answer.retry * Second
=============================================================================
