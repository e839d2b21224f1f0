---------------------------- MODULE ServiceProofs ---------------------------
(***************************************************************************)
(* Theorems about three services of the server: the circuit breaker of an  *)
(* endpoint (CircuitBreaker), for any callers, thresholds and cooldown;    *)
(* the rate limiter (RateLimit, here Gate), for any clients, limit, window *)
(* and clock; and the lexicon (Lexicon, here Lex), for any glossaries.     *)
(* The last two are proved about and in no run.                            *)
(*                                                                         *)
(* The breaker opens on a run of failures because its counter is at least  *)
(* the number of failures recorded last (RunInv).                          *)
(*                                                                         *)
(* The record of a client is the end of the log of what it was allowed:    *)
(* all before it is stale (CutAt).  From this, with the times in order,    *)
(* both halves of exactness follow: at most Limit requests in a window,    *)
(* and no refusal without Limit requests in the window.                    *)
(*                                                                         *)
(* A glossary of the library is under one id at most because a migration   *)
(* saves only what is in no row yet: it begins with glossaries to save     *)
(* only while there is no directory, so when the table is empty, and       *)
(* nothing but the migration adds a row of theirs.                         *)
(***************************************************************************)
EXTENDS CircuitBreaker, SequenceTheorems, TLAPS

CONSTANTS Clients, Limit, Window, Second, MaxTracked,
          Glossaries, Import

VARIABLES now, records, log, answer,
          library, chroma, kept, lance, table, nextId, store, migration

Gate == INSTANCE RateLimit

Lex == INSTANCE Lexicon

-----------------------------------------------------------------------------
(* The circuit breaker.                                                    *)

Outcomes == {"success", "failure"}

LEMMA RememberType ==
  ASSUME NEW outcome \in Outcomes, recent \in Seq(Outcomes), Remember(outcome)
  PROVE  recent' \in Seq(Outcomes)
  <1> DEFINE r == Append(recent, outcome)
  <1>1. r \in Seq(Outcomes) /\ r # <<>>
    BY AppendProperties, EmptySeq
  <1>2. Tail(r) \in Seq(Outcomes)  BY <1>1, HeadTailProperties
  <1>3. recent' = IF Len(r) > Threshold THEN Tail(r) ELSE r
    BY DEF Remember
  <1> HIDE DEF r
  <1> QED BY <1>1, <1>2, <1>3

LEMMA StateType == State \in {"closed", "open", "half_open"}
  BY DEF State

\* The breaker's variables and the calls keep their types; in particular no
\* interleaving takes a call beyond its last retry.
THEOREM BreakerType == Spec => []TypeOK
<1> USE CircuitBreakerAssumption DEF NoCall
<1>1. Init => TypeOK
  BY EmptySeq DEF Init, TypeOK
<1>2. TypeOK /\ [Next]_vars => TypeOK'
  <2> SUFFICES ASSUME TypeOK, [Next]_vars PROVE TypeOK'
    OBVIOUS
  <2> USE DEF TypeOK, breaker
  <2>1. CASE Tick
    BY <2>1 DEF Tick
  <2>2. ASSUME NEW c \in Callers, Begin(c) PROVE TypeOK'
    BY <2>2, StateType DEF Begin
  <2>3. ASSUME NEW c \in Callers, Retry(c) PROVE TypeOK'
    <3>1. CASE State = "open"
      <4>1. calls' = [calls EXCEPT ![c] = NoCall]
        BY <2>3, <3>1, Zenon DEF Retry
      <4> QED BY <2>3, <4>1 DEF Retry
    <3>2. CASE State # "open"
      <4>1. calls' = [calls EXCEPT ![c] =
                        [pc |-> "calling", attempt |-> calls[c].attempt,
                         admitted |-> State]]
        BY <2>3, <3>2, Zenon DEF Retry
      <4> QED BY <2>3, <4>1, StateType DEF Retry
    <3> QED BY <3>1, <3>2
  <2>4. ASSUME NEW c \in Callers, Succeed(c) PROVE TypeOK'
    <3>1. recent' \in Seq(Outcomes)
      BY <2>4, RememberType DEF Succeed, Outcomes
    <3> QED BY <2>4, <3>1 DEF Succeed, RecordSuccess, Outcomes
  <2>5. ASSUME NEW c \in Callers, NEW transient \in BOOLEAN, Fail(c, transient)
        PROVE  TypeOK'
    <3>1. recent' \in Seq(Outcomes)
      BY <2>5, RememberType DEF Fail, Outcomes
    <3>2. failures' \in 0 .. FailCap /\ opened' \in {"yes", "no"}
          /\ age' \in 0 .. Cooldown
      BY <2>5 DEF Fail, RecordFailure
    <3>3. CASE transient /\ calls[c].attempt < MaxRetries
      <4> DEFINE next == Waiting(calls[c].attempt + 1)
      <4>1. calls' = [calls EXCEPT ![c] = next]
        BY <2>5, <3>3, Zenon DEF Fail
      <4>2. calls[c].attempt + 1 \in 0 .. MaxRetries
        BY <3>3
      <4>3. next \in [pc : {"idle", "calling", "backoff"},
                      attempt : 0 .. MaxRetries,
                      admitted : {"closed", "open", "half_open"}]
        BY <4>2 DEF Waiting
      <4> HIDE DEF next
      <4>4. calls' \in [Callers -> [pc : {"idle", "calling", "backoff"},
                                    attempt : 0 .. MaxRetries,
                                    admitted : {"closed", "open", "half_open"}]]
        BY <4>1, <4>3
      <4> QED BY <3>1, <3>2, <4>4 DEF Outcomes
    <3>4. CASE ~(transient /\ calls[c].attempt < MaxRetries)
      BY <2>5, <3>1, <3>2, <3>4 DEF Fail, Outcomes
    <3> QED BY <3>3, <3>4
  <2>6. ASSUME NEW c \in Callers, Cancel(c) PROVE TypeOK'
    BY <2>6 DEF Cancel
  <2>7. CASE UNCHANGED vars
    BY <2>7 DEF vars
  <2> QED BY <2>1, <2>2, <2>3, <2>4, <2>5, <2>6, <2>7 DEF Next, Answer
<1> QED BY <1>1, <1>2, PTL DEF Spec

\* The counter and the time of opening, which different calls update in any
\* order, agree: the circuit is closed exactly below the threshold.
CounterAgrees == opened = "yes" <=> failures >= Threshold

\* They stay in step, from any number of callers.
THEOREM BreakerAgrees == Spec => []CounterAgrees
<1> USE CircuitBreakerAssumption DEF CounterAgrees
<1>1. Init => CounterAgrees
  BY DEF Init
<1>2. TypeOK /\ CounterAgrees /\ [Next]_vars => CounterAgrees'
  <2> SUFFICES ASSUME TypeOK, CounterAgrees, [Next]_vars PROVE CounterAgrees'
    OBVIOUS
  <2>1. ASSUME UNCHANGED <<failures, opened>> PROVE CounterAgrees'
    BY <2>1
  <2>2. ASSUME NEW c \in Callers, Succeed(c) PROVE CounterAgrees'
    BY <2>2 DEF Succeed, RecordSuccess
  \* Sticking at FailCap does not matter: it lies above the threshold.
  <2>3. ASSUME NEW c \in Callers, NEW transient \in BOOLEAN, Fail(c, transient)
        PROVE  CounterAgrees'
    <3>1. failures \in Nat  BY DEF TypeOK
    <3>2. CASE opened = "yes" \/ failures + 1 >= Threshold
      BY <2>3, <3>1, <3>2 DEF Fail, RecordFailure
    <3>3. CASE ~(opened = "yes" \/ failures + 1 >= Threshold)
      BY <2>3, <3>1, <3>3 DEF Fail, RecordFailure
    <3> QED BY <3>2, <3>3
  <2> QED BY <2>1, <2>2, <2>3
          DEF Next, Answer, Tick, Begin, Retry, Cancel, breaker, vars
<1> QED BY <1>1, <1>2, BreakerType, PTL DEF Spec

\* An attempt is let in only when the circuit is not open, so while it stays
\* open the attempts under way only become fewer.
THEOREM BreakerDrains == Spec => OpenDrains
<1>1. TypeOK /\ [Next]_vars =>
        [State = "open" /\ State' = "open" => Calling' \subseteq Calling]_vars
  <2> SUFFICES ASSUME TypeOK, Next, State = "open"
               PROVE  Calling' \subseteq Calling
    BY DEF Calling, vars
  <2> USE DEF TypeOK, Calling, NoCall
  <2>1. CASE Tick
    BY <2>1 DEF Tick
  <2>2. ASSUME NEW c \in Callers, Begin(c) PROVE FALSE
    BY <2>2 DEF Begin
  <2>3. ASSUME NEW c \in Callers, Retry(c) PROVE Calling' \subseteq Calling
    <3>1. calls' = [calls EXCEPT ![c] = NoCall]
      BY <2>3, Zenon DEF Retry
    <3> QED BY <3>1
  <2>4. ASSUME NEW c \in Callers, Answer(c) PROVE Calling' \subseteq Calling
    BY <2>4 DEF Answer, Succeed, Fail
  <2>5. ASSUME NEW c \in Callers, Cancel(c) PROVE Calling' \subseteq Calling
    BY <2>5 DEF Cancel
  <2> QED BY <2>1, <2>2, <2>3, <2>4, <2>5 DEF Next
<1> QED BY <1>1, BreakerType, PTL DEF Spec, OpenDrains

-----------------------------------------------------------------------------
(* The run of failures.                                                    *)

\* What the circuit remembers of the last outcomes reaches back as far as
\* the counter, up to the threshold: a failure lies at each distance from the
\* end that is below the counter.  And a run of failures is counted: what it
\* is long, up to the threshold, the counter has reached.
RunInv ==
  /\ Len(recent) <= Threshold
  /\ \A i \in 0 .. Threshold - 1 :
       i < failures => i < Len(recent) /\ recent[Len(recent) - i] = "failure"
  /\ \A k \in 1 .. Threshold :
       k <= Len(recent) /\ (\A i \in 0 .. k - 1 : recent[Len(recent) - i] = "failure")
         => k <= failures

\* Remembering an outcome shifts the others one place from the end and drops
\* at most the one that is then beyond the threshold.
LEMMA RememberShifts ==
  ASSUME NEW outcome \in Outcomes, recent \in Seq(Outcomes),
         Len(recent) <= Threshold, Remember(outcome)
  PROVE  /\ Len(recent') \in 1 .. Threshold
         /\ recent'[Len(recent')] = outcome
         /\ \A i \in 1 .. Threshold - 1 :
              i - 1 < Len(recent) =>
                /\ i < Len(recent')
                /\ recent'[Len(recent') - i] = recent[Len(recent) - (i - 1)]
  <1> USE CircuitBreakerAssumption
  <1> DEFINE r == Append(recent, outcome)
  <1>0. Len(recent) \in Nat  BY LenProperties
  <1>1. /\ r \in Seq(Outcomes) /\ r # <<>> /\ Len(r) = Len(recent) + 1
        /\ r[Len(r)] = outcome
        /\ \A n \in 1 .. Len(recent) : r[n] = recent[n]
    BY AppendProperties
  <1>2. /\ Tail(r) \in Seq(Outcomes) /\ Len(Tail(r)) = Len(r) - 1
        /\ \A n \in 1 .. Len(r) - 1 : Tail(r)[n] = r[n + 1]
    BY <1>1, HeadTailProperties
  <1>3. recent' = IF Len(r) > Threshold THEN Tail(r) ELSE r
    BY DEF Remember
  <1> HIDE DEF r
  <1>4. CASE Len(r) > Threshold
    <2>1. recent' = Tail(r) /\ Len(recent') = Threshold
          /\ Len(recent) = Threshold
      BY <1>0, <1>1, <1>2, <1>3, <1>4
    <2>2. recent'[Len(recent')] = outcome
      BY <1>0, <1>1, <1>2, <2>1
    <2>3. ASSUME NEW i \in 1 .. Threshold - 1
          PROVE  recent'[Threshold - i] = recent[Threshold - (i - 1)]
      <3>1. Threshold - i \in 1 .. Len(r) - 1
            /\ Threshold - i + 1 \in 1 .. Len(recent)
            /\ Threshold - i + 1 = Threshold - (i - 1)
        BY <1>0, <1>1, <2>1
      <3> QED BY <1>1, <1>2, <2>1, <3>1
    <2> QED BY <2>1, <2>2, <2>3
  <1>5. CASE ~(Len(r) > Threshold)
    <2>1. recent' = r /\ Len(recent') = Len(recent) + 1
          /\ Len(recent') \in 1 .. Threshold
      BY <1>0, <1>1, <1>3, <1>5
    <2>2. ASSUME NEW i \in 1 .. Threshold - 1, i - 1 < Len(recent)
          PROVE  /\ i < Len(recent')
                 /\ recent'[Len(recent') - i] = recent[Len(recent) - (i - 1)]
      <3>1. Len(recent') - i \in 1 .. Len(recent)
            /\ Len(recent') - i = Len(recent) - (i - 1)
        BY <1>0, <2>1, <2>2
      <3> QED BY <1>0, <1>1, <2>1, <2>2, <3>1
    <2> QED BY <1>1, <2>1, <2>2
  <1> QED BY <1>4, <1>5

\* An outcome more makes what is remembered at most one longer.
LEMMA RememberGrows ==
  ASSUME NEW outcome \in Outcomes, recent \in Seq(Outcomes), Remember(outcome)
  PROVE  Len(recent') <= Len(recent) + 1
  <1> DEFINE r == Append(recent, outcome)
  <1>1. r \in Seq(Outcomes) /\ r # <<>> /\ Len(r) = Len(recent) + 1
    BY AppendProperties
  <1>2. Len(Tail(r)) = Len(r) - 1 /\ Len(recent) \in Nat
    BY <1>1, HeadTailProperties, LenProperties
  <1>3. recent' = IF Len(r) > Threshold THEN Tail(r) ELSE r
    BY DEF Remember
  <1> HIDE DEF r
  <1> QED BY <1>1, <1>2, <1>3

\* However the answers of concurrent calls interleave, the circuit is open or
\* half-open exactly after an unbroken run of as many failures as the threshold.
THEOREM BreakerOpensOnFailures == Spec => []OpensOnRunOfFailures
<1> USE CircuitBreakerAssumption
<1>1. Init => RunInv
  BY DEF Init, RunInv
<1>2. TypeOK /\ RunInv /\ [Next]_vars => RunInv'
  <2> SUFFICES ASSUME TypeOK, RunInv, [Next]_vars PROVE RunInv'
    OBVIOUS
  <2>0. recent \in Seq(Outcomes) /\ Len(recent) \in Nat /\ failures \in Nat
    BY LenProperties DEF TypeOK, Outcomes
  <2>1. ASSUME UNCHANGED <<failures, recent>> PROVE RunInv'
    BY <2>1 DEF RunInv
  <2>2. ASSUME NEW c \in Callers, Succeed(c) PROVE RunInv'
    <3>1. Remember("success") /\ failures' = 0
      BY <2>2 DEF Succeed, RecordSuccess
    <3>2. Len(recent') \in 1 .. Threshold
      BY <2>0, <3>1, RememberShifts DEF RunInv, Outcomes
    <3>3. recent'[Len(recent') - 0] # "failure"
      BY <2>0, <3>1, <3>2, RememberShifts DEF RunInv, Outcomes
    <3> QED BY <3>1, <3>2, <3>3 DEF RunInv
  <2>3. ASSUME NEW c \in Callers, NEW transient \in BOOLEAN, Fail(c, transient)
        PROVE  RunInv'
    <3>1. Remember("failure") /\ failures' <= failures + 1 /\ failures' \in Nat
      BY <2>0, <2>3 DEF Fail, RecordFailure
    <3>2. /\ Len(recent') \in 1 .. Threshold
          /\ recent'[Len(recent')] = "failure"
          /\ \A i \in 1 .. Threshold - 1 :
               i - 1 < Len(recent) =>
                 /\ i < Len(recent')
                 /\ recent'[Len(recent') - i] = recent[Len(recent) - (i - 1)]
      BY <2>0, <3>1, RememberShifts DEF RunInv, Outcomes
    <3>3. ASSUME NEW i \in 0 .. Threshold - 1, i < failures'
          PROVE  i < Len(recent') /\ recent'[Len(recent') - i] = "failure"
      <4>1. CASE i = 0
        BY <3>2, <4>1
      <4>2. CASE i # 0
        <5>1. i \in 1 .. Threshold - 1 /\ i - 1 \in 0 .. Threshold - 1
              /\ i - 1 < failures
          BY <2>0, <3>1, <3>3, <4>2
        <5>2. i - 1 < Len(recent) /\ recent[Len(recent) - (i - 1)] = "failure"
          BY <5>1 DEF RunInv
        <5> QED BY <3>2, <5>1, <5>2
      <4> QED BY <4>1, <4>2
    <3>4. Len(recent') <= Threshold
      BY <3>2
    <3>5. ASSUME NEW k \in 1 .. Threshold, k <= Len(recent'),
                 \A i \in 0 .. k - 1 : recent'[Len(recent') - i] = "failure"
          PROVE  k <= failures'
      <4>1. k - 1 <= failures
        <5>1. CASE k = 1
          BY <2>0, <5>1
        <5>2. CASE k # 1
          <6>1. k - 1 \in 1 .. Threshold /\ k - 1 <= Len(recent)
            <7>1. Len(recent') <= Len(recent) + 1
              BY <2>0, <3>1, RememberGrows DEF Outcomes
            <7>2. Len(recent') \in Nat  BY <3>2
            <7> QED BY <2>0, <3>5, <5>2, <7>1, <7>2
          <6>2. ASSUME NEW i \in 0 .. (k - 1) - 1
                PROVE  recent[Len(recent) - i] = "failure"
            <7>1. i + 1 \in 1 .. Threshold - 1 /\ i + 1 \in 0 .. k - 1
                  /\ (i + 1) - 1 = i /\ i < Len(recent)
              BY <2>0, <6>1
            <7>2. recent'[Len(recent') - (i + 1)] = recent[Len(recent) - i]
              BY <3>2, <7>1
            <7> QED BY <3>5, <7>1, <7>2
          <6> QED BY <6>1, <6>2 DEF RunInv
        <5> QED BY <5>1, <5>2
      <4>2. \/ failures' = failures + 1
            \/ failures' = failures /\ failures >= FailCap
        BY <2>0, <2>3 DEF Fail, RecordFailure
      <4> QED BY <2>0, <3>1, <4>1, <4>2
    <3> QED BY <3>3, <3>4, <3>5 DEF RunInv
  <2> QED BY <2>1, <2>2, <2>3
          DEF Next, Answer, Tick, Begin, Retry, Cancel, breaker, vars
\* An open circuit has counted as far as the threshold, so the run of failures
\* fills all that is remembered.
<1>3. TypeOK /\ CounterAgrees /\ RunInv /\ opened = "yes"
        => Len(recent) = Threshold /\ \A n \in DOMAIN recent : recent[n] = "failure"
  <2> SUFFICES ASSUME TypeOK, CounterAgrees, RunInv, opened = "yes"
               PROVE  /\ Len(recent) = Threshold
                      /\ \A n \in DOMAIN recent : recent[n] = "failure"
    OBVIOUS
  <2>0. Len(recent) \in Nat /\ failures \in Nat /\ failures >= Threshold
        /\ DOMAIN recent = 1 .. Len(recent)
    BY LenProperties DEF TypeOK, CounterAgrees
  <2>1. Len(recent) = Threshold
    <3>1. Threshold - 1 \in 0 .. Threshold - 1 /\ Threshold - 1 < failures
      BY <2>0
    <3>2. Threshold - 1 < Len(recent)
      BY <3>1, Zenon DEF RunInv
    <3>3. Len(recent) <= Threshold
      BY Zenon DEF RunInv
    <3>4. Threshold \in Nat /\ Len(recent) \in Nat
      BY <2>0
    <3>5. ASSUME NEW x \in Nat, NEW y \in Nat, x - 1 < y, y <= x PROVE x = y
      BY <3>5
    <3> HIDE CircuitBreakerAssumption
    <3> QED BY <3>2, <3>3, <3>4, <3>5
  <2>2. ASSUME NEW n \in DOMAIN recent PROVE recent[n] = "failure"
    <3>1. Threshold - n \in 0 .. Threshold - 1 /\ Threshold - n < failures
          /\ Len(recent) - (Threshold - n) = n
      BY <2>0, <2>1
    <3> QED BY <3>1 DEF RunInv
  <2> QED BY <2>1, <2>2
\* A run of failures as long as the threshold has been counted in full.
<1>4. TypeOK /\ CounterAgrees /\ RunInv /\ Len(recent) = Threshold
        /\ (\A n \in DOMAIN recent : recent[n] = "failure")
        => opened = "yes"
  <2> SUFFICES ASSUME TypeOK, CounterAgrees, RunInv, Len(recent) = Threshold,
                      \A n \in DOMAIN recent : recent[n] = "failure"
               PROVE  opened = "yes"
    OBVIOUS
  <2>1. DOMAIN recent = 1 .. Threshold /\ failures \in Nat
    BY LenProperties DEF TypeOK
  <2>2. \A i \in 0 .. Threshold - 1 : recent[Len(recent) - i] = "failure"
    BY <2>1
  <2>3. Threshold <= failures
    BY <2>2 DEF RunInv
  <2> QED BY <2>1, <2>3 DEF CounterAgrees
<1>5. TypeOK /\ CounterAgrees /\ RunInv => OpensOnRunOfFailures
  BY <1>3, <1>4 DEF OpensOnRunOfFailures
<1> QED BY <1>1, <1>2, <1>5, BreakerType, BreakerAgrees, PTL DEF Spec

-----------------------------------------------------------------------------
(* The rate limiter.                                                       *)

Record(c) == IF c \in DOMAIN records THEN records[c] ELSE <<>>

InOrder(c) ==
  /\ \A i \in 1 .. Len(log[c]) : log[c][i] <= now
  /\ \A i, j \in 1 .. Len(log[c]) : i <= j => log[c][i] <= log[c][j]

\* q is the log of c without its first m requests, which are stale.
CutAt(q, c, m) ==
  /\ Len(q) = Len(log[c]) - m
  /\ \A i \in 1 .. Len(q) : q[i] = log[c][m + i]
  /\ \A i \in 1 .. m : Gate!Stale(log[c][i])

IsTail(q, c) == \E m \in 0 .. Len(log[c]) : CutAt(q, c, m)

Inv ==
  /\ Gate!TypeOK
  /\ \A c \in Clients : InOrder(c)
  /\ \A c \in Clients : IsTail(Record(c), c) /\ Len(Record(c)) <= Limit
  /\ Gate!WithinLimit
  /\ Gate!RefusalsAreDue

-----------------------------------------------------------------------------

\* Dropping clients from the records keeps the tails: who is dropped has only
\* stale requests (the pruning above MAX_TRACKED_IPS).
LEMMA QueueIsTail ==
  ASSUME Gate!Limits, Inv, NEW c \in Clients
  PROVE  /\ Gate!Queue(c) \in Seq(Nat) /\ Len(Gate!Queue(c)) <= Limit
         /\ IsTail(Gate!Queue(c), c)
<1>1. Gate!Tracked \subseteq DOMAIN records
  BY DEF Gate!Tracked
<1>2. Record(c) \in Seq(Nat) /\ log[c] \in Seq(Nat) /\ now \in Nat
  BY DEF Inv, Gate!TypeOK, Record
<1>3. IsTail(Record(c), c) /\ Len(Record(c)) <= Limit /\ InOrder(c)
  BY DEF Inv
<1>4. CASE c \in Gate!Tracked \/ c \notin DOMAIN records
  <2>1. Gate!Queue(c) = Record(c)
    BY <1>1, <1>4 DEF Gate!Queue, Record
  <2> QED BY <2>1, <1>2, <1>3
<1>5. CASE c \in DOMAIN records /\ c \notin Gate!Tracked
  <2>1. Gate!Queue(c) = <<>>
    BY <1>5 DEF Gate!Queue
  <2>2. records[c] = <<>> \/ Gate!Stale(Gate!Latest(records[c]))
    BY <1>5 DEF Gate!Tracked
  <2>3. Record(c) = records[c]
    BY <1>5 DEF Record
  <2>4. PICK m \in 0 .. Len(log[c]) : CutAt(Record(c), c, m)
    BY <1>3 DEF IsTail
  <2>5. \A i \in 1 .. Len(log[c]) : Gate!Stale(log[c][i])
    <3>1. CASE Record(c) = <<>>
      <4>1. Len(Record(c)) = 0
        BY <3>1
      <4> QED BY <4>1, <2>4, <1>2 DEF CutAt
    <3>2. CASE Record(c) # <<>>
      <4>1. Len(Record(c)) \in Nat /\ Len(Record(c)) >= 1
        BY <3>2, <1>2
      <4>2. Len(log[c]) \in Nat /\ Len(log[c]) >= 1
            /\ Record(c)[Len(Record(c))] = log[c][Len(log[c])]
        <5>1. Len(log[c]) \in Nat /\ Len(Record(c)) = Len(log[c]) - m
          BY <2>4, <1>2 DEF CutAt
        <5>2. Record(c)[Len(Record(c))] = log[c][m + Len(Record(c))]
          BY SMTT(20), <4>1, <2>4 DEF CutAt
        <5>3. m + Len(Record(c)) = Len(log[c]) /\ Len(log[c]) >= 1
          BY <5>1, <4>1
        <5> QED BY <5>1, <5>2, <5>3
      <4>3. log[c][Len(log[c])] + Window <= now
        BY <2>2, <2>3, <3>2, <4>2 DEF Gate!Stale, Gate!Latest
      <4>4. \A i \in 1 .. Len(log[c]) :
              log[c][i] \in Nat /\ log[c][i] <= log[c][Len(log[c])]
        BY <1>2, <1>3, <4>2 DEF InOrder
      <4> QED BY SMTT(30), <4>3, <4>4, <4>2, <1>2 DEF Gate!Stale, Gate!Limits
    <3> QED BY <3>1, <3>2
  <2>6. CutAt(<<>>, c, Len(log[c]))
    BY <2>5, <1>2 DEF CutAt
  <2>7. <<>> \in Seq(Nat) /\ Len(<<>>) <= Limit /\ Len(log[c]) \in 0 .. Len(log[c])
    BY <1>2 DEF Gate!Limits
  <2> QED BY <2>1, <2>6, <2>7 DEF IsTail
<1> QED BY <1>4, <1>5

\* Cutting stale requests off a tail leaves a tail.
LEMMA EvictedIsTail ==
  ASSUME Gate!Limits, Gate!TypeOK, NEW c \in Clients, NEW r \in Seq(Nat), IsTail(r, c),
         NEW n \in 0 .. Len(r), \A i \in 1 .. n : Gate!Stale(r[i])
  PROVE  /\ SubSeq(r, n + 1, Len(r)) \in Seq(Nat)
         /\ Len(SubSeq(r, n + 1, Len(r))) = Len(r) - n
         /\ \A i \in 1 .. Len(r) - n : SubSeq(r, n + 1, Len(r))[i] = r[n + i]
         /\ IsTail(SubSeq(r, n + 1, Len(r)), c)
<1> DEFINE q == SubSeq(r, n + 1, Len(r))
<1>1. log[c] \in Seq(Nat) /\ Len(log[c]) \in Nat /\ Len(r) \in Nat
  BY DEF Gate!TypeOK
<1>2. q \in Seq(Nat) /\ Len(q) = Len(r) - n
  BY <1>1
<1>3. \A i \in 1 .. Len(r) - n : q[i] = r[n + i]
  BY <1>1
<1>4. PICK m \in 0 .. Len(log[c]) : CutAt(r, c, m)
  BY DEF IsTail
<1>5. CutAt(q, c, m + n)
  <2>1. Len(q) = Len(log[c]) - (m + n)
    BY <1>1, <1>2, <1>4 DEF CutAt
  <2>2. \A i \in 1 .. Len(q) : q[i] = log[c][(m + n) + i]
    <3>1. SUFFICES ASSUME NEW i \in 1 .. Len(q) PROVE q[i] = log[c][(m + n) + i]
      OBVIOUS
    <3>2. i \in 1 .. Len(r) - n /\ n + i \in 1 .. Len(r)
      BY <1>1, <1>2
    <3>3. q[i] = r[n + i] /\ r[n + i] = log[c][m + (n + i)]
      BY <3>2, <1>3, <1>4 DEF CutAt
    <3>4. m + (n + i) = (m + n) + i
      BY <1>1
    <3> HIDE DEF q
    <3> QED BY <3>3, <3>4
  <2>3. \A i \in 1 .. m + n : Gate!Stale(log[c][i])
    <3>1. SUFFICES ASSUME NEW i \in 1 .. m + n PROVE Gate!Stale(log[c][i])
      OBVIOUS
    <3>2. CASE i <= m
      BY <3>2, <1>4 DEF CutAt
    <3>3. CASE i > m
      <4>1. i - m \in 1 .. n /\ i - m \in 1 .. Len(r) /\ m + (i - m) = i
        BY <3>3, <1>1
      <4>2. Gate!Stale(r[i - m]) /\ r[i - m] = log[c][m + (i - m)]
        BY <4>1, <1>4 DEF CutAt
      <4> QED BY <4>1, <4>2
    <3> QED BY <3>2, <3>3, <1>1
  <2> HIDE DEF q
  <2> QED BY <2>1, <2>2, <2>3 DEF CutAt
<1>6. m + n \in 0 .. Len(log[c])
  BY <1>1, <1>4 DEF CutAt
<1> HIDE DEF q
<1>7. IsTail(q, c)
  BY <1>5, <1>6 DEF IsTail
<1>8. QED
  BY <1>2, <1>3, <1>7 DEF q

-----------------------------------------------------------------------------

LEMMA InitInv == ASSUME Gate!Limits, Gate!Init PROVE Inv
<1>1. Gate!TypeOK
  BY DEF Gate!Init, Gate!TypeOK
<1>2. \A c \in Clients : log[c] = <<>> /\ Record(c) = <<>> /\ Len(log[c]) = 0
  BY DEF Gate!Init, Record
<1>3. \A c \in Clients : InOrder(c)
  BY <1>2 DEF InOrder
<1>4. \A c \in Clients : IsTail(Record(c), c) /\ Len(Record(c)) <= Limit
  <2>1. SUFFICES ASSUME NEW c \in Clients
                 PROVE  IsTail(Record(c), c) /\ Len(Record(c)) <= Limit
    OBVIOUS
  <2>2. Len(Record(c)) = 0 /\ Len(log[c]) = 0
    BY <1>2
  <2>3. CutAt(Record(c), c, 0)
    BY <2>2 DEF CutAt
  <2> QED BY <2>2, <2>3 DEF IsTail, Gate!Limits
<1>5. Gate!WithinLimit
  BY <1>2 DEF Gate!WithinLimit
<1>6. Gate!RefusalsAreDue
  BY DEF Gate!Init, Gate!RefusalsAreDue, Gate!NoAnswer
<1> QED BY <1>1, <1>3, <1>4, <1>5, <1>6 DEF Inv

\* What a check does to the records, but for the client that asks.
LEMMA OthersKeepTails ==
  ASSUME Gate!Limits, Inv, NEW c \in Clients, NEW q, Gate!Recorded(c, q),
         NEW d \in Clients, d # c
  PROVE  Record(d)' = Gate!Queue(d)
<1>1. records' = [e \in Gate!Tracked \cup {c} |-> IF e = c THEN q ELSE records[e]]
  BY DEF Gate!Recorded
<1>2. DOMAIN records' = Gate!Tracked \cup {c}
  BY <1>1
<1>3. CASE d \in Gate!Tracked
  <2>1. d \in DOMAIN records' /\ records'[d] = records[d]
    BY <1>1, <1>2, <1>3
  <2> QED BY <2>1, <1>3 DEF Record, Gate!Queue
<1>4. CASE d \notin Gate!Tracked
  <2>1. d \notin DOMAIN records'
    BY <1>2, <1>4
  <2> QED BY <2>1, <1>4 DEF Record, Gate!Queue
<1> QED BY <1>3, <1>4

LEMMA RecordedIsTyped ==
  ASSUME Gate!Limits, Inv, NEW c \in Clients, NEW q \in Seq(Nat), Gate!Recorded(c, q)
  PROVE  /\ DOMAIN records' \subseteq Clients
         /\ records' \in [DOMAIN records' -> Seq(Nat)]
         /\ Record(c)' = q
<1>1. records' = [e \in Gate!Tracked \cup {c} |-> IF e = c THEN q ELSE records[e]]
  BY DEF Gate!Recorded
<1>2. Gate!Tracked \subseteq DOMAIN records
  BY DEF Gate!Tracked
<1>3. /\ DOMAIN records \subseteq Clients
      /\ \A e \in DOMAIN records : records[e] \in Seq(Nat)
  BY DEF Inv, Gate!TypeOK
<1>4. DOMAIN records' = Gate!Tracked \cup {c}
  BY <1>1
<1>5. \A e \in Gate!Tracked \cup {c} : records'[e] \in Seq(Nat)
  BY <1>1, <1>2, <1>3
<1>6. records' \in [DOMAIN records' -> Seq(Nat)]
  BY <1>1, <1>4, <1>5
<1>7. Record(c)' = q
  BY <1>1, <1>4 DEF Record
<1> QED BY <1>2, <1>3, <1>4, <1>6, <1>7

-----------------------------------------------------------------------------

\* A request is let through when fewer than Limit are left in the queue: the
\* one Limit places before it has been cut off, and so is a window old.
LEMMA AllowKeepsInv ==
  ASSUME Gate!Limits, Inv, NEW c \in Clients, Gate!Allow(c)
  PROVE  Inv'
<1> DEFINE r == Gate!Queue(c)
           L == Len(log[c])
<1>1. /\ r \in Seq(Nat) /\ Len(r) <= Limit /\ IsTail(r, c)
  BY QueueIsTail
<1>2. Gate!TypeOK /\ now \in Nat /\ log \in [Clients -> Seq(Nat)] /\ L \in Nat
  BY DEF Inv, Gate!TypeOK
<1>3. PICK n \in 0 .. Len(r) :
        LET q == SubSeq(r, n + 1, Len(r))
        IN  Gate!Evicts(r, n) /\ Len(q) < Limit /\ Gate!Recorded(c, Append(q, now))
  BY DEF Gate!Allow
<1> DEFINE q  == SubSeq(r, n + 1, Len(r))
           nq == Append(q, now)
<1>4. Gate!Evicts(r, n) /\ Len(q) < Limit /\ Gate!Recorded(c, nq)
  BY <1>3
<1>5. /\ log' = [log EXCEPT ![c] = Append(@, now)]
      /\ answer' = Gate!Allowed(c) /\ now' = now
  BY DEF Gate!Allow
<1>6. q \in Seq(Nat) /\ IsTail(q, c)
  <2>1. \A i \in 1 .. n : Gate!Stale(r[i])
    BY <1>4 DEF Gate!Evicts
  <2> HIDE DEF r
  <2> QED BY <2>1, <1>1, <1>2, EvictedIsTail
<1>7. PICK m \in 0 .. L : CutAt(q, c, m)
  BY <1>6 DEF IsTail
<1> HIDE DEF q, r
<1>8. nq \in Seq(Nat) /\ Len(nq) = Len(q) + 1 /\ nq[Len(q) + 1] = now
      /\ \A i \in 1 .. Len(q) : nq[i] = q[i]
  BY <1>2, <1>6
<1>9. /\ log'[c] \in Seq(Nat) /\ Len(log'[c]) = L + 1
      /\ log'[c][L + 1] = now
      /\ \A i \in 1 .. L : log'[c][i] = log[c][i]
      /\ \A d \in Clients : d # c => log'[d] = log[d]
      /\ log' \in [Clients -> Seq(Nat)]
  BY <1>2, <1>5
<1>10. Len(q) \in Nat /\ Len(q) = L - m
  BY <1>6, <1>7 DEF CutAt
<1> HIDE DEF nq
<1>11. /\ DOMAIN records' \subseteq Clients
       /\ records' \in [DOMAIN records' -> Seq(Nat)]
       /\ Record(c)' = nq
  BY <1>4, <1>8, RecordedIsTyped
<1>12. Gate!TypeOK'
  BY <1>2, <1>5, <1>9, <1>11 DEF Gate!TypeOK
<1>13. \A d \in Clients : InOrder(d)'
  <2>1. SUFFICES ASSUME NEW d \in Clients PROVE InOrder(d)'
    OBVIOUS
  <2>2. InOrder(d)
    BY DEF Inv
  <2>3. CASE d # c
    <3>1. log'[d] = log[d] /\ now' = now
      BY <2>3, <1>5, <1>9
    <3> QED BY <3>1, <2>2 DEF InOrder
  <2>4. CASE d = c
    <3>1. \A i \in 1 .. L + 1 : log'[c][i] <= now
      <4>1. SUFFICES ASSUME NEW i \in 1 .. L + 1 PROVE log'[c][i] <= now
        OBVIOUS
      <4>2. CASE i = L + 1
        BY <4>2, <1>2, <1>9
      <4>3. CASE i # L + 1
        <5>1. i \in 1 .. L
          BY <4>3, <1>2
        <5> QED BY <5>1, <2>2, <2>4, <1>9 DEF InOrder
      <4> QED BY <4>2, <4>3
    <3>2. ASSUME NEW i \in 1 .. L + 1, NEW j \in 1 .. L + 1, i <= j
          PROVE  log'[c][i] <= log'[c][j]
      <4>1. CASE j = L + 1
        BY <4>1, <3>1, <1>9
      <4>2. CASE j # L + 1
        <5>1. i \in 1 .. L /\ j \in 1 .. L
          BY <4>2, <3>2, <1>2
        <5> QED BY <5>1, <3>2, <2>2, <2>4, <1>9 DEF InOrder
      <4> QED BY <4>1, <4>2
    <3> QED BY <3>1, <3>2, <2>4, <1>5, <1>9 DEF InOrder
  <2> QED BY <2>3, <2>4
<1>14. \A d \in Clients : IsTail(Record(d), d)' /\ (Len(Record(d)) <= Limit)'
  <2>1. SUFFICES ASSUME NEW d \in Clients
                 PROVE  IsTail(Record(d), d)' /\ (Len(Record(d)) <= Limit)'
    OBVIOUS
  <2>2. CASE d # c
    <3>1. Record(d)' = Gate!Queue(d)
      BY <2>2, <1>4, OthersKeepTails
    <3>2. Len(Gate!Queue(d)) <= Limit /\ IsTail(Gate!Queue(d), d)
      BY QueueIsTail
    <3>3. PICK k \in 0 .. Len(log[d]) : CutAt(Gate!Queue(d), d, k)
      BY <3>2 DEF IsTail
    <3>4. k \in 0 .. Len(log'[d]) /\ CutAt(Record(d), d, k)'
      BY <3>1, <3>3, <2>2, <1>5, <1>9 DEF CutAt, Gate!Stale
    <3> QED BY <3>1, <3>2, <3>4 DEF IsTail
  <2>3. CASE d = c
    <3>1. Len(nq) = Len(log'[c]) - m
      BY <1>2, <1>8, <1>9, <1>10
    <3>2. \A i \in 1 .. Len(nq) : nq[i] = log'[c][m + i]
      <4>1. SUFFICES ASSUME NEW i \in 1 .. Len(nq) PROVE nq[i] = log'[c][m + i]
        OBVIOUS
      <4>2. CASE i = Len(q) + 1
        <5>1. m + i = L + 1
          BY <4>2, <1>2, <1>10
        <5> QED BY <5>1, <4>2, <1>8, <1>9
      <4>3. CASE i # Len(q) + 1
        <5>1. i \in 1 .. Len(q) /\ m + i \in 1 .. L
          BY SMTT(20), <4>3, <1>2, <1>8, <1>10
        <5>2. q[i] = log[c][m + i]
          BY <5>1, <1>7 DEF CutAt
        <5> QED BY <5>1, <5>2, <1>8, <1>9
      <4> QED BY <4>2, <4>3
    <3>3. \A i \in 1 .. m : log'[c][i] + Window <= now'
      BY <1>2, <1>5, <1>7, <1>9 DEF CutAt, Gate!Stale
    <3>4. CutAt(Record(c), c, m)'
      BY <3>1, <3>2, <3>3, <1>11 DEF CutAt, Gate!Stale
    <3>5. m \in 0 .. Len(log'[c])
      BY <1>2, <1>9
    <3>6. Len(nq) <= Limit
      BY <1>4, <1>8, <1>10 DEF Gate!Limits
    <3> QED BY <3>6, <3>4, <3>5, <2>3, <1>11 DEF IsTail
  <2> QED BY <2>2, <2>3
<1>15. Gate!WithinLimit'
  <2>1. SUFFICES ASSUME NEW d \in Clients, NEW i \in 1 .. Len(log'[d]),
                        i + Limit <= Len(log'[d])
                 PROVE  log'[d][i] + Window <= log'[d][i + Limit]
    BY DEF Gate!WithinLimit
  <2>2. Gate!WithinLimit
    BY DEF Inv
  <2>3. CASE d # c
    BY <2>1, <2>2, <2>3, <1>9 DEF Gate!WithinLimit
  <2>4. CASE d = c /\ i + Limit <= L
    <3>1. i \in 1 .. L /\ i + Limit \in 1 .. L
      BY <2>4, <1>2, <1>9 DEF Gate!Limits
    <3> QED BY <3>1, <2>2, <2>4, <1>9 DEF Gate!WithinLimit
  <2>5. CASE d = c /\ ~(i + Limit <= L)
    <3>1. i + Limit = L + 1
      <4>1. i + Limit <= L + 1 /\ i \in Nat
        BY <2>1, <2>5, <1>9
      <4> HIDE DEF L
      <4> QED BY <4>1, <2>5, <1>2 DEF Gate!Limits
    <3>2. L - m < Limit
      BY <1>4, <1>10
    <3>3. i \in 1 .. m /\ i \in 1 .. L
      BY <3>1, <3>2, <1>2 DEF Gate!Limits
    <3>4. log[c][i] + Window <= now
      BY <3>3, <1>7 DEF CutAt, Gate!Stale
    <3> QED BY <3>1, <3>3, <3>4, <2>5, <1>9
  <2> QED BY <2>3, <2>4, <2>5
<1>16. Gate!RefusalsAreDue'
  BY <1>5 DEF Gate!RefusalsAreDue, Gate!Allowed
<1> QED BY <1>12, <1>13, <1>14, <1>15, <1>16 DEF Inv

\* A refusal leaves a queue of exactly Limit requests, none stale: they are
\* the last of the log, and the first of them is the one to wait for.
LEMMA RefuseKeepsInv ==
  ASSUME Gate!Limits, Inv, NEW c \in Clients, Gate!Refuse(c)
  PROVE  Inv'
<1> DEFINE r == Gate!Queue(c)
           L == Len(log[c])
<1>1. /\ r \in Seq(Nat) /\ Len(r) <= Limit /\ IsTail(r, c)
  BY QueueIsTail
<1>2. Gate!TypeOK /\ now \in Nat /\ log \in [Clients -> Seq(Nat)] /\ L \in Nat
  BY DEF Inv, Gate!TypeOK
<1>3. PICK n \in 0 .. Len(r) :
        LET q == SubSeq(r, n + 1, Len(r))
        IN  /\ Gate!Evicts(r, n) /\ Len(q) >= Limit /\ Gate!Recorded(c, q)
            /\ \E retry \in 1 .. Window :
                 /\ q[1] + Window - now <= retry * Second
                 /\ answer' = Gate!Refused(c, retry)
  BY DEF Gate!Refuse
<1> DEFINE q == SubSeq(r, n + 1, Len(r))
<1>4. Gate!Evicts(r, n) /\ Len(q) >= Limit /\ Gate!Recorded(c, q)
  BY <1>3
<1>5. PICK retry \in 1 .. Window :
        q[1] + Window - now <= retry * Second /\ answer' = Gate!Refused(c, retry)
  BY <1>3
<1>6. now' = now /\ log' = log
  BY DEF Gate!Refuse
<1>7. /\ q \in Seq(Nat) /\ Len(q) = Len(r) - n /\ IsTail(q, c)
      /\ \A i \in 1 .. Len(r) - n : q[i] = r[n + i]
  <2>1. \A i \in 1 .. n : Gate!Stale(r[i])
    BY <1>4 DEF Gate!Evicts
  <2> HIDE DEF r
  <2> QED BY <2>1, <1>1, <1>2, EvictedIsTail
<1>8. PICK m \in 0 .. L : CutAt(q, c, m)
  BY <1>7 DEF IsTail
<1> HIDE DEF q, r
<1>9. /\ Len(q) = Limit /\ n = 0 /\ Len(r) = Limit
  BY <1>1, <1>4, <1>7 DEF Gate!Limits
<1>10. ~Gate!Stale(q[1])
  <2>1. ~Gate!Stale(r[1])
    BY <1>4, <1>9 DEF Gate!Evicts, Gate!Limits
  <2>2. q[1] = r[1]
    BY <1>7, <1>9 DEF Gate!Limits
  <2> QED BY <2>1, <2>2
<1>11. /\ DOMAIN records' \subseteq Clients
       /\ records' \in [DOMAIN records' -> Seq(Nat)]
       /\ Record(c)' = q
  BY <1>4, <1>7, RecordedIsTyped
<1>12. Gate!TypeOK'
  BY <1>2, <1>6, <1>11 DEF Gate!TypeOK
<1>13. \A d \in Clients : InOrder(d)'
  BY <1>6 DEF Inv, InOrder
<1>14. \A d \in Clients : IsTail(Record(d), d)' /\ (Len(Record(d)) <= Limit)'
  <2>1. SUFFICES ASSUME NEW d \in Clients
                 PROVE  IsTail(Record(d), d)' /\ (Len(Record(d)) <= Limit)'
    OBVIOUS
  <2>2. CASE d # c
    <3>1. Record(d)' = Gate!Queue(d)
      BY <2>2, <1>4, OthersKeepTails
    <3>2. Len(Gate!Queue(d)) <= Limit /\ IsTail(Gate!Queue(d), d)
      BY QueueIsTail
    <3>3. PICK k \in 0 .. Len(log[d]) : CutAt(Gate!Queue(d), d, k)
      BY <3>2 DEF IsTail
    <3>4. k \in 0 .. Len(log'[d]) /\ CutAt(Record(d), d, k)'
      BY <3>1, <3>3, <1>6 DEF CutAt, Gate!Stale
    <3> QED BY <3>1, <3>2, <3>4 DEF IsTail
  <2>3. CASE d = c
    <3>1. m \in 0 .. Len(log'[c]) /\ CutAt(Record(c), c, m)'
      BY <1>6, <1>8, <1>11 DEF CutAt, Gate!Stale
    <3>2. Len(q) <= Limit
      BY <1>9 DEF Gate!Limits
    <3> QED BY <3>1, <3>2, <2>3, <1>11 DEF IsTail
  <2> QED BY <2>2, <2>3
<1>15. Gate!WithinLimit'
  BY <1>6 DEF Inv, Gate!WithinLimit
<1>16. Gate!RefusalsAreDue'
  <2>1. answer'.client = c /\ answer'.retry = retry
    BY <1>5 DEF Gate!Refused
  <2>2. L - Limit + 1 >= 1 /\ L - Limit + 1 = m + 1
    <3>1. Limit = L - m
      BY <1>8, <1>9 DEF CutAt
    <3> QED BY <3>1, <1>2 DEF Gate!Limits
  <2>3. q[1] = log[c][m + 1]
    BY <1>8, <1>9 DEF CutAt, Gate!Limits
  <2>4. q[1] \in Nat /\ retry * Second \in Nat
    BY <1>7, <1>9 DEF Gate!Limits
  <2>5. q[1] + Window <= now + retry * Second
    BY <2>4, <1>2, <1>5 DEF Gate!Limits
  <2> QED BY <2>1, <2>2, <2>3, <2>5, <1>6, <1>10 DEF Gate!RefusalsAreDue, Gate!Stale
<1> QED BY <1>12, <1>13, <1>14, <1>15, <1>16 DEF Inv

LEMMA TickKeepsInv == ASSUME Gate!Limits, Inv, Gate!Tick PROVE Inv'
<1>1. Gate!TypeOK /\ now' = now + 1 /\ records' = records /\ log' = log
      /\ answer' = Gate!NoAnswer
  BY DEF Inv, Gate!Tick
<1>2. now \in Nat /\ now' \in Nat /\ now <= now'
  BY <1>1 DEF Gate!TypeOK
<1>3. Gate!TypeOK'
  BY <1>1, <1>2 DEF Gate!TypeOK
<1>4. \A d \in Clients : InOrder(d)'
  <2>1. SUFFICES ASSUME NEW d \in Clients PROVE InOrder(d)'
    OBVIOUS
  <2>2. InOrder(d) /\ log[d] \in Seq(Nat)
    BY <1>1 DEF Inv, Gate!TypeOK
  <2>3. \A i \in 1 .. Len(log[d]) : log[d][i] \in Nat /\ log[d][i] <= now
    BY <2>2 DEF InOrder
  <2>4. \A i \in 1 .. Len(log[d]) : log[d][i] <= now'
    BY <2>3, <1>1, <1>2
  <2> QED BY <2>2, <2>4, <1>1 DEF InOrder
<1>5. \A d \in Clients : IsTail(Record(d), d)' /\ (Len(Record(d)) <= Limit)'
  <2>1. SUFFICES ASSUME NEW d \in Clients
                 PROVE  IsTail(Record(d), d)' /\ (Len(Record(d)) <= Limit)'
    OBVIOUS
  <2>2. IsTail(Record(d), d) /\ Len(Record(d)) <= Limit
    BY DEF Inv
  <2>3. Record(d)' = Record(d)
    BY <1>1 DEF Record
  <2>4. PICK m \in 0 .. Len(log[d]) : CutAt(Record(d), d, m)
    BY <2>2 DEF IsTail
  <2>5. \A i \in 1 .. m : log[d][i] + Window <= now'
    <3>1. SUFFICES ASSUME NEW i \in 1 .. m PROVE log[d][i] + Window <= now'
      OBVIOUS
    <3>2. log[d][i] \in Nat /\ log[d][i] + Window <= now
      BY <1>1, <2>4 DEF CutAt, Gate!Stale, Gate!TypeOK
    <3> QED BY <3>2, <1>2 DEF Gate!Limits
  <2>6. CutAt(Record(d), d, m)' /\ m \in 0 .. Len(log'[d])
    BY <2>3, <2>4, <2>5, <1>1 DEF CutAt, Gate!Stale
  <2> QED BY <2>2, <2>3, <2>6 DEF IsTail
<1>6. Gate!WithinLimit'
  BY <1>1 DEF Inv, Gate!WithinLimit
<1>7. Gate!RefusalsAreDue'
  BY <1>1 DEF Gate!RefusalsAreDue, Gate!NoAnswer
<1> QED BY <1>3, <1>4, <1>5, <1>6, <1>7 DEF Inv

LEMMA InvHolds == ASSUME Gate!Limits PROVE Gate!Spec => []Inv
<1>1. Gate!Init => Inv
  BY InitInv
<1>2. Inv /\ [Gate!Next]_Gate!vars => Inv'
  <2>1. SUFFICES ASSUME Inv, [Gate!Next]_Gate!vars PROVE Inv'
    OBVIOUS
  <2>2. CASE Gate!Tick
    BY <2>1, <2>2, TickKeepsInv
  <2>3. ASSUME NEW c \in Clients, Gate!Allow(c) PROVE Inv'
    BY <2>1, <2>3, AllowKeepsInv
  <2>4. ASSUME NEW c \in Clients, Gate!Refuse(c) PROVE Inv'
    BY <2>1, <2>4, RefuseKeepsInv
  <2>5. CASE UNCHANGED Gate!vars
    <3>1. /\ now' = now /\ records' = records /\ log' = log
          /\ answer' = answer
      BY <2>5 DEF Gate!vars
    <3> USE <3>1 DEF Record, Gate!Stale
    <3>2. Gate!TypeOK'
      BY <2>1 DEF Inv, Gate!TypeOK
    <3>3. \A d \in Clients : InOrder(d)'
      BY <2>1 DEF Inv, InOrder
    <3>4. \A d \in Clients : IsTail(Record(d), d)' /\ (Len(Record(d)) <= Limit)'
      BY <2>1 DEF Inv, IsTail, CutAt
    <3>5. Gate!WithinLimit' /\ Gate!RefusalsAreDue'
      BY <2>1 DEF Inv, Gate!WithinLimit, Gate!RefusalsAreDue
    <3> QED BY <3>2, <3>3, <3>4, <3>5 DEF Inv
  <2> QED BY <2>1, <2>2, <2>3, <2>4, <2>5 DEF Gate!Next
<1> QED BY <1>1, <1>2, PTL DEF Gate!Spec

-----------------------------------------------------------------------------

\* The times on record are those of requests (the deques of _records).
THEOREM RateLimitType == ASSUME Gate!Limits PROVE Gate!Spec => []Gate!TypeOK
<1>1. Inv => Gate!TypeOK
  BY DEF Inv
<1> QED BY <1>1, InvHolds, PTL

\* No client is ever let through more than Limit times in a window, wherever
\* the window begins and whoever is dropped from the records.
THEOREM NeverTooMany == ASSUME Gate!Limits PROVE Gate!Spec => []Gate!WithinLimit
<1>1. Inv => Gate!WithinLimit
  BY DEF Inv
<1> QED BY <1>1, InvHolds, PTL

\* No client is refused below the limit, and Retry-After is long enough.
THEOREM NeverTooFew == ASSUME Gate!Limits PROVE Gate!Spec => []Gate!RefusalsAreDue
<1>1. Inv => Gate!RefusalsAreDue
  BY DEF Inv
<1> QED BY <1>1, InvHolds, PTL

-----------------------------------------------------------------------------
(* The lexicon.                                                            *)

\* The ids in the table are of glossaries with what they had before.
SameGlossaries ==
  /\ DOMAIN table' \subseteq DOMAIN table
  /\ \A i \in DOMAIN table' : table'[i].of = table[i].of

SavedNowhere(g) == \A i \in DOMAIN table : table[i].of # g

TableNeedsDirectory == ~lance => DOMAIN table = {}

WritersHaveDirectory ==
  store \/ migration.at \in {"save", "library", "chroma"} => lance

TodoIsNew == \A g \in migration.todo : SavedNowhere(g)

DoneSaving == migration.at \in {"none", "library", "chroma"} => migration.todo = {}

TableInv ==
  /\ Lex!TypeOK
  /\ TableNeedsDirectory
  /\ WritersHaveDirectory
  /\ TodoIsNew
  /\ DoneSaving
  /\ Lex!MigratedOnce

-----------------------------------------------------------------------------
(* What the calls of the store do.                                         *)

\* A saved glossary is one more row, under an id of its own.
LEMMA SaveAdds ==
  ASSUME Lex!TypeOK, NEW of \in Glossaries \cup {Import}, NEW priority \in Int,
         Lex!Save(of, priority)
  PROVE  /\ nextId' \in Nat /\ nextId' \notin DOMAIN table
         /\ DOMAIN table' = DOMAIN table \cup {nextId'}
         /\ DOMAIN table' \subseteq 1 .. nextId'
         /\ table' \in [DOMAIN table' -> Lex!Row]
         /\ table'[nextId'].of = of
         /\ \A i \in DOMAIN table : table'[i] = table[i]
<1>1. nextId \in Nat /\ DOMAIN table \subseteq 1 .. nextId
      /\ nextId' = nextId + 1
  BY DEF Lex!TypeOK, Lex!Save
<1>2. nextId' \in Nat /\ nextId' \notin DOMAIN table
  BY <1>1
<1> DEFINE New == [of |-> of, copies |-> 1, enabled |-> {TRUE},
                   priority |-> priority]
<1>3. table' = [i \in DOMAIN table \cup {nextId'} |->
                  IF i = nextId' THEN New ELSE table[i]]
  BY DEF Lex!Save
<1>4. New \in Lex!Row /\ New.of = of
  BY DEF Lex!Row
<1> HIDE DEF New
<1>5. \A i \in DOMAIN table : table[i] \in Lex!Row
  BY DEF Lex!TypeOK
<1>6. DOMAIN table' = DOMAIN table \cup {nextId'}
  BY <1>3
<1>7. DOMAIN table' \subseteq 1 .. nextId'
  BY <1>1, <1>6
<1>8. \A i \in DOMAIN table : table'[i] = table[i]
  BY <1>2, <1>3
<1>9. table'[nextId'] = New
  BY <1>3
<1>10. table' \in [DOMAIN table' -> Lex!Row]
  <2>1. \A i \in DOMAIN table' : table'[i] \in Lex!Row
    BY <1>4, <1>5, <1>6, <1>8, <1>9
  <2>2. table' = [i \in DOMAIN table' |-> table'[i]]
    BY <1>3, <1>6
  <2> QED BY <2>1, <2>2
<1> QED BY <1>2, <1>4, <1>6, <1>7, <1>8, <1>9, <1>10

\* Rows that are added again are rows of the same glossaries.
LEMMA AddedAgainType ==
  ASSUME Lex!TypeOK, NEW id, NEW value \in BOOLEAN
  PROVE  /\ DOMAIN Lex!AddedAgain(id, value) = DOMAIN table
         /\ \A i \in DOMAIN table :
              /\ Lex!AddedAgain(id, value)[i] \in Lex!Row
              /\ Lex!AddedAgain(id, value)[i].of = table[i].of
<1>1. DOMAIN Lex!AddedAgain(id, value) = DOMAIN table
  BY DEF Lex!AddedAgain
<1>2. ASSUME NEW i \in DOMAIN table
      PROVE  /\ Lex!AddedAgain(id, value)[i] \in Lex!Row
             /\ Lex!AddedAgain(id, value)[i].of = table[i].of
  <2>1. table[i] \in Lex!Row
    BY DEF Lex!TypeOK
  <2> DEFINE more == IF i = id THEN table[i].enabled \cup {value}
                               ELSE table[i].enabled
  <2>2. Lex!AddedAgain(id, value)[i] =
          [table[i] EXCEPT !.copies = 2 * table[i].copies, !.enabled = more]
    BY DEF Lex!AddedAgain
  <2>3. more \in SUBSET BOOLEAN
    BY <2>1 DEF Lex!Row
  <2> HIDE DEF more
  <2>4. 2 * table[i].copies \in Nat \ {0}
    BY <2>1 DEF Lex!Row
  <2> QED BY <2>1, <2>2, <2>3, <2>4 DEF Lex!Row
<1> QED BY <1>1, <1>2

\* What changes or deletes rows adds no glossary and leaves the rest alone.
LEMMA ChangeKeepsGlossaries ==
  ASSUME Lex!TypeOK,
         \/ \E id \in DOMAIN table :
              Lex!Delete(id) \/ \E value \in BOOLEAN : Lex!Toggle(id, value)
         \/ \E order \in Seq(DOMAIN table) : Lex!Reorder(order)
  PROVE  SameGlossaries /\ table' \in [DOMAIN table' -> Lex!Row]
         /\ UNCHANGED <<Lex!files, lance, nextId, store, migration>>
<1>1. \A i \in DOMAIN table : table[i] \in Lex!Row
  BY DEF Lex!TypeOK
<1>2. table = [i \in DOMAIN table |-> table[i]]
  BY DEF Lex!TypeOK
<1>3. ASSUME NEW id \in DOMAIN table, Lex!Delete(id)
      PROVE  SameGlossaries /\ table' \in [DOMAIN table' -> Lex!Row]
             /\ UNCHANGED <<Lex!files, lance, nextId, store, migration>>
  BY <1>1, <1>3 DEF Lex!Delete, SameGlossaries
<1>4. ASSUME NEW id \in DOMAIN table, NEW value \in BOOLEAN, Lex!Toggle(id, value)
      PROVE  SameGlossaries /\ table' \in [DOMAIN table' -> Lex!Row]
             /\ UNCHANGED <<Lex!files, lance, nextId, store, migration>>
  <2>1. UNCHANGED <<Lex!files, lance, nextId, store, migration>>
    BY <1>4 DEF Lex!Toggle
  <2>2. CASE table' = [table EXCEPT ![id].enabled = {value}]
    <3>1. DOMAIN table' = DOMAIN table
      BY <1>2, <2>2
    <3>2. \A i \in DOMAIN table : i # id => table'[i] = table[i]
      BY <1>2, <2>2
    <3>3. table'[id] = [table[id] EXCEPT !.enabled = {value}]
      BY <1>2, <2>2
    <3>4. table'[id] \in Lex!Row /\ table'[id].of = table[id].of
      BY <1>1, <3>3 DEF Lex!Row
    <3>5. table' = [i \in DOMAIN table' |-> table'[i]]
      BY <1>2, <2>2
    <3> QED BY <1>1, <2>1, <3>1, <3>2, <3>4, <3>5 DEF SameGlossaries
  <2>3. CASE table' = Lex!AddedAgain(id, value)
    <3>1. table' = [i \in DOMAIN table' |-> table'[i]]
      BY <2>3 DEF Lex!AddedAgain
    <3> QED BY <2>1, <2>3, <3>1, AddedAgainType DEF SameGlossaries
  <2>4. CASE table' = [i \in DOMAIN table \ {id} |-> Lex!AddedAgain(id, value)[i]]
    BY <2>1, <2>4, AddedAgainType DEF SameGlossaries
  <2> QED BY <1>4, <2>2, <2>3, <2>4 DEF Lex!Toggle
<1>5. ASSUME NEW order \in Seq(DOMAIN table), Lex!Reorder(order)
      PROVE  SameGlossaries /\ table' \in [DOMAIN table' -> Lex!Row]
             /\ UNCHANGED <<Lex!files, lance, nextId, store, migration>>
  <2>1. UNCHANGED <<Lex!files, lance, nextId, store, migration>>
    BY <1>5 DEF Lex!Reorder
  <2>2. PICK priority \in [DOMAIN table -> Int] :
          table' = [i \in DOMAIN table |->
                      [table[i] EXCEPT !.priority = priority[i]]]
    BY <1>5 DEF Lex!Reorder
  <2>3. \A i \in DOMAIN table : table'[i] \in Lex!Row /\ table'[i].of = table[i].of
    BY <1>1, <2>2 DEF Lex!Row
  <2> QED BY <2>1, <2>2, <2>3 DEF SameGlossaries
<1> QED BY <1>3, <1>4, <1>5

-----------------------------------------------------------------------------
(* The invariant.                                                          *)

LEMMA TableInvInit == Lex!Init => TableInv
<1> SUFFICES ASSUME Lex!Init PROVE TableInv
  OBVIOUS
<1>1. DOMAIN table = {} /\ table = [i \in DOMAIN table |-> table[i]]
      /\ nextId = 0
  BY DEF Lex!Init
<1>2. migration = Lex!NoMigration /\ store = FALSE /\ lance = FALSE
      /\ kept = FALSE /\ library \in BOOLEAN /\ chroma \in BOOLEAN
  BY DEF Lex!Init
<1>3. Lex!TypeOK
  BY <1>1, <1>2 DEF Lex!TypeOK, Lex!NoMigration
<1> QED
  BY <1>1, <1>2, <1>3
  DEF TableInv, TableNeedsDirectory, WritersHaveDirectory, TodoIsNew,
      DoneSaving, Lex!MigratedOnce, SavedNowhere, Lex!NoMigration

\* The table as it was: what moves the migration along keeps the invariant.
LEMMA TableAlone ==
  ASSUME TableInv, UNCHANGED Lex!contents, Lex!TypeOK',
         lance => lance',
         WritersHaveDirectory', DoneSaving', TodoIsNew'
  PROVE  TableInv'
BY DEF TableInv, Lex!contents, TableNeedsDirectory, Lex!MigratedOnce

LEMMA TableInvStep ==
  ASSUME Lex!NamesDiffer, TableInv, [Lex!Next]_Lex!vars
  PROVE  TableInv'
<1> USE DEF Lex!At, Lex!NoMigration
<1> DEFINE
  Where == {"none", "open", "save", "library", "chroma"}
<1>0. Lex!TypeOK
  BY DEF TableInv
<1>1. migration \in [at : Where, todo : SUBSET Glossaries]
      /\ {library, chroma, kept, lance, store} \subseteq BOOLEAN
  BY <1>0 DEF Lex!TypeOK
<1>2. CASE UNCHANGED Lex!vars
  BY <1>2
  DEF TableInv, Lex!vars, Lex!files, Lex!contents, Lex!TypeOK,
      TableNeedsDirectory, WritersHaveDirectory, TodoIsNew, DoneSaving,
      Lex!MigratedOnce, SavedNowhere
<1>3. CASE Lex!ServerOpens
  <2>1. Lex!TypeOK'
    BY <1>0, <1>3 DEF Lex!ServerOpens, Lex!TypeOK, Lex!files, Lex!contents
  <2> QED
    BY <1>3, <2>1, TableAlone
    DEF TableInv, Lex!ServerOpens, Lex!contents, WritersHaveDirectory,
        TodoIsNew, DoneSaving, SavedNowhere
<1>4. CASE Lex!ServerStops
  <2>1. Lex!TypeOK'
    BY <1>0, <1>4 DEF Lex!ServerStops, Lex!TypeOK, Lex!files, Lex!contents
  <2> QED
    BY <1>4, <2>1, TableAlone
    DEF TableInv, Lex!ServerStops, Lex!contents, WritersHaveDirectory,
        TodoIsNew, DoneSaving, SavedNowhere
<1>5. CASE Lex!ImportGlossary
  <2>1. PICK priority \in Int : Lex!Save(Import, priority)
    BY <1>5 DEF Lex!ImportGlossary
  <2>2. UNCHANGED <<Lex!files, lance, store, migration>> /\ store
    BY <1>5 DEF Lex!ImportGlossary
  <2>3. lance
    BY <2>2 DEF TableInv, WritersHaveDirectory
  <2>4. /\ nextId' \in Nat /\ nextId' \notin DOMAIN table
        /\ DOMAIN table' = DOMAIN table \cup {nextId'}
        /\ DOMAIN table' \subseteq 1 .. nextId'
        /\ table' \in [DOMAIN table' -> Lex!Row]
        /\ table'[nextId'].of = Import
        /\ \A i \in DOMAIN table : table'[i] = table[i]
    BY <1>0, <2>1, SaveAdds
  <2>5. Lex!TypeOK'
    BY <1>0, <2>2, <2>4 DEF Lex!TypeOK, Lex!files
  <2>6. Lex!MigratedOnce'
    BY <2>4 DEF TableInv, Lex!MigratedOnce
  <2>7. TodoIsNew'
    BY <1>1, <2>2, <2>4 DEF TableInv, TodoIsNew, SavedNowhere, Lex!NamesDiffer
  <2> QED
    BY <2>2, <2>3, <2>5, <2>6, <2>7
    DEF TableInv, TableNeedsDirectory, WritersHaveDirectory, DoneSaving
<1>6. CASE \/ \E id \in DOMAIN table :
                Lex!Delete(id) \/ \E value \in BOOLEAN : Lex!Toggle(id, value)
           \/ \E order \in Seq(DOMAIN table) : Lex!Reorder(order)
  <2>1. SameGlossaries /\ table' \in [DOMAIN table' -> Lex!Row]
        /\ UNCHANGED <<Lex!files, lance, nextId, store, migration>>
    BY <1>0, <1>6, ChangeKeepsGlossaries
  <2>2. Lex!TypeOK'
    BY <1>0, <2>1 DEF Lex!TypeOK, Lex!files, SameGlossaries
  <2>3. Lex!MigratedOnce'
    BY <2>1 DEF TableInv, Lex!MigratedOnce, SameGlossaries
  <2>4. TodoIsNew'
    BY <2>1 DEF TableInv, TodoIsNew, SavedNowhere, SameGlossaries
  <2> QED
    BY <2>1, <2>2, <2>3, <2>4
    DEF TableInv, TableNeedsDirectory, WritersHaveDirectory, DoneSaving,
        SameGlossaries
<1>7. CASE Lex!Begin
  <2>1. PICK readable \in SUBSET Glossaries :
          migration' = [at |-> "open", todo |-> IF library THEN readable ELSE {}]
    BY <1>7 DEF Lex!Begin
  <2>2. UNCHANGED <<Lex!files, lance, Lex!contents, store>> /\ ~(library /\ lance)
    BY <1>7 DEF Lex!Begin
  <2>3. Lex!TypeOK'
    BY <1>0, <2>1, <2>2 DEF Lex!TypeOK, Lex!files, Lex!contents
  <2>4. TodoIsNew'
    BY <2>1, <2>2
    DEF TableInv, TodoIsNew, SavedNowhere, TableNeedsDirectory, Lex!contents
  <2> QED
    BY <2>1, <2>2, <2>3, <2>4, TableAlone
    DEF TableInv, WritersHaveDirectory, DoneSaving
<1>8. CASE Lex!Open
  <2>1. /\ migration' = [at |-> "save", todo |-> migration.todo]
        /\ lance' = TRUE /\ UNCHANGED <<Lex!files, Lex!contents, store>>
    BY <1>8 DEF Lex!Open
  <2>2. Lex!TypeOK'
    BY <1>0, <1>1, <2>1 DEF Lex!TypeOK, Lex!files, Lex!contents
  <2> QED
    BY <2>1, <2>2, TableAlone
    DEF TableInv, WritersHaveDirectory, DoneSaving, TodoIsNew, SavedNowhere,
        Lex!contents
<1>9. CASE Lex!SaveNext
  <2>1. PICK g \in migration.todo, priority \in Int :
          /\ Lex!Save(g, priority)
          /\ migration' = [at |-> "save", todo |-> migration.todo \ {g}]
    BY <1>9 DEF Lex!SaveNext
  <2>2. UNCHANGED <<Lex!files, lance, store>> /\ migration.at = "save"
    BY <1>9 DEF Lex!SaveNext
  <2>3. lance
    BY <2>2 DEF TableInv, WritersHaveDirectory
  <2>4. g \in Glossaries
    BY <1>1, <2>1
  <2>5. /\ nextId' \in Nat /\ nextId' \notin DOMAIN table
        /\ DOMAIN table' = DOMAIN table \cup {nextId'}
        /\ DOMAIN table' \subseteq 1 .. nextId'
        /\ table' \in [DOMAIN table' -> Lex!Row]
        /\ table'[nextId'].of = g
        /\ \A i \in DOMAIN table : table'[i] = table[i]
    BY <1>0, <2>1, <2>4, SaveAdds
  <2>6. Lex!TypeOK'
    BY <1>0, <1>1, <2>1, <2>2, <2>5 DEF Lex!TypeOK, Lex!files
  <2>7. SavedNowhere(g)
    BY <2>1 DEF TableInv, TodoIsNew
  <2>8. Lex!MigratedOnce'
    BY <2>5, <2>7 DEF TableInv, Lex!MigratedOnce, SavedNowhere
  <2>9. TodoIsNew'
    BY <2>1, <2>5 DEF TableInv, TodoIsNew, SavedNowhere
  <2> QED
    BY <2>1, <2>2, <2>3, <2>6, <2>8, <2>9
    DEF TableInv, TableNeedsDirectory, WritersHaveDirectory, DoneSaving
<1>10. CASE Lex!AllSaved
  <2>1. /\ migration' = [at |-> "library", todo |-> {}] /\ migration.at = "save"
        /\ UNCHANGED <<Lex!files, lance, Lex!contents, store>>
    BY <1>10 DEF Lex!AllSaved
  <2>2. Lex!TypeOK'
    BY <1>0, <2>1 DEF Lex!TypeOK, Lex!files, Lex!contents
  <2> QED
    BY <2>1, <2>2, TableAlone
    DEF TableInv, WritersHaveDirectory, DoneSaving, TodoIsNew
<1>11. CASE Lex!MoveLibrary
  <2>1. /\ migration' = [at |-> "chroma", todo |-> {}]
        /\ migration.at = "library"
        /\ library' = FALSE /\ kept' = (kept \/ library)
        /\ UNCHANGED <<chroma, lance, Lex!contents, store>>
    BY <1>11 DEF Lex!MoveLibrary
  <2>2. Lex!TypeOK'
    BY <1>0, <1>1, <2>1 DEF Lex!TypeOK, Lex!contents
  <2> QED
    BY <2>1, <2>2, TableAlone
    DEF TableInv, WritersHaveDirectory, DoneSaving, TodoIsNew
<1>12. CASE Lex!MoveChroma
  <2>1. /\ migration' = [at |-> "none", todo |-> {}] /\ chroma' = FALSE
        /\ UNCHANGED <<library, kept, lance, Lex!contents, store>>
    BY <1>12 DEF Lex!MoveChroma
  <2>2. Lex!TypeOK'
    BY <1>0, <2>1 DEF Lex!TypeOK, Lex!contents
  <2> QED
    BY <2>1, <2>2, TableAlone
    DEF TableInv, WritersHaveDirectory, DoneSaving, TodoIsNew
<1>13. CASE Lex!Abandon
  <2>1. /\ migration' = [at |-> "none", todo |-> {}]
        /\ UNCHANGED <<Lex!files, lance, Lex!contents, store>>
    BY <1>13 DEF Lex!Abandon
  <2>2. Lex!TypeOK'
    BY <1>0, <2>1 DEF Lex!TypeOK, Lex!files, Lex!contents
  <2> QED
    BY <2>1, <2>2, TableAlone
    DEF TableInv, WritersHaveDirectory, DoneSaving, TodoIsNew
<1> QED
  BY <1>2, <1>3, <1>4, <1>5, <1>6, <1>7, <1>8, <1>9, <1>10, <1>11, <1>12, <1>13
  DEF Lex!Next, Lex!Server, Lex!Migrate

\* The invariant holds in every reachable state.
THEOREM LexiconInv == ASSUME Lex!NamesDiffer PROVE Lex!Spec => []TableInv
<1>1. TableInv /\ [Lex!Next]_Lex!vars => TableInv'
  BY TableInvStep
<1> QED BY <1>1, TableInvInit, PTL DEF Lex!Spec

\* Whatever the server and the migrations do and however they fail, the table,
\* the ids and the migration's state are of their types.
THEOREM LexiconType == ASSUME Lex!NamesDiffer PROVE Lex!Spec => []Lex!TypeOK
<1>1. TableInv => Lex!TypeOK
  BY DEF TableInv
<1> QED BY <1>1, LexiconInv, PTL

\* However often the migration is run, fails or is killed, no glossary of the
\* library is in the table under two ids.
THEOREM NoDuplicates == ASSUME Lex!NamesDiffer PROVE Lex!Spec => []Lex!MigratedOnce
<1>1. TableInv => Lex!MigratedOnce
  BY DEF TableInv
<1> QED BY <1>1, LexiconInv, PTL

\* The library is moved away only when the migration has saved all it could
\* read, and only into a backup.
THEOREM MovedAfterSave == ASSUME Lex!NamesDiffer PROVE Lex!Spec => Lex!MovedWhenSaved
<1>1. ASSUME TableInv, [Lex!Next]_Lex!vars, library, ~library'
      PROVE  kept' /\ migration.todo = {} /\ lance
  <2>1. Lex!MoveLibrary
    <3>1. CASE Lex!MoveLibrary
      BY <3>1
    <3>2. CASE library' = library
      BY <1>1, <3>2
    <3>3. \/ Lex!MoveLibrary
          \/ library' = library
      BY <1>1
      DEF Lex!Next, Lex!Server, Lex!Migrate, Lex!vars, Lex!files,
          Lex!ServerOpens, Lex!ServerStops, Lex!ImportGlossary, Lex!Toggle,
          Lex!Reorder, Lex!Delete, Lex!Begin, Lex!Open, Lex!SaveNext,
          Lex!AllSaved, Lex!MoveChroma, Lex!Abandon
    <3> QED BY <3>1, <3>2, <3>3
  <2>2. migration.at = "library" /\ kept' = (kept \/ library)
    BY <2>1 DEF Lex!MoveLibrary
  <2> QED
    BY <1>1, <2>2 DEF TableInv, WritersHaveDirectory, DoneSaving
<1>2. TableInv /\ [Lex!Next]_Lex!vars =>
        [library /\ ~library' => kept' /\ migration.todo = {} /\ lance]_Lex!vars
  BY <1>1
<1> QED BY <1>2, LexiconInv, PTL DEF Lex!Spec, Lex!MovedWhenSaved

\* A migration that left the library in its place with a directory beside it,
\* or came after the server's first use of the lexicon, is never made up for:
\* no later run moves or saves anything.
THEOREM NoSecondChance == Lex!Spec => Lex!StuckForEver
<1>1. ASSUME Lex!Stuck, Lex!Next PROVE Lex!Stuck'
  <2>1. library /\ lance /\ migration = Lex!NoMigration /\ migration.at = "none"
    BY <1>1 DEF Lex!Stuck, Lex!NoMigration
  <2>2. \/ Lex!Server
        \/ Lex!Migrate
    BY <1>1 DEF Lex!Next
  <2>3. CASE Lex!Server
    BY <2>1, <2>3
    DEF Lex!Server, Lex!ServerOpens, Lex!ServerStops, Lex!ImportGlossary,
        Lex!Toggle, Lex!Reorder, Lex!Delete, Lex!Stuck, Lex!files
  <2>4. CASE Lex!Migrate
    BY <2>1, <2>4
    DEF Lex!Migrate, Lex!Begin, Lex!Open, Lex!SaveNext, Lex!AllSaved,
        Lex!MoveLibrary, Lex!MoveChroma, Lex!Abandon
  <2> QED BY <2>2, <2>3, <2>4
<1>2. [Lex!Next]_Lex!vars => [Lex!Stuck => Lex!Stuck']_Lex!vars
  BY <1>1
<1> QED BY <1>2, PTL DEF Lex!Spec, Lex!StuckForEver
=============================================================================
