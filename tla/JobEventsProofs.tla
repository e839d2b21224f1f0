--------------------------- MODULE JobEventsProofs ---------------------------
(***************************************************************************)
(* Theorems about JobEvents, for any jobs, streams, buffer sizes and       *)
(* bounds.                                                                 *)
(***************************************************************************)
EXTENDS JobEvents, SequenceTheorems, TLAPS

EventKinds == Life!Kinds \cup {Progress}
Flags == {"none", "clear", "set"}
Serving == {"opened", "sending", "waiting", "woken", "pinged"}

StreamType == [pc : Stages, job : Jobs \cup {NoJob}, cursor : Nat,
               backlog : Seq(Nat), event : {"current", "popped"}]

\* TypeOK is not inductive: a generator that sends has something to send, and
\* one that runs has a job.
TypeInv ==
  /\ TypeOK
  /\ \A c \in Clients :
       /\ streams[c].pc = "sending"
            => streams[c].cursor < Len(streams[c].backlog)
       /\ streams[c].pc \in Serving => streams[c].job \in Jobs

-----------------------------------------------------------------------------
(* Sequences.                                                              *)

LEMMA TailElements ==
  ASSUME NEW S, NEW q \in Seq(S), q # <<>>
  PROVE  /\ Tail(q) \in Seq(S)
         /\ Head(q) \in S
         /\ Len(Tail(q)) = Len(q) - 1
         /\ \A i \in DOMAIN Tail(q) :
              i + 1 \in DOMAIN q /\ Tail(q)[i] = q[i + 1]
  BY HeadTailProperties, LenProperties

LEMMA AppendElements ==
  ASSUME NEW S, NEW q \in Seq(S), NEW x \in S
  PROVE  /\ Append(q, x) \in Seq(S)
         /\ Append(q, x) # <<>>
         /\ Len(Append(q, x)) = Len(q) + 1
         /\ DOMAIN Append(q, x) = DOMAIN q \cup {Len(q) + 1}
         /\ Append(q, x)[Len(q) + 1] = x
         /\ \A i \in DOMAIN q : Append(q, x)[i] = q[i]
  BY AppendProperties, LenProperties, EmptySeq

\* The deque: what is pushed is the end of the old buffer and the new entry.
LEMMA PushType ==
  ASSUME NEW b \in Seq(Nat), NEW e \in Nat
  PROVE  /\ Push(b, e) \in Seq(Nat)
         /\ Len(b) <= BufCap => /\ Push(b, e) # <<>>
                                /\ Len(Push(b, e)) <= BufCap
  <1> DEFINE a == Append(b, e)
  <1>1. a \in Seq(Nat) /\ Len(a) = Len(b) + 1 /\ a # <<>> /\ Len(b) \in Nat
    BY AppendElements, LenProperties
  <1>2. Tail(a) \in Seq(Nat) /\ Len(Tail(a)) = Len(b)
    BY <1>1, TailElements
  <1>3. Push(b, e) = IF Len(a) > BufCap THEN Tail(a) ELSE a
    BY DEF Push
  <1> HIDE DEF a
  <1>4. CASE Len(a) > BufCap
    <2>1. Len(Tail(a)) # 0  BY SMTT(30), <1>1, <1>2, <1>4, JobEventsAssumption
    <2> QED BY <1>1, <1>2, <1>3, <1>4, <2>1, EmptySeq
  <1>5. CASE ~(Len(a) > BufCap)
    BY <1>1, <1>3, <1>5, JobEventsAssumption
  <1> QED BY <1>4, <1>5

-----------------------------------------------------------------------------
(* What the parts of a step do to a stream.                                *)

\* Where the generator suspends: it goes on with the backlog it has, or with
\* the buffer as it is now.
LEMMA StopFacts ==
  ASSUME NEW j, NEW cursor, NEW seen, NEW flag \in Flags,
         NEW r, r = NextStop(j, cursor, seen, flag)
  PROVE  /\ r.pc \in {"sending", "closed", "waiting"}
         /\ r.cursor = cursor
         /\ r.backlog \in {seen, buffers[j]}
         /\ r.pc = "sending" => cursor < Len(r.backlog)
         /\ r.flag \in Flags
  BY DEF NextStop, Flags

LEMMA RunToFacts ==
  ASSUME TypeInv, NEW c \in Clients, NEW cursor, NEW seen, NEW flag \in Flags,
         streams[c].job \in Jobs,
         RunTo(c, NextStop(streams[c].job, cursor, seen, flag))
  PROVE  /\ \E pc \in {"sending", "closed", "waiting"},
               backlog \in {<<>>, seen, buffers[streams[c].job]} :
              /\ streams' = [streams EXCEPT ![c] =
                               [pc |-> pc, job |-> streams[c].job,
                                cursor |-> cursor, backlog |-> backlog,
                                event |-> "current"]]
              /\ pc = "sending" => cursor < Len(backlog)
         /\ notify' \in [Jobs -> Flags]
  <1> DEFINE r == NextStop(streams[c].job, cursor, seen, flag)
  <1>1. /\ r.pc \in {"sending", "closed", "waiting"}
        /\ r.cursor = cursor
        /\ r.backlog \in {seen, buffers[streams[c].job]}
        /\ r.pc = "sending" => cursor < Len(r.backlog)
        /\ r.flag \in Flags
    BY StopFacts
  <1>2. /\ streams' = [streams EXCEPT ![c] =
             [pc |-> r.pc, job |-> streams[c].job, cursor |-> r.cursor,
              backlog |-> IF r.pc = "sending" THEN r.backlog ELSE <<>>,
              event |-> "current"]]
        /\ notify' = [notify EXCEPT ![streams[c].job] = r.flag]
    BY DEF RunTo, TypeInv, TypeOK
  <1> HIDE DEF r
  <1>3. notify' \in [Jobs -> Flags]
    BY <1>1, <1>2 DEF TypeInv, TypeOK, Flags
  <1>4. CASE r.pc = "sending"
    BY <1>1, <1>2, <1>3, <1>4
  <1>5. CASE r.pc # "sending"
    BY <1>1, <1>2, <1>3, <1>5
  <1> QED BY <1>4, <1>5

\* An event wakes streams and takes their Event away; it moves no cursor and
\* touches no backlog.
LEMMA NotifiedFacts ==
  ASSUME TypeInv, NEW j, NEW gone, streams' = Notified(j, gone)
  PROVE  /\ streams' \in [Clients -> StreamType]
         /\ \A c \in Clients :
              /\ streams'[c].job = streams[c].job
              /\ streams'[c].cursor = streams[c].cursor
              /\ streams'[c].backlog = streams[c].backlog
              /\ \/ streams'[c].pc = streams[c].pc
                 \/ streams[c].pc = "waiting" /\ streams'[c].pc = "woken"
  <1>1. ASSUME NEW c \in Clients
        PROVE  /\ streams'[c] \in StreamType
               /\ streams'[c].job = streams[c].job
               /\ streams'[c].cursor = streams[c].cursor
               /\ streams'[c].backlog = streams[c].backlog
               /\ \/ streams'[c].pc = streams[c].pc
                  \/ streams[c].pc = "waiting" /\ streams'[c].pc = "woken"
    <2>1. streams[c] \in StreamType  BY DEF TypeInv, TypeOK, StreamType
    <2>2. \/ streams'[c] = [streams[c] EXCEPT !.pc = "woken"]
             /\ streams[c].pc = "waiting"
          \/ streams'[c] = [streams[c] EXCEPT !.event = "popped"]
          \/ streams'[c] = streams[c]
      BY DEF Notified
    <2> QED BY <2>1, <2>2 DEF StreamType, Stages
  <1>2. streams' = [c \in Clients |-> streams'[c]]  BY DEF Notified
  <1> QED BY <1>1, <1>2

-----------------------------------------------------------------------------
(* Types.                                                                  *)

LEMMA RunToType ==
  ASSUME TypeInv, NEW c \in Clients, NEW cursor \in Nat, NEW seen \in Seq(Nat),
         NEW flag \in Flags, streams[c].job \in Jobs,
         RunTo(c, NextStop(streams[c].job, cursor, seen, flag)),
         received' \in [Clients -> Seq(Nat)]
  PROVE  TypeInv'
  <1> DEFINE job == streams[c].job
  <1>1. PICK pc \in {"sending", "closed", "waiting"},
             backlog \in {<<>>, seen, buffers[job]} :
          /\ streams' = [streams EXCEPT ![c] =
                           [pc |-> pc, job |-> job, cursor |-> cursor,
                            backlog |-> backlog, event |-> "current"]]
          /\ pc = "sending" => cursor < Len(backlog)
    BY RunToFacts
  <1>2. notify' \in [Jobs -> Flags]  BY RunToFacts
  <1>3. backlog \in Seq(Nat)
    <2>1. buffers[job] \in Seq(Nat)  BY DEF TypeInv, TypeOK
    <2>2. <<>> \in Seq(Nat)  OBVIOUS
    <2> QED BY <2>1, <2>2
  <1>4. [pc |-> pc, job |-> job, cursor |-> cursor, backlog |-> backlog,
         event |-> "current"] \in StreamType
    BY <1>1, <1>3 DEF StreamType, Stages
  <1>5. streams' \in [Clients -> StreamType]
    BY <1>1, <1>4 DEF TypeInv, TypeOK, StreamType
  <1>6. \A d \in Clients : \/ streams'[d] = streams[d]
                           \/ /\ streams'[d].job = job
                              /\ streams'[d].pc = "sending"
                                   => streams'[d].cursor
                                        < Len(streams'[d].backlog)
    BY <1>1 DEF TypeInv, TypeOK
  <1>7. TypeOK'
    BY <1>2, <1>5 DEF TypeInv, TypeOK, RunTo, jobs, StreamType, Flags
  <1> QED BY <1>6, <1>7 DEF TypeInv

LEMMA RecordType ==
  ASSUME TypeInv, NEW j \in Jobs, NEW kind \in EventKinds, Record(j, kind),
         rows' \subseteq Jobs, erased' \subseteq Jobs
  PROVE  TypeInv'
  <1> DEFINE ks == IF Contains(keys, j) THEN keys ELSE Append(keys, j)
             pruned == Prune(ks, IF kind \in Terminal THEN done \cup {j} ELSE done)
  <1>1. log' \in [Jobs -> Seq(EventKinds)]
    <2>1. log[j] \in Seq(EventKinds)  BY DEF TypeInv, TypeOK, EventKinds
    <2>2. Append(log[j], kind) \in Seq(EventKinds)  BY <2>1, AppendElements
    <2> QED BY <2>2 DEF TypeInv, TypeOK, EventKinds, Record
  <1>2. ks \in Seq(Jobs)
    BY AppendElements DEF TypeInv, TypeOK
  <1>3. Len(ks) > MaxBuffered => ks # <<>>
    BY EmptySeq, JobEventsAssumption
  <1>4. /\ pruned.jobs \in Seq(Jobs)
        /\ pruned.done \subseteq Jobs
    <2> HIDE DEF ks
    <2> QED BY <1>2, <1>3, TailElements DEF Prune, TypeInv, TypeOK
  <1>5. Push(buffers[j], Len(log[j]) + 1) \in Seq(Nat)
    <2>1. Len(log[j]) \in Nat  BY LenProperties DEF TypeInv, TypeOK
    <2> QED BY <2>1, PushType DEF TypeInv, TypeOK
  <1>6. buffers' \in [Jobs -> Seq(Nat)]
    BY <1>5, EmptySeq DEF TypeInv, TypeOK, Record
  <1>7. /\ keys' = pruned.jobs /\ done' = pruned.done
        /\ dropped' \subseteq dropped \cup pruned.gone \cup {j}
    BY DEF Record
  <1>8. pruned.gone \subseteq Jobs
    <2> HIDE DEF ks
    <2> QED BY <1>2, <1>3, TailElements DEF Prune
  <1>9. notify' \in [Jobs -> Flags]
    BY DEF TypeInv, TypeOK, Record, Flags
  <1>10. streams' = Notified(j, pruned.gone)
    BY DEF Record
  <1> HIDE DEF pruned, ks
  <1>11. /\ streams' \in [Clients -> StreamType]
         /\ \A c \in Clients :
              /\ streams'[c].job = streams[c].job
              /\ streams'[c].cursor = streams[c].cursor
              /\ streams'[c].backlog = streams[c].backlog
              /\ \/ streams'[c].pc = streams[c].pc
                 \/ streams[c].pc = "waiting" /\ streams'[c].pc = "woken"
    BY <1>10, NotifiedFacts
  <1>12. TypeOK'
    BY ZenonT(30), <1>1, <1>4, <1>6, <1>7, <1>8, <1>9, <1>11
    DEF TypeInv, TypeOK, Record, StreamType, EventKinds, Flags
  <1>13. \A c \in Clients :
           /\ streams[c].pc = "sending"
                => streams[c].cursor < Len(streams[c].backlog)
           /\ streams[c].pc \in Serving => streams[c].job \in Jobs
    BY DEF TypeInv
  <1> QED BY <1>11, <1>12, <1>13 DEF TypeInv, Serving

\* The types and what they need: no interleaving makes a generator send what
\* its backlog does not hold, or run without a job.
THEOREM EventsTyped == Spec => []TypeInv
<1>1. Init => TypeInv
  BY EmptySeq DEF Init, TypeInv, TypeOK, Off, Fresh, Stages, Serving
<1>2. TypeInv /\ [Next]_vars => TypeInv'
  <2> SUFFICES ASSUME TypeInv, [Next]_vars PROVE TypeInv'
    OBVIOUS
  <2>1. ASSUME NEW j \in Jobs, NEW kind \in Life!Kinds, JobEvent(j, kind)
        PROVE  TypeInv'
    BY <2>1, RecordType DEF JobEvent, EventKinds, TypeInv, TypeOK
  <2>2. ASSUME NEW j \in Jobs, Frame(j) PROVE TypeInv'
    BY <2>2, RecordType DEF Frame, EventKinds, TypeInv, TypeOK
  <2>3. CASE Clear
    BY <2>3 DEF Clear, TypeInv, TypeOK, service, clients
  <2>4. ASSUME NEW c \in Clients, NEW j \in Jobs, Open(c, j) PROVE TypeInv'
    <3>1. PICK pc \in {"opened", "refused"} :
            streams' = [streams EXCEPT ![c] = Fresh(pc, j)]
      <4>1. IF j \in rows \/ buffers[j] # <<>>
              THEN streams' = [streams EXCEPT ![c] = Fresh("opened", j)]
              ELSE streams' = [streams EXCEPT ![c] = Fresh("refused", j)]
        BY <2>4, Zenon DEF Open
      <4> QED BY <4>1 DEF Fresh
    <3>2. Len(log[j]) \in Nat  BY LenProperties DEF TypeInv, TypeOK
    <3>3. opened' \in [Clients -> Nat]
      BY <2>4, <3>2 DEF Open, TypeInv, TypeOK
    <3>4. streams' \in [Clients -> StreamType]
      BY <3>1, EmptySeq DEF Fresh, TypeInv, TypeOK, StreamType, Stages
    <3>5. TypeOK'
      BY <2>4, <3>3, <3>4 DEF Open, TypeInv, TypeOK, StreamType, jobs, service
    <3> QED BY <3>1, <3>5 DEF Fresh, TypeInv, TypeOK, Serving
  <2>5. ASSUME NEW c \in Clients, Read(c) PROVE TypeInv'
    BY <2>5, RunToType DEF Read, TypeInv, TypeOK, Serving, Flags
  <2>6. ASSUME NEW c \in Clients, Send(c) PROVE TypeInv'
    <3> DEFINE s == streams[c]
    <3>1. /\ s.pc = "sending" /\ s.job \in Jobs
          /\ s.cursor \in Nat /\ s.backlog \in Seq(Nat)
          /\ s.cursor < Len(s.backlog)
          /\ notify[s.job] \in Flags
      BY <2>6 DEF Send, TypeInv, TypeOK, Serving, Flags
    <3>2. s.backlog[s.cursor + 1] \in Nat  BY <3>1, LenProperties
    <3>3. Append(received[c], s.backlog[s.cursor + 1]) \in Seq(Nat)
      BY <3>2, AppendElements DEF TypeInv, TypeOK
    <3>4. received' \in [Clients -> Seq(Nat)]
      BY <2>6, <3>3 DEF Send, TypeInv, TypeOK
    <3>5. RunTo(c, NextStop(s.job, s.cursor + 1, s.backlog, notify[s.job]))
      BY <2>6 DEF Send
    <3> HIDE DEF s
    <3>6. s.cursor + 1 \in Nat  BY <3>1
    <3> QED BY <3>1, <3>4, <3>5, <3>6, RunToType DEF s
  <2>7. ASSUME NEW c \in Clients, Wake(c) PROVE TypeInv'
    <3> DEFINE s == streams[c]
               flag == IF s.event = "current" THEN "clear" ELSE notify[s.job]
    <3>1. /\ s.job \in Jobs /\ s.cursor \in Nat
          /\ buffers[s.job] \in Seq(Nat)
          /\ flag \in Flags
      BY <2>7 DEF Wake, TypeInv, TypeOK, Serving, Flags
    <3>2. /\ RunTo(c, NextStop(s.job, s.cursor, buffers[s.job], flag))
          /\ received' \in [Clients -> Seq(Nat)]
      BY <2>7 DEF Wake, TypeInv, TypeOK
    <3> HIDE DEF flag
    <3> QED BY <3>1, <3>2, RunToType
  <2>8. ASSUME NEW c \in Clients, KeepAlive(c) PROVE TypeInv'
    <3>0. streams[c] \in StreamType
      BY DEF TypeInv, TypeOK, StreamType
    <3>1. streams' \in [Clients -> StreamType]
      <4>1. [streams[c] EXCEPT !.pc = "pinged"] \in StreamType
        BY <3>0 DEF StreamType, Stages
      <4>2. streams' = [streams EXCEPT ![c] =
                          [streams[c] EXCEPT !.pc = "pinged"]]
        BY <2>8 DEF KeepAlive
      <4> QED BY <4>1, <4>2 DEF TypeInv, TypeOK, StreamType
    <3>2. \A d \in Clients : streams'[d] = streams[d] \/ d = c
      BY <2>8 DEF KeepAlive, TypeInv, TypeOK
    <3>3. streams'[c].pc = "pinged" /\ streams'[c].job \in Jobs
      BY <2>8 DEF KeepAlive, TypeInv, TypeOK, Serving
    <3>4. TypeOK'
      BY <2>8, <3>1 DEF KeepAlive, TypeInv, TypeOK, StreamType, jobs, service
    <3> QED BY <3>2, <3>3, <3>4 DEF TypeInv
  <2>9. ASSUME NEW c \in Clients, Disconnect(c) PROVE TypeInv'
    <3>1. /\ streams' = [streams EXCEPT ![c] = Fresh("left", streams[c].job)]
          /\ received' \in [Clients -> Seq(Nat)]
          /\ opened' \in [Clients -> Nat]
      BY <2>9, EmptySeq DEF Disconnect, TypeInv, TypeOK
    <3>2. streams' \in [Clients -> StreamType]
      BY <3>1, EmptySeq DEF Fresh, TypeInv, TypeOK, StreamType, Stages
    <3>3. TypeOK'
      BY <2>9, <3>1, <3>2
      DEF Disconnect, TypeInv, TypeOK, StreamType, jobs, service
    <3> QED BY <3>1, <3>3 DEF Fresh, TypeInv, TypeOK, Serving
  <2>10. CASE UNCHANGED vars
    BY <2>10 DEF vars, jobs, service, clients, TypeInv, TypeOK
  <2> QED
    BY <2>1, <2>2, <2>3, <2>4, <2>5, <2>6, <2>7, <2>8, <2>9, <2>10
    DEF Next, Stream
<1> QED BY <1>1, <1>2, PTL DEF Spec

\* The buffers, the generators' locals and the wake-ups keep their types.
THEOREM EventsType == Spec => []TypeOK
<1>1. TypeInv => TypeOK
  BY DEF TypeInv
<1> QED BY <1>1, EventsTyped, PTL

-----------------------------------------------------------------------------
(* The bookkeeping stays within its bounds.                                *)

\* What an eviction leaves: the order of the jobs without its oldest.
LEMMA PruneFacts ==
  ASSUME NEW ks \in Seq(Jobs), IsInjective(ks), Len(ks) <= MaxBuffered + 1,
         NEW ds \in SUBSET Jobs, ds \subseteq ToSet(ks),
         NEW p, p = Prune(ks, ds)
  PROVE  /\ p.jobs \in Seq(Jobs)
         /\ Len(p.jobs) <= MaxBuffered
         /\ IsInjective(p.jobs)
         /\ p.gone \subseteq ToSet(ks)
         /\ ToSet(p.jobs) = ToSet(ks) \ p.gone
         /\ p.done \subseteq ToSet(p.jobs)
  <1>1. CASE Len(ks) > MaxBuffered
    <2>1. ks # <<>> /\ Len(ks) \in Nat
      BY <1>1, EmptySeq, LenProperties, JobEventsAssumption
    <2>2. /\ Tail(ks) \in Seq(Jobs)
          /\ Len(Tail(ks)) = Len(ks) - 1
          /\ \A i \in DOMAIN Tail(ks) :
               i + 1 \in DOMAIN ks /\ Tail(ks)[i] = ks[i + 1]
      BY <2>1, TailElements
    <2>3. /\ DOMAIN ks = 1 .. Len(ks)
          /\ DOMAIN Tail(ks) = 1 .. Len(ks) - 1
      BY <2>2, LenProperties
    <2>4. Head(ks) = ks[1] /\ 1 \in DOMAIN ks
      BY <2>1, <2>3, EmptySeq
    <2>5. IsInjective(Tail(ks))
      BY <2>2, <2>3 DEF IsInjective
    <2>6. ToSet(Tail(ks)) = ToSet(ks) \ {Head(ks)}
      <3>1. ASSUME NEW x \in ToSet(Tail(ks))
            PROVE  x \in ToSet(ks) /\ x # Head(ks)
        <4>1. PICK i \in DOMAIN Tail(ks) : x = Tail(ks)[i]
          BY <3>1 DEF ToSet
        <4>2. i + 1 \in DOMAIN ks /\ i + 1 # 1 /\ x = ks[i + 1]
          BY <2>2, <2>3, <4>1
        <4> QED BY <2>4, <4>2 DEF ToSet, IsInjective
      <3>2. ASSUME NEW x \in ToSet(ks), x # Head(ks)
            PROVE  x \in ToSet(Tail(ks))
        <4>1. PICK i \in DOMAIN ks : x = ks[i]
          BY <3>2 DEF ToSet
        <4>2. i - 1 \in DOMAIN Tail(ks) /\ Tail(ks)[i - 1] = ks[(i - 1) + 1]
          BY <2>2, <2>3, <2>4, <3>2, <4>1
        <4>3. (i - 1) + 1 = i  BY <2>3
        <4> QED BY <4>1, <4>2, <4>3 DEF ToSet
      <3> QED BY <3>1, <3>2
    <2>7. /\ p.jobs = Tail(ks) /\ p.gone = {Head(ks)}
          /\ p.done \subseteq ds \ {Head(ks)} \/ p.done \subseteq ToSet(Tail(ks))
      BY <1>1 DEF Prune
    <2>8. Head(ks) \in ToSet(ks)  BY <2>4 DEF ToSet
    <2> QED BY <2>1, <2>2, <2>5, <2>6, <2>7, <2>8, JobEventsAssumption
  <1>2. CASE ~(Len(ks) > MaxBuffered)
    <2>1. /\ p.jobs = ks /\ p.gone = {}
          /\ p.done \subseteq ds
      BY <1>2 DEF Prune
    <2>2. Len(ks) \in Nat  BY LenProperties
    <2> QED BY <1>2, <2>1, <2>2, JobEventsAssumption
  <1> QED BY <1>1, <1>2

LEMMA RecordBounded ==
  ASSUME TypeInv, BoundedBuffers, NEW j \in Jobs, NEW kind, Record(j, kind)
  PROVE  BoundedBuffers'
  <1> DEFINE ks == IF Contains(keys, j) THEN keys ELSE Append(keys, j)
             ds == IF kind \in Terminal THEN done \cup {j} ELSE done
             p == Prune(ks, ds)
  <1>1. /\ keys \in Seq(Jobs) /\ IsInjective(keys) /\ Len(keys) <= MaxBuffered
        /\ Len(keys) \in Nat /\ DOMAIN keys = 1 .. Len(keys)
        /\ done \subseteq ToSet(keys)
    BY LenProperties DEF TypeInv, TypeOK, BoundedBuffers
  <1>2. /\ ks \in Seq(Jobs) /\ IsInjective(ks)
        /\ Len(ks) <= MaxBuffered + 1
        /\ ToSet(ks) = ToSet(keys) \cup {j}
    <2>1. CASE Contains(keys, j)
      <3>1. j \in ToSet(keys)  BY <1>1, <2>1 DEF Contains, ToSet
      <3> QED BY <1>1, <2>1, <3>1, JobEventsAssumption
    <2>2. CASE ~Contains(keys, j)
      <3>1. /\ ks = Append(keys, j)
            /\ ks \in Seq(Jobs)
            /\ Len(ks) = Len(keys) + 1
            /\ DOMAIN ks = DOMAIN keys \cup {Len(keys) + 1}
            /\ ks[Len(keys) + 1] = j
            /\ \A i \in DOMAIN keys : ks[i] = keys[i]
        BY <1>1, <2>2, AppendElements
      <3>2. \A i \in DOMAIN keys : keys[i] # j
        BY <1>1, <2>2 DEF Contains
      <3> HIDE DEF ks
      <3>3. IsInjective(ks)
        BY <1>1, <3>1, <3>2 DEF IsInjective
      <3>4. ToSet(ks) = ToSet(keys) \cup {j}
        BY <1>1, <3>1 DEF ToSet
      <3> QED BY <1>1, <3>1, <3>3, <3>4, JobEventsAssumption
    <2> QED BY <2>1, <2>2
  <1>3. ds \in SUBSET Jobs /\ ds \subseteq ToSet(ks)
    <2>1. ds \subseteq done \cup {j}  OBVIOUS
    <2> HIDE DEF ds, ks
    <2> QED BY <1>1, <1>2, <2>1 DEF TypeInv, TypeOK
  <1>4. /\ keys' = p.jobs /\ done' = p.done
        /\ buffers' = [i \in Jobs |->
                         IF i \in p.gone THEN <<>>
                         ELSE IF i = j THEN Push(buffers[j], Len(log[j]) + 1)
                         ELSE buffers[i]]
    BY DEF Record
  <1> HIDE DEF p, ks, ds
  <1>5. /\ p.jobs \in Seq(Jobs)
        /\ Len(p.jobs) <= MaxBuffered
        /\ IsInjective(p.jobs)
        /\ p.gone \subseteq ToSet(ks)
        /\ ToSet(p.jobs) = ToSet(ks) \ p.gone
        /\ p.done \subseteq ToSet(p.jobs)
    BY <1>2, <1>3, PruneFacts DEF p
  <1>6. /\ Push(buffers[j], Len(log[j]) + 1) # <<>>
        /\ Len(Push(buffers[j], Len(log[j]) + 1)) <= BufCap
    <2>1. Len(log[j]) \in Nat  BY LenProperties DEF TypeInv, TypeOK
    <2>2. Len(log[j]) + 1 \in Nat  BY <2>1
    <2> QED BY <2>2, PushType DEF TypeInv, TypeOK, BoundedBuffers
  <1>7. ASSUME NEW q \in Seq(Jobs), NEW i PROVE Contains(q, i) <=> i \in ToSet(q)
    BY LenProperties DEF Contains, ToSet
  <1>8. ASSUME NEW i \in Jobs
        PROVE  /\ Len(buffers'[i]) <= BufCap
               /\ buffers'[i] # <<>> <=> i \in ToSet(p.jobs)
    <2>1. /\ Len(buffers[i]) <= BufCap
          /\ buffers[i] # <<>> <=> i \in ToSet(keys)
      BY <1>1, <1>7 DEF BoundedBuffers
    <2>2. Len(<<>>) <= BufCap  BY EmptySeq, JobEventsAssumption
    <2> QED BY <1>2, <1>4, <1>5, <1>6, <2>1, <2>2
  <1> QED BY <1>4, <1>5, <1>7, <1>8 DEF BoundedBuffers

\* The bookkeeping of any number of jobs stays within the code's limits and
\* agrees with itself: eviction removes a job from all of it.
THEOREM BuffersBounded == Spec => []BoundedBuffers
<1>1. Init => BoundedBuffers
  BY EmptySeq, JobEventsAssumption
  DEF Init, BoundedBuffers, IsInjective, ToSet, Contains
<1>2. TypeInv /\ BoundedBuffers /\ [Next]_vars => BoundedBuffers'
  <2> SUFFICES ASSUME TypeInv, BoundedBuffers, [Next]_vars
               PROVE  BoundedBuffers'
    OBVIOUS
  <2>1. ASSUME UNCHANGED <<keys, done, buffers>> PROVE BoundedBuffers'
    BY <2>1 DEF BoundedBuffers
  <2>2. ASSUME NEW j \in Jobs, NEW kind, JobEvent(j, kind) PROVE BoundedBuffers'
    BY <2>2, RecordBounded DEF JobEvent
  <2>3. ASSUME NEW j \in Jobs, Frame(j) PROVE BoundedBuffers'
    BY <2>3, RecordBounded DEF Frame
  <2>4. CASE Clear
    BY <2>1, <2>4 DEF Clear, service
  <2>5. ASSUME NEW c \in Clients, NEW j \in Jobs, Open(c, j)
        PROVE  BoundedBuffers'
    BY <2>1, <2>5 DEF Open, service
  <2>6. ASSUME NEW c \in Clients, Stream(c) PROVE BoundedBuffers'
    BY <2>1, <2>6 DEF Stream, Read, Send, Wake, KeepAlive, RunTo, service
  <2>7. ASSUME NEW c \in Clients, Disconnect(c) PROVE BoundedBuffers'
    BY <2>1, <2>7 DEF Disconnect, service
  <2>8. CASE UNCHANGED vars
    BY <2>1, <2>8 DEF vars, service
  <2> QED BY <2>2, <2>3, <2>4, <2>5, <2>6, <2>7, <2>8 DEF Next
<1> QED BY <1>1, <1>2, EventsTyped, PTL DEF Spec

-----------------------------------------------------------------------------
(* The order of what a stream receives.                                    *)

\* Everything in q was recorded when the log had n entries.
Upto(q, n) == \A k \in DOMAIN q : q[k] <= n

\* What r holds is older than all that q holds beyond the cursor.
Ahead(r, cursor, q) ==
  \A m \in DOMAIN r, k \in DOMAIN q : k > cursor => r[m] < q[k]

\* Position by position, the snapshot b is no newer than the buffer q: trimming
\* and eviction only ever move newer entries forward.
Later(b, q) == \A i \in DOMAIN b, k \in DOMAIN q : k > i => b[i] < q[k]

StreamInv(c) ==
  LET s == streams[c] IN
  s.pc \in Serving =>
    /\ Increasing(received[c]) /\ Upto(received[c], Len(log[s.job]))
    /\ Increasing(s.backlog) /\ Upto(s.backlog, Len(log[s.job]))
    /\ Ahead(received[c], s.cursor, s.backlog)
    /\ Ahead(received[c], s.cursor, buffers[s.job])
    /\ Later(s.backlog, buffers[s.job])

\* A cursor counts entries of a buffer whose entries change places: what makes
\* it right is that the entries beyond it are always newer than those sent.
OrderInv ==
  /\ \A j \in Jobs : Increasing(buffers[j]) /\ Upto(buffers[j], Len(log[j]))
  /\ \A c \in Clients : StreamInv(c) /\ Increasing(received[c])
  /\ \A c \in Clients : streams[c].pc = "off" => received[c] = <<>>

\* Pushing an entry newer than all others moves every entry to its own place
\* or to the one before.
LEMMA PushNewer ==
  ASSUME NEW n \in Nat, NEW b \in Seq(Nat), Increasing(b), Upto(b, n),
         NEW q, q = Push(b, n + 1)
  PROVE  /\ Increasing(q) /\ Upto(q, n + 1)
         /\ \A r \in Seq(Nat), cursor \in Nat :
              Upto(r, n) /\ Ahead(r, cursor, b) => Ahead(r, cursor, q)
         /\ \A r \in Seq(Nat) : Upto(r, n) /\ Later(r, b) => Later(r, q)
  <1> DEFINE a == Append(b, n + 1)
  <1>1. /\ a \in Seq(Nat) /\ a # <<>>
        /\ Len(a) = Len(b) + 1 /\ Len(b) \in Nat
        /\ DOMAIN a = 1 .. Len(b) + 1 /\ DOMAIN b = 1 .. Len(b)
        /\ a[Len(b) + 1] = n + 1
        /\ \A i \in DOMAIN b : a[i] = b[i]
    <2>1. Len(b) \in Nat /\ DOMAIN b = 1 .. Len(b)  BY LenProperties
    <2>2. /\ a \in Seq(Nat) /\ a # <<>> /\ Len(a) = Len(b) + 1
          /\ a[Len(b) + 1] = n + 1
          /\ \A i \in DOMAIN b : a[i] = b[i]
      <3>1. n + 1 \in Nat  OBVIOUS
      <3> QED BY <3>1, AppendElements
    <2>3. DOMAIN a = 1 .. Len(b) + 1
      <3> HIDE DEF a
      <3> QED BY <2>2, LenProperties
    <2> QED BY <2>1, <2>2, <2>3
  <1>2. q = a \/ q = Tail(a)
    BY DEF Push
  <1>3. /\ DOMAIN Tail(a) = 1 .. Len(b)
        /\ \A i \in DOMAIN Tail(a) : Tail(a)[i] = a[i + 1]
    BY <1>1, TailElements, LenProperties
  <1>4. \A i \in DOMAIN b : b[i] \in Nat
    BY <1>1, LenProperties
  <1> HIDE DEF a
  <1>5. \A k \in DOMAIN a : k \in DOMAIN b \/ k = Len(b) + 1
    BY <1>1
  <1>6. \A k \in DOMAIN b : a[k] < n + 1
    BY <1>1, <1>4 DEF Upto
  <1>7. Increasing(a) /\ Upto(a, n + 1)
    <2>1. Upto(a, n + 1)
      BY <1>1, <1>4, <1>5, <1>6 DEF Upto
    <2>2. ASSUME NEW k \in DOMAIN a, NEW l \in DOMAIN a, k < l
          PROVE  a[k] < a[l]
      <3>1. k \in DOMAIN b  BY <1>1, <2>2
      <3> QED BY <1>1, <1>5, <1>6, <2>2, <3>1 DEF Increasing
    <2> QED BY <2>1, <2>2 DEF Increasing
  <1>8. Increasing(q) /\ Upto(q, n + 1)
    <2>1. \A k \in DOMAIN Tail(a) : k \in Nat /\ k + 1 \in DOMAIN a
      BY SMTT(30), <1>1, <1>3
    <2>2. Increasing(Tail(a))
      BY <1>3, <1>7, <2>1 DEF Increasing
    <2>3. Upto(Tail(a), n + 1)
      BY <1>3, <1>7, <2>1 DEF Upto
    <2> QED BY <1>2, <1>7, <2>2, <2>3
  <1>9. \A k \in DOMAIN q : \/ q[k] = n + 1
                            \/ k \in DOMAIN b /\ q[k] = b[k]
                            \/ k + 1 \in DOMAIN b /\ q[k] = b[k + 1]
    BY SMTT(20), <1>1, <1>2, <1>3
  <1>10. \A k \in DOMAIN q : k \in Nat
    BY <1>1, <1>2, <1>3
  <1>11. ASSUME NEW r \in Seq(Nat), Upto(r, n) PROVE \A m \in DOMAIN r : r[m] < n + 1
    <2>1. \A m \in DOMAIN r : r[m] \in Nat  BY LenProperties
    <2> QED BY <1>11, <2>1 DEF Upto
  <1>12. ASSUME NEW r \in Seq(Nat), NEW cursor \in Nat,
                Upto(r, n), Ahead(r, cursor, b)
         PROVE  Ahead(r, cursor, q)
    BY SMTT(30), <1>9, <1>10, <1>11, <1>12 DEF Ahead
  <1>13. ASSUME NEW r \in Seq(Nat), Upto(r, n), Later(r, b) PROVE Later(r, q)
    <2>1. \A i \in DOMAIN r : i \in Nat  BY LenProperties
    <2>2. ASSUME NEW i \in DOMAIN r, NEW k \in DOMAIN q, k > i
          PROVE  r[i] < q[k]
      <3>1. CASE q[k] = n + 1
        BY <1>11, <1>13, <3>1
      <3>2. CASE k \in DOMAIN b /\ q[k] = b[k]
        BY <1>13, <2>2, <3>2 DEF Later
      <3>3. CASE k + 1 \in DOMAIN b /\ q[k] = b[k + 1]
        <4>1. k + 1 > i  BY <1>10, <2>1, <2>2
        <4> QED BY <1>13, <3>3, <4>1 DEF Later
      <3> QED BY <1>9, <3>1, <3>2, <3>3
    <2> QED BY <2>2 DEF Later
  <1> QED BY <1>8, <1>12, <1>13

\* A generator that goes on with a snapshot, having sent what is in r.
LEMMA RunToOrder ==
  ASSUME TypeInv, OrderInv, NEW c \in Clients,
         NEW cursor \in Nat, NEW seen \in Seq(Nat), NEW flag \in Flags,
         streams[c].job \in Jobs,
         RunTo(c, NextStop(streams[c].job, cursor, seen, flag)),
         NEW r \in Seq(Nat), received' = [received EXCEPT ![c] = r],
         Increasing(r), Upto(r, Len(log[streams[c].job])),
         Increasing(seen), Upto(seen, Len(log[streams[c].job])),
         Ahead(r, cursor, seen), Ahead(r, cursor, buffers[streams[c].job]),
         Later(seen, buffers[streams[c].job])
  PROVE  OrderInv'
  <1> DEFINE job == streams[c].job
  <1>1. PICK pc \in {"sending", "closed", "waiting"},
             backlog \in {<<>>, seen, buffers[job]} :
          /\ streams' = [streams EXCEPT ![c] =
                           [pc |-> pc, job |-> job, cursor |-> cursor,
                            backlog |-> backlog, event |-> "current"]]
          /\ pc = "sending" => cursor < Len(backlog)
    BY RunToFacts
  <1>2. UNCHANGED <<log, buffers>>
    BY DEF RunTo, jobs
  <1>3. DOMAIN streams = Clients /\ DOMAIN received = Clients
    BY DEF TypeInv, TypeOK
  <1>4. /\ Increasing(backlog) /\ Upto(backlog, Len(log[job]))
        /\ Ahead(r, cursor, backlog)
        /\ Later(backlog, buffers[job])
    <2>1. CASE backlog = <<>>
      BY <2>1, EmptySeq DEF Increasing, Upto, Ahead, Later
    <2>2. CASE backlog = seen
      BY <2>2
    <2>3. CASE backlog = buffers[job]
      <3>1. Increasing(buffers[job]) /\ Upto(buffers[job], Len(log[job]))
        BY DEF OrderInv
      <3> QED BY <2>3, <3>1 DEF Later, Increasing
    <2> QED BY <1>1, <2>1, <2>2, <2>3
  <1>5. streams'[c].job = job /\ streams'[c].cursor = cursor
        /\ streams'[c].backlog = backlog /\ received'[c] = r
        /\ streams'[c].pc # "off"
    BY <1>1, <1>3
  <1>6. StreamInv(c)'
    BY <1>2, <1>4, <1>5 DEF StreamInv
  <1>7. ASSUME NEW d \in Clients, d # c
        PROVE  streams'[d] = streams[d] /\ received'[d] = received[d]
    BY <1>1, <1>3, <1>7
  <1>8. ASSUME NEW d \in Clients, d # c PROVE StreamInv(d)'
    BY <1>2, <1>7, <1>8 DEF OrderInv, StreamInv
  <1> QED BY <1>2, <1>5, <1>6, <1>7, <1>8 DEF OrderInv

LEMMA RecordOrder ==
  ASSUME TypeInv, OrderInv, NEW j \in Jobs, NEW kind \in EventKinds,
         Record(j, kind)
  PROVE  OrderInv'
  <1> DEFINE n == Len(log[j])
             q == Push(buffers[j], n + 1)
  <1>1. /\ n \in Nat
        /\ log[j] \in Seq(EventKinds)
        /\ \A i \in Jobs : buffers[i] \in Seq(Nat)
        /\ \A d \in Clients : /\ received[d] \in Seq(Nat)
                              /\ streams[d].backlog \in Seq(Nat)
                              /\ streams[d].cursor \in Nat
    BY LenProperties DEF TypeInv, TypeOK, EventKinds
  <1>2. /\ \A i \in Jobs : i # j => log'[i] = log[i]
        /\ Len(log'[j]) = n + 1
    <2>1. Len(Append(log[j], kind)) = n + 1  BY <1>1, AppendElements
    <2> QED BY <2>1 DEF Record, TypeInv, TypeOK
  <1>3. PICK gone :
          /\ \A i \in Jobs :
               buffers'[i] = IF i \in gone THEN <<>> ELSE IF i = j THEN q
                             ELSE buffers[i]
          /\ streams' = Notified(j, gone)
    BY DEF Record
  <1>4. /\ Increasing(q) /\ Upto(q, n + 1)
        /\ \A r \in Seq(Nat), cursor \in Nat :
             Upto(r, n) /\ Ahead(r, cursor, buffers[j]) => Ahead(r, cursor, q)
        /\ \A r \in Seq(Nat) :
             Upto(r, n) /\ Later(r, buffers[j]) => Later(r, q)
    BY <1>1, PushNewer DEF OrderInv
  <1> HIDE DEF q
  <1>5. \A i \in Jobs :
          Increasing(buffers'[i]) /\ Upto(buffers'[i], Len(log'[i]))
    <2> SUFFICES ASSUME NEW i \in Jobs
                 PROVE  Increasing(buffers'[i]) /\ Upto(buffers'[i], Len(log'[i]))
      OBVIOUS
    <2>1. CASE i \in gone
      BY <1>3, <2>1, EmptySeq DEF Increasing, Upto
    <2>2. CASE i \notin gone /\ i = j
      BY <1>2, <1>3, <1>4, <2>2
    <2>3. CASE i \notin gone /\ i # j
      BY <1>2, <1>3, <2>3 DEF OrderInv
    <2> QED BY <2>1, <2>2, <2>3
  <1>6. \A d \in Clients :
          /\ streams'[d].job = streams[d].job
          /\ streams'[d].cursor = streams[d].cursor
          /\ streams'[d].backlog = streams[d].backlog
          /\ \/ streams'[d].pc = streams[d].pc
             \/ streams[d].pc = "waiting" /\ streams'[d].pc = "woken"
    BY <1>3, NotifiedFacts
  <1>7. received' = received
    BY DEF Record
  <1>8. ASSUME NEW d \in Clients PROVE StreamInv(d)'
    <2> DEFINE s == streams[d]
               i == s.job
    <2> SUFFICES ASSUME s.pc \in Serving
                 PROVE  /\ Increasing(received[d])
                        /\ Upto(received[d], Len(log'[i]))
                        /\ Increasing(s.backlog)
                        /\ Upto(s.backlog, Len(log'[i]))
                        /\ Ahead(received[d], s.cursor, s.backlog)
                        /\ Ahead(received[d], s.cursor, buffers'[i])
                        /\ Later(s.backlog, buffers'[i])
      BY <1>6, <1>7 DEF StreamInv, Serving
    <2>1. /\ i \in Jobs
          /\ received[d] \in Seq(Nat) /\ s.backlog \in Seq(Nat)
          /\ s.cursor \in Nat
      BY <1>1 DEF TypeInv
    <2>2. /\ Increasing(received[d]) /\ Upto(received[d], Len(log[i]))
          /\ Increasing(s.backlog) /\ Upto(s.backlog, Len(log[i]))
          /\ Ahead(received[d], s.cursor, s.backlog)
          /\ Ahead(received[d], s.cursor, buffers[i])
          /\ Later(s.backlog, buffers[i])
      BY DEF OrderInv, StreamInv
    <2> HIDE DEF s, i
    <2>3. ASSUME NEW r \in Seq(Nat), Upto(r, Len(log[i]))
          PROVE  Upto(r, Len(log'[i]))
      <3>1. \A m \in DOMAIN r : r[m] \in Nat  BY LenProperties
      <3>2. CASE i = j
        BY <1>1, <1>2, <2>3, <3>1, <3>2 DEF Upto, n
      <3>3. CASE i # j
        BY <1>2, <2>1, <2>3, <3>3
      <3> QED BY <3>2, <3>3
    <2>4. Upto(received[d], Len(log'[i])) /\ Upto(s.backlog, Len(log'[i]))
      BY <2>1, <2>2, <2>3
    <2>5. /\ Ahead(received[d], s.cursor, buffers'[i])
          /\ Later(s.backlog, buffers'[i])
      <3>1. CASE i \in gone
        BY <1>3, <2>1, <3>1, EmptySeq DEF Ahead, Later
      <3>2. CASE i \notin gone /\ i = j
        BY <1>3, <1>4, <2>1, <2>2, <3>2 DEF n
      <3>3. CASE i \notin gone /\ i # j
        BY <1>3, <2>1, <2>2, <3>3
      <3> QED BY <3>1, <3>2, <3>3
    <2> QED BY <2>2, <2>4, <2>5
  <1> QED BY <1>5, <1>6, <1>7, <1>8 DEF OrderInv

\* For any sizes of the buffers and any number of jobs and streams, no stream
\* gets an event twice or out of order, although its cursor survives the
\* overflow, the eviction and the new beginning of the buffer it counts in.
THEOREM StreamsInOrder == Spec => []ReceivedInOrder
<1>1. Init => OrderInv
  BY EmptySeq
  DEF Init, OrderInv, StreamInv, Increasing, Upto, Off, Fresh, Serving
<1>2. TypeInv /\ OrderInv /\ [Next]_vars => OrderInv'
  <2> SUFFICES ASSUME TypeInv, OrderInv, [Next]_vars PROVE OrderInv'
    OBVIOUS
  <2>1. ASSUME NEW j \in Jobs, NEW kind \in Life!Kinds, JobEvent(j, kind)
        PROVE  OrderInv'
    BY <2>1, RecordOrder DEF JobEvent, EventKinds
  <2>2. ASSUME NEW j \in Jobs, Frame(j) PROVE OrderInv'
    BY <2>2, RecordOrder DEF Frame, EventKinds
  <2>3. CASE Clear
    BY <2>3 DEF Clear, OrderInv, StreamInv, service, clients
  <2>4. ASSUME NEW c \in Clients, NEW j \in Jobs, Open(c, j) PROVE OrderInv'
    <3>1. PICK pc \in {"opened", "refused"} :
            streams' = [streams EXCEPT ![c] = Fresh(pc, j)]
      <4>1. IF j \in rows \/ buffers[j] # <<>>
              THEN streams' = [streams EXCEPT ![c] = Fresh("opened", j)]
              ELSE streams' = [streams EXCEPT ![c] = Fresh("refused", j)]
        BY <2>4, Zenon DEF Open
      <4> QED BY <4>1
    <3>2. streams'[c] = Fresh(pc, j) /\ \A d \in Clients :
                                         d # c => streams'[d] = streams[d]
      BY <3>1 DEF TypeInv, TypeOK
    <3>3. received[c] = <<>> /\ UNCHANGED <<log, buffers, received>>
      BY <2>4 DEF Open, OrderInv, jobs, service
    <3>4. StreamInv(c)'
      BY <3>2, <3>3, EmptySeq
      DEF StreamInv, Fresh, Increasing, Upto, Ahead, Later
    <3>5. \A d \in Clients : d # c => StreamInv(d)'
      BY <3>2, <3>3 DEF OrderInv, StreamInv
    <3> QED BY <3>2, <3>3, <3>4, <3>5 DEF OrderInv
  \* At the top of the loop a stream takes the buffer as it is now.
  <2>5. ASSUME NEW c \in Clients, NEW flag \in Flags,
               streams[c].pc \in Serving,
               RunTo(c, NextStop(streams[c].job, streams[c].cursor,
                                 buffers[streams[c].job], flag)),
               UNCHANGED received
        PROVE  OrderInv'
    <3>1. /\ streams[c].job \in Jobs /\ streams[c].cursor \in Nat
          /\ buffers[streams[c].job] \in Seq(Nat)
          /\ received[c] \in Seq(Nat)
          /\ received' = [received EXCEPT ![c] = received[c]]
      BY <2>5 DEF TypeInv, TypeOK
    <3>2. /\ Increasing(buffers[streams[c].job])
          /\ Upto(buffers[streams[c].job], Len(log[streams[c].job]))
          /\ Increasing(received[c])
          /\ Upto(received[c], Len(log[streams[c].job]))
          /\ Ahead(received[c], streams[c].cursor, buffers[streams[c].job])
      BY <2>5, <3>1 DEF OrderInv, StreamInv
    <3>3. Later(buffers[streams[c].job], buffers[streams[c].job])
      BY <3>2 DEF Later, Increasing
    <3> QED BY <2>5, <3>1, <3>2, <3>3, RunToOrder
  <2>6. ASSUME NEW c \in Clients, Read(c) PROVE OrderInv'
    <3>1. streams[c].pc \in Serving  BY <2>6 DEF Read, Serving
    <3>2. notify[streams[c].job] \in Flags
      BY <3>1 DEF TypeInv, TypeOK, Flags
    <3> QED BY <2>5, <2>6, <3>1, <3>2 DEF Read
  <2>7. ASSUME NEW c \in Clients, Wake(c) PROVE OrderInv'
    <3> DEFINE flag == IF streams[c].event = "current" THEN "clear"
                       ELSE notify[streams[c].job]
    <3>1. streams[c].pc \in Serving  BY <2>7 DEF Wake, Serving
    <3>2. flag \in Flags
      BY <3>1 DEF TypeInv, TypeOK, Flags
    <3>3. /\ RunTo(c, NextStop(streams[c].job, streams[c].cursor,
                               buffers[streams[c].job], flag))
          /\ UNCHANGED received
      BY <2>7 DEF Wake
    <3> HIDE DEF flag
    <3> QED BY <2>5, <3>1, <3>2, <3>3
  \* The entry sent is newer than those sent before; those beyond the cursor,
  \* in the snapshot and in the buffer as it is now, are newer still.
  <2>8. ASSUME NEW c \in Clients, Send(c) PROVE OrderInv'
    <3> DEFINE s == streams[c]
               e == s.backlog[s.cursor + 1]
               r == Append(received[c], e)
    <3>1. /\ s.pc \in Serving /\ s.job \in Jobs /\ s.cursor \in Nat
          /\ s.backlog \in Seq(Nat) /\ s.cursor < Len(s.backlog)
          /\ received[c] \in Seq(Nat)
          /\ notify[s.job] \in Flags
          /\ buffers[s.job] \in Seq(Nat)
      BY <2>8 DEF Send, TypeInv, TypeOK, Serving, Flags
    <3>2. /\ Increasing(received[c]) /\ Upto(received[c], Len(log[s.job]))
          /\ Increasing(s.backlog) /\ Upto(s.backlog, Len(log[s.job]))
          /\ Ahead(received[c], s.cursor, s.backlog)
          /\ Ahead(received[c], s.cursor, buffers[s.job])
          /\ Later(s.backlog, buffers[s.job])
      BY <3>1 DEF OrderInv, StreamInv
    <3>3. /\ RunTo(c, NextStop(s.job, s.cursor + 1, s.backlog, notify[s.job]))
          /\ received' = [received EXCEPT ![c] = r]
      BY <2>8 DEF Send
    <3> HIDE DEF s
    <3>4. s.cursor + 1 \in DOMAIN s.backlog /\ e \in Nat
      BY <3>1, LenProperties
    <3> HIDE DEF e
    <3>5. /\ r \in Seq(Nat)
          /\ DOMAIN r = DOMAIN received[c] \cup {Len(received[c]) + 1}
          /\ DOMAIN received[c] = 1 .. Len(received[c])
          /\ Len(received[c]) \in Nat
          /\ r[Len(received[c]) + 1] = e
          /\ \A i \in DOMAIN received[c] : r[i] = received[c][i]
      BY SMTT(30), <3>1, <3>4, AppendElements, LenProperties
    <3> HIDE DEF r
    <3>6. \A i \in DOMAIN received[c] : received[c][i] < e
      <4>1. s.cursor + 1 > s.cursor  BY <3>1
      <4>2. e = s.backlog[s.cursor + 1]  BY DEF e
      <4> QED BY <3>2, <3>4, <4>1, <4>2, Zenon DEF Ahead
    <3>7. Increasing(r) /\ Upto(r, Len(log[s.job]))
      <4>1. ASSUME NEW k \in DOMAIN r, NEW l \in DOMAIN r, k < l
            PROVE  r[k] < r[l]
        <5>1. k \in DOMAIN received[c]  BY <3>5, <4>1
        <5> QED BY <3>2, <3>5, <3>6, <4>1, <5>1 DEF Increasing
      <4>2. e <= Len(log[s.job])  BY <3>2, <3>4 DEF Upto, e
      <4>3. Upto(r, Len(log[s.job]))
        BY <3>2, <3>5, <4>2 DEF Upto
      <4> QED BY <4>1, <4>3 DEF Increasing
    <3>8. ASSUME NEW q \in Seq(Nat), Ahead(received[c], s.cursor, q),
                 \A k \in DOMAIN q : k > s.cursor + 1 => e < q[k]
          PROVE  Ahead(r, s.cursor + 1, q)
      <4>1. ASSUME NEW m \in DOMAIN r, NEW k \in DOMAIN q, k > s.cursor + 1
            PROVE  r[m] < q[k]
        <5>1. k > s.cursor  BY <3>1, <4>1, LenProperties
        <5> QED BY <3>5, <3>8, <4>1, <5>1 DEF Ahead
      <4> QED BY <4>1 DEF Ahead
    <3>9. Ahead(r, s.cursor + 1, s.backlog)
      <4>1. \A k \in DOMAIN s.backlog :
              k > s.cursor + 1 => e < s.backlog[k]
        BY <3>2, <3>4 DEF Increasing, e
      <4> QED BY <3>1, <3>2, <3>8, <4>1
    <3>10. Ahead(r, s.cursor + 1, buffers[s.job])
      <4>1. \A k \in DOMAIN buffers[s.job] :
              k > s.cursor + 1 => e < buffers[s.job][k]
        BY <3>2, <3>4 DEF Later, e
      <4> QED BY <3>1, <3>2, <3>8, <4>1
    <3>11. s.cursor + 1 \in Nat  BY <3>1
    <3> QED BY <3>1, <3>2, <3>3, <3>5, <3>7, <3>9, <3>10, <3>11, RunToOrder DEF s
  <2>9. ASSUME NEW c \in Clients, KeepAlive(c) PROVE OrderInv'
    <3>1. \A d \in Clients :
            /\ streams'[d].job = streams[d].job
            /\ streams'[d].cursor = streams[d].cursor
            /\ streams'[d].backlog = streams[d].backlog
            /\ streams'[d].pc \in Serving => streams[d].pc \in Serving
            /\ streams'[d].pc = "off" => streams[d].pc = "off"
      <4>1. streams' = [streams EXCEPT ![c] = [streams[c] EXCEPT !.pc = "pinged"]]
        BY <2>9 DEF KeepAlive
      <4>2. ASSUME NEW d \in Clients
            PROVE  /\ streams'[d].job = streams[d].job
                   /\ streams'[d].cursor = streams[d].cursor
                   /\ streams'[d].backlog = streams[d].backlog
                   /\ streams'[d].pc \in Serving => streams[d].pc \in Serving
                   /\ streams'[d].pc = "off" => streams[d].pc = "off"
        <5>1. CASE d = c
          <6>1. streams'[d] = [streams[d] EXCEPT !.pc = "pinged"]
            BY <4>1, <5>1 DEF TypeInv, TypeOK
          <6>2. streams[d] \in StreamType
            BY DEF TypeInv, TypeOK, StreamType
          <6> QED BY <2>9, <5>1, <6>1, <6>2 DEF KeepAlive, StreamType, Serving
        <5>2. CASE d # c
          BY <4>1, <5>2 DEF TypeInv, TypeOK
        <5> QED BY <5>1, <5>2
      <4> QED BY <4>2
    <3>2. UNCHANGED <<log, buffers, received>>
      BY <2>9 DEF KeepAlive, jobs, service
    <3> QED BY <3>1, <3>2 DEF OrderInv, StreamInv
  <2>10. ASSUME NEW c \in Clients, Disconnect(c) PROVE OrderInv'
    <3>1. /\ streams'[c] = Fresh("left", streams[c].job)
          /\ received'[c] = <<>>
          /\ \A d \in Clients : d # c => /\ streams'[d] = streams[d]
                                        /\ received'[d] = received[d]
          /\ UNCHANGED <<log, buffers>>
      BY <2>10 DEF Disconnect, TypeInv, TypeOK, jobs, service
    <3>2. Increasing(received'[c]) /\ StreamInv(c)'
      BY <3>1, EmptySeq DEF StreamInv, Fresh, Serving, Increasing
    <3>3. \A d \in Clients : d # c => StreamInv(d)'
      BY <3>1 DEF OrderInv, StreamInv
    <3> QED BY <3>1, <3>2, <3>3 DEF OrderInv
  <2>11. CASE UNCHANGED vars
    BY <2>11 DEF vars, jobs, service, clients, OrderInv, StreamInv
  <2> QED
    BY <2>1, <2>2, <2>3, <2>4, <2>6, <2>7, <2>8, <2>9, <2>10, <2>11
    DEF Next, Stream
<1>3. OrderInv => ReceivedInOrder
  BY DEF OrderInv, ReceivedInOrder
<1> QED BY <1>1, <1>2, <1>3, EventsTyped, PTL DEF Spec


-----------------------------------------------------------------------------
(* Nothing is lost of a job that the bounds spare.                         *)

\* q begins where the log begins and skips nothing.
Counted(q) == \A n \in DOMAIN q : q[n] = n

\* The buffer of a job nothing of which was thrown away is its log.
GapFree ==
  \A j \in Jobs \ dropped :
    Len(buffers[j]) = Len(log[j]) /\ Counted(buffers[j])

\* No other client has ever asked for the job of c's stream.
Alone(c) == \A d \in Clients \ {c} : streams[d].job # streams[c].job

\* The cursor is the number of the entries sent, and what the stream is about
\* to send, or has sent when it ends, reaches what there was when it began.
CursorInv(c) ==
  LET s == streams[c] IN
  /\ s.pc \in {"off", "refused", "left"} => received[c] = <<>>
  /\ s.pc = "off" => s.job = NoJob
  /\ s.pc = "closed" => s.job \in Jobs
  /\ s.job \in Jobs \ dropped /\ s.pc \in Serving \cup {"closed"} =>
       /\ Len(received[c]) = s.cursor /\ Counted(received[c])
       /\ Counted(s.backlog) /\ Len(s.backlog) <= Len(log[s.job])
       /\ s.cursor <= Len(log[s.job]) /\ opened[c] <= Len(log[s.job])
       /\ s.pc = "sending" => opened[c] <= Len(s.backlog)
       /\ s.pc = "closed" => opened[c] <= s.cursor

\* While a stream sends a snapshot that the buffer has outgrown, the Event is
\* set, and only another stream of the job could clear it.
WakeInv(c) ==
  LET s == streams[c] IN
  s.pc \in Serving /\ s.job \in Jobs \ dropped =>
    /\ s.event = "current"
    /\ Alone(c) /\ s.pc = "waiting"
         => s.cursor = Len(buffers[s.job]) /\ s.job \notin done
    /\ Alone(c) /\ s.pc = "sending" /\ Len(s.backlog) < Len(buffers[s.job])
         => notify[s.job] = "set"

DeliveryInv == GapFree /\ \A c \in Clients : CursorInv(c) /\ WakeInv(c)

\* A buffer with room left takes the new entry behind all the others.
LEMMA PushCounted ==
  ASSUME NEW b \in Seq(Nat), NEW n \in Nat, n = Len(b),
         n <= BufCap, n # BufCap, Counted(b),
         NEW q, q = Push(b, n + 1)
  PROVE  Len(q) = n + 1 /\ Counted(q)
  <1> DEFINE a == Append(b, n + 1)
  <1>1. n + 1 \in Nat  OBVIOUS
  <1>2. /\ Len(a) = n + 1
        /\ DOMAIN a = DOMAIN b \cup {n + 1}
        /\ a[n + 1] = n + 1
        /\ \A i \in DOMAIN b : a[i] = b[i]
    BY <1>1, AppendElements
  <1>3. q = a
    BY <1>2, JobEventsAssumption DEF Push
  <1> HIDE DEF a
  <1> QED BY <1>2, <1>3 DEF Counted

\* Why the generator suspends where it does.
LEMMA StopReasons ==
  ASSUME NEW j, NEW cursor, NEW seen, NEW flag,
         NEW r, r = NextStop(j, cursor, seen, flag)
  PROVE  /\ r.pc \in {"sending", "closed", "waiting"}
         /\ r.cursor = cursor
         /\ r.pc = "sending" => \/ r.backlog = buffers[j]
                                \/ r.backlog = seen /\ r.flag = flag
         /\ r.pc # "sending" => ~(cursor < Len(seen))
         /\ r.pc = "waiting" => /\ j \notin done
                                /\ ~(flag = "set" /\ cursor < Len(buffers[j]))
  BY DEF NextStop

LEMMA RunToReasons ==
  ASSUME TypeInv, NEW c \in Clients, NEW cursor, NEW seen, NEW flag \in Flags,
         streams[c].job \in Jobs,
         RunTo(c, NextStop(streams[c].job, cursor, seen, flag))
  PROVE  \E pc \in {"sending", "closed", "waiting"} : \E backlog :
           LET job == streams[c].job IN
           /\ streams' = [streams EXCEPT ![c] =
                            [pc |-> pc, job |-> job, cursor |-> cursor,
                             backlog |-> backlog, event |-> "current"]]
           /\ pc = "sending" => \/ backlog = buffers[job]
                                \/ backlog = seen /\ notify'[job] = flag
           /\ pc # "sending" => backlog = <<>> /\ ~(cursor < Len(seen))
           /\ pc = "waiting" => /\ job \notin done
                                /\ ~(flag = "set" /\ cursor < Len(buffers[job]))
  <1> DEFINE job == streams[c].job
             r == NextStop(job, cursor, seen, flag)
  <1>1. /\ r.pc \in {"sending", "closed", "waiting"}
        /\ r.cursor = cursor
        /\ r.pc = "sending" => \/ r.backlog = buffers[job]
                               \/ r.backlog = seen /\ r.flag = flag
        /\ r.pc # "sending" => ~(cursor < Len(seen))
        /\ r.pc = "waiting" => /\ job \notin done
                               /\ ~(flag = "set" /\ cursor < Len(buffers[job]))
    BY StopReasons
  <1>2. /\ streams' = [streams EXCEPT ![c] =
             [pc |-> r.pc, job |-> job, cursor |-> r.cursor,
              backlog |-> IF r.pc = "sending" THEN r.backlog ELSE <<>>,
              event |-> "current"]]
        /\ notify'[job] = r.flag
    BY DEF RunTo, TypeInv, TypeOK
  <1> HIDE DEF r
  <1>3. CASE r.pc = "sending"
    BY <1>1, <1>2, <1>3
  <1>4. CASE r.pc # "sending"
    BY <1>1, <1>2, <1>4
  <1> QED BY <1>3, <1>4

\* A generator that goes on with a snapshot, having sent what is in r.
LEMMA RunToDelivery ==
  ASSUME TypeInv, DeliveryInv, NEW c \in Clients,
         NEW cursor \in Nat, NEW seen \in Seq(Nat), NEW flag \in Flags,
         streams[c].pc \in Serving,
         RunTo(c, NextStop(streams[c].job, cursor, seen, flag)),
         NEW r \in Seq(Nat), received' = [received EXCEPT ![c] = r],
         streams[c].job \notin dropped =>
           /\ Len(r) = cursor /\ Counted(r)
           /\ Counted(seen) /\ Len(seen) <= Len(log[streams[c].job])
           /\ cursor <= Len(log[streams[c].job])
           /\ opened[c] <= Len(seen)
           /\ Alone(c) /\ Len(seen) < Len(buffers[streams[c].job])
                => flag = "set"
  PROVE  DeliveryInv'
  <1> DEFINE job == streams[c].job
  <1>1. job \in Jobs
    BY DEF TypeInv
  <1>2. PICK pc \in {"sending", "closed", "waiting"} : \E backlog :
           /\ streams' = [streams EXCEPT ![c] =
                            [pc |-> pc, job |-> job, cursor |-> cursor,
                             backlog |-> backlog, event |-> "current"]]
           /\ pc = "sending" => \/ backlog = buffers[job]
                                \/ backlog = seen /\ notify'[job] = flag
           /\ pc # "sending" => backlog = <<>> /\ ~(cursor < Len(seen))
           /\ pc = "waiting" => /\ job \notin done
                                /\ ~(flag = "set" /\ cursor < Len(buffers[job]))
    BY <1>1, RunToReasons
  <1>3. PICK backlog :
           /\ streams' = [streams EXCEPT ![c] =
                            [pc |-> pc, job |-> job, cursor |-> cursor,
                             backlog |-> backlog, event |-> "current"]]
           /\ pc = "sending" => \/ backlog = buffers[job]
                                \/ backlog = seen /\ notify'[job] = flag
           /\ pc # "sending" => backlog = <<>> /\ ~(cursor < Len(seen))
           /\ pc = "waiting" => /\ job \notin done
                                /\ ~(flag = "set" /\ cursor < Len(buffers[job]))
    BY <1>2
  <1>4. /\ UNCHANGED <<log, buffers, done, dropped, opened>>
        /\ \A i \in Jobs : i # job => notify'[i] = notify[i]
    BY DEF RunTo, jobs, TypeInv, TypeOK
  <1>5. /\ streams'[c].pc = pc /\ streams'[c].job = job
        /\ streams'[c].cursor = cursor /\ streams'[c].backlog = backlog
        /\ streams'[c].event = "current" /\ received'[c] = r
        /\ \A d \in Clients : d # c => /\ streams'[d] = streams[d]
                                       /\ received'[d] = received[d]
        /\ \A d \in Clients : streams'[d].job = streams[d].job
    BY <1>3 DEF TypeInv, TypeOK
  <1>6. \A d \in Clients : Alone(d)' = Alone(d)
    BY <1>5 DEF Alone
  <1>7. GapFree'
    BY <1>4 DEF GapFree, DeliveryInv
  <1>8. \E n \in Nat, m \in Nat, k \in Nat, l \in Nat :
          n = Len(log[job]) /\ m = Len(seen) /\ k = opened[c]
          /\ l = Len(buffers[job])
    BY <1>1, LenProperties DEF TypeInv, TypeOK
  <1>9. job \notin dropped =>
          Len(buffers[job]) = Len(log[job]) /\ Counted(buffers[job])
    BY <1>1 DEF GapFree, DeliveryInv
  <1>10. CursorInv(c)'
    <2>1. pc \in {"sending", "closed", "waiting"}
      BY <1>3
    <2>2. ASSUME job \notin dropped
          PROVE  /\ Len(r) = cursor /\ Counted(r)
                 /\ Counted(backlog) /\ Len(backlog) <= Len(log[job])
                 /\ cursor <= Len(log[job]) /\ opened[c] <= Len(log[job])
                 /\ pc = "sending" => opened[c] <= Len(backlog)
                 /\ pc = "closed" => opened[c] <= cursor
      <3>1. CASE pc # "sending"
        <4>1. Counted(<<>>) /\ Len(<<>>) = 0  BY EmptySeq DEF Counted
        <4> QED BY <1>3, <1>8, <2>2, <3>1, <4>1
      <3>2. CASE pc = "sending" /\ backlog = seen
        BY <1>8, <2>2, <3>2
      <3>3. CASE pc = "sending" /\ backlog = buffers[job]
        BY <1>8, <1>9, <2>2, <3>3
      <3> QED BY <1>3, <3>1, <3>2, <3>3
    <2> QED BY <1>1, <1>4, <1>5, <2>1, <2>2 DEF CursorInv, Serving
  <1>11. WakeInv(c)'
    <2>1. ASSUME job \notin dropped, Alone(c), pc = "waiting"
          PROVE  cursor = Len(buffers[job]) /\ job \notin done
      BY SMTT(30), <1>3, <1>8, <1>9, <2>1
    <2>2. ASSUME job \notin dropped, Alone(c), pc = "sending",
                 Len(backlog) < Len(buffers[job])
          PROVE  notify'[job] = "set"
      BY <1>3, <1>8, <2>2
    <2> QED BY <1>4, <1>5, <1>6, <2>1, <2>2 DEF WakeInv
  \* The stream may clear the Event of another, which is not alone then.
  <1>12. ASSUME NEW d \in Clients, d # c PROVE CursorInv(d)' /\ WakeInv(d)'
    <2>1. CursorInv(d) /\ WakeInv(d)  BY DEF DeliveryInv
    <2>2. /\ streams'[d] = streams[d] /\ received'[d] = received[d]
          /\ UNCHANGED <<log, buffers, done, dropped, opened>>
      BY <1>4, <1>5, <1>12
    <2>3. CursorInv(d)'
      BY <2>1, <2>2 DEF CursorInv
    <2>4. Alone(d) /\ streams[d].job \in Jobs
            => notify'[streams[d].job] = notify[streams[d].job]
      BY <1>4, <1>12 DEF Alone
    <2>5. WakeInv(d)'
      BY <1>6, <2>1, <2>2, <2>4 DEF WakeInv
    <2> QED BY <2>3, <2>5
  <1> QED BY <1>7, <1>10, <1>11, <1>12 DEF DeliveryInv

\* An event that its job's buffer has room for, and that evicts nobody it
\* could miss: every stream of the job that waited is woken.
LEMMA RecordDelivery ==
  ASSUME TypeInv, BoundedBuffers, DeliveryInv,
         NEW j \in Jobs, NEW kind \in EventKinds, Record(j, kind)
  PROVE  DeliveryInv'
  <1> DEFINE ks == IF Contains(keys, j) THEN keys ELSE Append(keys, j)
             ds == IF kind \in Terminal THEN done \cup {j} ELSE done
             gone == Prune(ks, ds).gone
             q == Push(buffers[j], Len(log[j]) + 1)
  <1>1. /\ log' = [log EXCEPT ![j] = Append(@, kind)]
        /\ buffers' = [i \in Jobs |-> IF i \in gone THEN <<>>
                                      ELSE IF i = j THEN q ELSE buffers[i]]
        /\ done' = Prune(ks, ds).done
        /\ notify' = [i \in Jobs |-> IF i \in gone THEN "none"
                                     ELSE IF i = j THEN "set" ELSE notify[i]]
        /\ streams' = Notified(j, gone)
        /\ dropped' = dropped \cup gone
                        \cup (IF Len(buffers[j]) = BufCap THEN {j} ELSE {})
        /\ UNCHANGED <<received, opened>>
    BY DEF Record
  <1>2. done' \subseteq done \cup {j}
    <2>1. Prune(ks, ds).done \subseteq ds  BY DEF Prune
    <2> QED BY <1>1, <2>1
  <1> HIDE DEF gone, ks, ds, q
  <1>3. /\ Len(log'[j]) = Len(log[j]) + 1
        /\ \A i \in Jobs : i # j => log'[i] = log[i]
        /\ \A i \in Jobs : Len(log[i]) \in Nat
    <2>1. /\ log \in [Jobs -> Seq(EventKinds)]
          /\ Len(Append(log[j], kind)) = Len(log[j]) + 1
      BY AppendElements DEF TypeInv, TypeOK, EventKinds
    <2> QED BY <1>1, <2>1, LenProperties
  <1>4. ASSUME NEW i \in Jobs, i \notin dropped'
        PROVE  /\ i \notin dropped /\ i \notin gone
               /\ i = j => Len(buffers[j]) # BufCap /\ buffers'[i] = q
                             /\ notify'[i] = "set"
               /\ i # j => buffers'[i] = buffers[i] /\ notify'[i] = notify[i]
    BY <1>1, <1>4
  <1>5. GapFree'
    <2> SUFFICES ASSUME NEW i \in Jobs, i \notin dropped'
                 PROVE  Len(buffers'[i]) = Len(log'[i]) /\ Counted(buffers'[i])
      BY DEF GapFree
    <2>1. Len(buffers[i]) = Len(log[i]) /\ Counted(buffers[i])
      BY <1>4 DEF DeliveryInv, GapFree
    <2>2. CASE i = j
      <3>1. buffers[j] \in Seq(Nat) /\ Len(buffers[j]) <= BufCap
        BY DEF TypeInv, TypeOK, BoundedBuffers
      <3>2. Len(q) = Len(log[j]) + 1 /\ Counted(q)
        BY <1>3, <1>4, <2>1, <2>2, <3>1, PushCounted DEF q
      <3> QED BY <1>3, <1>4, <2>2, <3>2
    <2>3. CASE i # j
      BY <1>3, <1>4, <2>1, <2>3
    <2> QED BY <2>2, <2>3
  <1>6. ASSUME NEW c \in Clients
        PROVE  /\ streams'[c].job = streams[c].job
               /\ streams'[c].cursor = streams[c].cursor
               /\ streams'[c].backlog = streams[c].backlog
               /\ \/ streams'[c].pc = streams[c].pc
                  \/ streams[c].pc = "waiting" /\ streams'[c].pc = "woken"
               /\ streams[c].job \notin gone
                    => streams'[c].event = streams[c].event
               /\ streams[c].job = j /\ streams[c].pc = "waiting"
                    /\ streams[c].event = "current"
                    => streams'[c].pc = "woken"
    <2>1. streams[c] \in StreamType  BY DEF TypeInv, TypeOK, StreamType
    <2>2. streams'[c] =
            IF streams[c].job = j /\ streams[c].pc = "waiting"
                 /\ streams[c].event = "current"
              THEN [streams[c] EXCEPT !.pc = "woken"]
            ELSE IF streams[c].job \in gone
                      /\ streams[c].pc \in {"waiting", "woken"}
              THEN [streams[c] EXCEPT !.event = "popped"]
            ELSE streams[c]
      BY <1>1 DEF Notified
    <2>3. CASE streams[c].job = j /\ streams[c].pc = "waiting"
                 /\ streams[c].event = "current"
      BY <2>1, <2>2, <2>3 DEF StreamType
    <2>4. CASE ~(streams[c].job = j /\ streams[c].pc = "waiting"
                   /\ streams[c].event = "current")
      BY <2>1, <2>2, <2>4 DEF StreamType
    <2> QED BY <2>3, <2>4
  <1>7. ASSUME NEW c \in Clients PROVE CursorInv(c)'
    <2> DEFINE s == streams[c]
    <2>1. CursorInv(c)  BY DEF DeliveryInv
    <2>2. /\ s.pc \in {"off", "refused", "left"} => received[c] = <<>>
          /\ s.pc = "off" => s.job = NoJob
          /\ s.pc = "closed" => s.job \in Jobs
      BY <2>1 DEF CursorInv
    <2>3. ASSUME s.job \in Jobs, s.job \notin dropped',
                 s.pc \in Serving \cup {"closed"}
          PROVE  /\ Len(received[c]) = s.cursor /\ Counted(received[c])
                 /\ Counted(s.backlog) /\ Len(s.backlog) <= Len(log'[s.job])
                 /\ s.cursor <= Len(log'[s.job])
                 /\ opened[c] <= Len(log'[s.job])
                 /\ s.pc = "sending" => opened[c] <= Len(s.backlog)
                 /\ s.pc = "closed" => opened[c] <= s.cursor
      <3>1. /\ Len(received[c]) = s.cursor /\ Counted(received[c])
            /\ Counted(s.backlog) /\ Len(s.backlog) <= Len(log[s.job])
            /\ s.cursor <= Len(log[s.job]) /\ opened[c] <= Len(log[s.job])
            /\ s.pc = "sending" => opened[c] <= Len(s.backlog)
            /\ s.pc = "closed" => opened[c] <= s.cursor
        BY <1>4, <2>1, <2>3 DEF CursorInv
      <3>2. /\ Len(s.backlog) \in Nat /\ s.cursor \in Nat
            /\ opened[c] \in Nat
        BY LenProperties DEF TypeInv, TypeOK
      <3>3. PICK n \in Nat : n = Len(log[s.job])
        BY <1>3, <2>3
      <3>4. Len(log'[s.job]) \in {n, n + 1}
        BY <1>3, <2>3, <3>3
      <3> HIDE DEF s
      <3> QED BY <3>1, <3>2, <3>3, <3>4
    <2>4. /\ streams'[c].pc \in {"off", "refused", "left"} =>
               streams'[c].pc = s.pc
          /\ streams'[c].pc \in {"sending", "closed"} => streams'[c].pc = s.pc
          /\ streams'[c].pc \in Serving \cup {"closed"}
               => s.pc \in Serving \cup {"closed"}
      BY <1>6 DEF Serving
    <2>5. received'[c] = received[c] /\ opened'[c] = opened[c]
      BY <1>1
    <2> HIDE DEF s
    <2>6. /\ streams'[c].job = s.job /\ streams'[c].cursor = s.cursor
          /\ streams'[c].backlog = s.backlog
      BY <1>6 DEF s
    <2> QED BY <2>2, <2>3, <2>4, <2>5, <2>6 DEF CursorInv
  <1>8. \A c \in Clients : Alone(c)' = Alone(c)
    BY <1>6 DEF Alone
  <1>9. ASSUME NEW c \in Clients PROVE WakeInv(c)'
    <2> DEFINE s == streams[c]
    <2> SUFFICES ASSUME streams'[c].pc \in Serving, s.job \in Jobs,
                        s.job \notin dropped'
                 PROVE  /\ streams'[c].event = "current"
                        /\ Alone(c) /\ streams'[c].pc = "waiting"
                             => s.cursor = Len(buffers'[s.job])
                                /\ s.job \notin done'
                        /\ Alone(c) /\ streams'[c].pc = "sending"
                             /\ Len(s.backlog) < Len(buffers'[s.job])
                             => notify'[s.job] = "set"
      BY <1>6, <1>8 DEF WakeInv
    <2>1. s.pc \in Serving
      BY <1>6 DEF Serving
    <2>2. /\ s.event = "current"
          /\ Alone(c) /\ s.pc = "waiting"
               => s.cursor = Len(buffers[s.job]) /\ s.job \notin done
          /\ Alone(c) /\ s.pc = "sending"
               /\ Len(s.backlog) < Len(buffers[s.job])
               => notify[s.job] = "set"
      BY <1>4, <2>1 DEF DeliveryInv, WakeInv
    <2>3. CASE s.job = j
      BY <1>4, <1>6, <2>2, <2>3
    <2>4. CASE s.job # j
      BY <1>2, <1>4, <1>6, <2>2, <2>4
    <2> QED BY <2>3, <2>4
  <1> QED BY <1>5, <1>7, <1>9 DEF DeliveryInv

\* The three promises of the streams rest on one invariant, for any number of
\* jobs and streams and any sizes of the buffers.
THEOREM DeliveryHolds == Spec => []DeliveryInv
<1>1. Init => DeliveryInv
  BY EmptySeq
  DEF Init, DeliveryInv, GapFree, CursorInv, WakeInv, Counted, Off, Fresh,
      Serving
<1>2. TypeInv /\ BoundedBuffers /\ DeliveryInv /\ [Next]_vars => DeliveryInv'
  <2> SUFFICES ASSUME TypeInv, BoundedBuffers, DeliveryInv, [Next]_vars
               PROVE  DeliveryInv'
    OBVIOUS
  <2>0. \A c \in Clients : CursorInv(c) /\ WakeInv(c)
    BY DEF DeliveryInv
  <2>1. ASSUME NEW j \in Jobs, NEW kind \in Life!Kinds, JobEvent(j, kind)
        PROVE  DeliveryInv'
    BY <2>1, RecordDelivery DEF JobEvent, EventKinds
  <2>2. ASSUME NEW j \in Jobs, Frame(j) PROVE DeliveryInv'
    BY <2>2, RecordDelivery DEF Frame, EventKinds
  <2>3. CASE Clear
    BY <2>3
    DEF Clear, DeliveryInv, GapFree, CursorInv, WakeInv, Alone, service, clients
  <2>4. ASSUME NEW c \in Clients, NEW j \in Jobs, Open(c, j)
        PROVE  DeliveryInv'
    <3>1. /\ streams[c].pc = "off" /\ log[j] # <<>>
          /\ streams' = [streams EXCEPT ![c] =
                           Fresh(IF j \in rows \/ buffers[j] # <<>>
                                   THEN "opened" ELSE "refused", j)]
          /\ opened' = [opened EXCEPT ![c] = Len(log[j])]
          /\ UNCHANGED <<log, buffers, done, notify, dropped, received>>
      BY <2>4, Zenon DEF Open, jobs, service
    <3>2. PICK pc \in {"opened", "refused"} :
            streams' = [streams EXCEPT ![c] = Fresh(pc, j)]
      <4>1. IF j \in rows \/ buffers[j] # <<>>
              THEN streams' = [streams EXCEPT ![c] = Fresh("opened", j)]
              ELSE streams' = [streams EXCEPT ![c] = Fresh("refused", j)]
        BY <3>1, Zenon
      <4> QED BY <4>1
    <3>3. /\ streams'[c] = Fresh(pc, j) /\ opened'[c] = Len(log[j])
          /\ \A d \in Clients : d # c => /\ streams'[d] = streams[d]
                                         /\ opened'[d] = opened[d]
      BY <3>1, <3>2 DEF TypeInv, TypeOK
    <3>4. GapFree'
      BY <3>1 DEF DeliveryInv, GapFree
    <3>5. CursorInv(c)'
      <4>1. received[c] = <<>>
        BY <2>0, <3>1 DEF CursorInv
      <4>2. Len(log[j]) \in Nat
        BY LenProperties DEF TypeInv, TypeOK
      <4>3. Counted(<<>>) /\ Len(<<>>) = 0
        BY EmptySeq DEF Counted
      <4> QED BY <3>1, <3>3, <4>1, <4>2, <4>3 DEF CursorInv, Fresh, Serving
    <3>6. WakeInv(c)'
      BY <3>1, <3>3 DEF WakeInv, Fresh, Serving
    <3>7. ASSUME NEW d \in Clients, d # c PROVE CursorInv(d)' /\ WakeInv(d)'
      <4>1. CursorInv(d)'
        BY <2>0, <3>1, <3>3, <3>7 DEF CursorInv
      <4>2. streams[d].job \in Jobs /\ Alone(d)' => Alone(d)
        \* c had no job before
        <5>1. streams[c].job = NoJob
          BY <2>0, <3>1 DEF CursorInv
        <5> QED BY <3>3, <3>7, <5>1, JobEventsAssumption DEF Alone
      <4>3. WakeInv(d)'
        BY <2>0, <3>1, <3>3, <3>7, <4>2 DEF WakeInv
      <4> QED BY <4>1, <4>3
    <3> QED BY <3>4, <3>5, <3>6, <3>7 DEF DeliveryInv
  \* At the top of the loop a stream takes the buffer as it is now.
  <2>5. ASSUME NEW c \in Clients, NEW flag \in Flags,
               streams[c].pc \in Serving,
               RunTo(c, NextStop(streams[c].job, streams[c].cursor,
                                 buffers[streams[c].job], flag)),
               UNCHANGED received
        PROVE  DeliveryInv'
    <3> DEFINE job == streams[c].job
    <3>1. /\ job \in Jobs /\ streams[c].cursor \in Nat
          /\ buffers[job] \in Seq(Nat)
          /\ received[c] \in Seq(Nat)
          /\ received' = [received EXCEPT ![c] = received[c]]
      BY <2>5 DEF TypeInv, TypeOK
    <3>2. PICK n \in Nat : n = Len(buffers[job])
      BY <3>1, LenProperties
    <3>3. job \notin dropped =>
            /\ Len(received[c]) = streams[c].cursor /\ Counted(received[c])
            /\ Counted(buffers[job]) /\ n = Len(log[job])
            /\ streams[c].cursor <= n /\ opened[c] <= n
      BY <2>0, <2>5, <3>1, <3>2 DEF CursorInv, DeliveryInv, GapFree
    <3>4. job \notin dropped =>
            /\ Len(received[c]) = streams[c].cursor /\ Counted(received[c])
            /\ Counted(buffers[job]) /\ Len(buffers[job]) <= Len(log[job])
            /\ streams[c].cursor <= Len(log[job])
            /\ opened[c] <= Len(buffers[job])
            /\ Alone(c) /\ Len(buffers[job]) < Len(buffers[job])
                 => flag = "set"
      BY <3>2, <3>3
    <3> QED BY <2>5, <3>1, <3>4, RunToDelivery
  <2>6. ASSUME NEW c \in Clients, Read(c) PROVE DeliveryInv'
    <3>1. streams[c].pc \in Serving  BY <2>6 DEF Read, Serving
    <3>2. notify[streams[c].job] \in Flags
      BY <3>1 DEF TypeInv, TypeOK, Flags
    <3> QED BY <2>5, <2>6, <3>1, <3>2 DEF Read
  <2>7. ASSUME NEW c \in Clients, Wake(c) PROVE DeliveryInv'
    <3> DEFINE flag == IF streams[c].event = "current" THEN "clear"
                       ELSE notify[streams[c].job]
    <3>1. streams[c].pc \in Serving  BY <2>7 DEF Wake, Serving
    <3>2. flag \in Flags
      BY <3>1 DEF TypeInv, TypeOK, Flags
    <3>3. /\ RunTo(c, NextStop(streams[c].job, streams[c].cursor,
                               buffers[streams[c].job], flag))
          /\ UNCHANGED received
      BY <2>7 DEF Wake
    <3> HIDE DEF flag
    <3> QED BY <2>5, <3>1, <3>2, <3>3
  \* The entry sent is the one after those sent before.
  <2>8. ASSUME NEW c \in Clients, Send(c) PROVE DeliveryInv'
    <3> DEFINE s == streams[c]
               e == s.backlog[s.cursor + 1]
               r == Append(received[c], e)
    <3>1. /\ s.pc \in Serving /\ s.pc = "sending"
          /\ s.job \in Jobs /\ s.cursor \in Nat
          /\ s.backlog \in Seq(Nat) /\ s.cursor < Len(s.backlog)
          /\ received[c] \in Seq(Nat)
          /\ notify[s.job] \in Flags
      BY <2>8 DEF Send, TypeInv, TypeOK, Serving, Flags
    <3>2. /\ RunTo(c, NextStop(s.job, s.cursor + 1, s.backlog, notify[s.job]))
          /\ received' = [received EXCEPT ![c] = r]
      BY <2>8 DEF Send
    <3>3. s.job \notin dropped =>
            /\ Len(received[c]) = s.cursor /\ Counted(received[c])
            /\ Counted(s.backlog) /\ Len(s.backlog) <= Len(log[s.job])
            /\ opened[c] <= Len(s.backlog)
            /\ Alone(c) /\ Len(s.backlog) < Len(buffers[s.job])
                 => notify[s.job] = "set"
      BY <2>0, <3>1 DEF CursorInv, WakeInv
    <3> HIDE DEF s
    <3>4. s.cursor + 1 \in DOMAIN s.backlog /\ e \in Nat
      BY <3>1, LenProperties
    <3>5. s.job \notin dropped => e = s.cursor + 1
      BY <3>3, <3>4 DEF Counted
    <3> HIDE DEF e
    <3>6. /\ r \in Seq(Nat) /\ Len(r) = Len(received[c]) + 1
          /\ DOMAIN r = DOMAIN received[c] \cup {Len(received[c]) + 1}
          /\ r[Len(received[c]) + 1] = e
          /\ \A i \in DOMAIN received[c] : r[i] = received[c][i]
      BY <3>1, <3>4, AppendElements
    <3> HIDE DEF r
    <3>7. PICK n \in Nat, m \in Nat :
            n = Len(s.backlog) /\ m = Len(log[s.job])
      BY <3>1, LenProperties DEF TypeInv, TypeOK
    <3>8. s.job \notin dropped =>
            Len(r) = s.cursor + 1 /\ Counted(r) /\ s.cursor + 1 <= Len(log[s.job])
      <4> SUFFICES ASSUME s.job \notin dropped
                   PROVE  /\ Len(r) = s.cursor + 1 /\ Counted(r)
                          /\ s.cursor + 1 <= Len(log[s.job])
        OBVIOUS
      <4>1. s.cursor + 1 <= Len(log[s.job])
        BY <3>1, <3>3, <3>7
      <4>2. Len(r) = s.cursor + 1 /\ Counted(r)
        BY <3>3, <3>5, <3>6 DEF Counted
      <4> QED BY <4>1, <4>2
    <3>9. s.cursor + 1 \in Nat  BY <3>1
    <3> QED BY <3>1, <3>2, <3>3, <3>6, <3>8, <3>9, RunToDelivery DEF s
  <2>9. ASSUME NEW c \in Clients, KeepAlive(c) PROVE DeliveryInv'
    <3>1. /\ streams[c].pc \in {"waiting", "woken"}
          /\ streams' = [streams EXCEPT ![c] = [streams[c] EXCEPT !.pc = "pinged"]]
          /\ UNCHANGED <<log, buffers, done, notify, dropped, received, opened>>
      BY <2>9 DEF KeepAlive, jobs, service
    <3>2. /\ streams'[c].job = streams[c].job
          /\ streams'[c].cursor = streams[c].cursor
          /\ streams'[c].backlog = streams[c].backlog
          /\ streams'[c].event = streams[c].event
          /\ streams'[c].pc = "pinged"
          /\ \A d \in Clients : d # c => streams'[d] = streams[d]
      <4>1. streams[c] \in StreamType
        BY DEF TypeInv, TypeOK, StreamType
      <4> QED BY <3>1, <4>1 DEF StreamType, TypeInv, TypeOK
    <3>3. \A d \in Clients : Alone(d)' = Alone(d)
      BY <3>2 DEF Alone
    <3>4. CursorInv(c)' /\ WakeInv(c)'
      BY <2>0, <3>1, <3>2 DEF CursorInv, WakeInv, Serving
    <3>5. \A d \in Clients : d # c => CursorInv(d)' /\ WakeInv(d)'
      BY <2>0, <3>1, <3>2, <3>3 DEF CursorInv, WakeInv
    <3>6. GapFree'
      BY <3>1 DEF DeliveryInv, GapFree
    <3> QED BY <3>4, <3>5, <3>6 DEF DeliveryInv
  <2>10. ASSUME NEW c \in Clients, Disconnect(c) PROVE DeliveryInv'
    <3>1. /\ streams'[c] = Fresh("left", streams[c].job)
          /\ received'[c] = <<>>
          /\ \A d \in Clients : d # c => /\ streams'[d] = streams[d]
                                         /\ received'[d] = received[d]
                                         /\ opened'[d] = opened[d]
          /\ UNCHANGED <<log, buffers, done, notify, dropped>>
      BY <2>10 DEF Disconnect, TypeInv, TypeOK, jobs, service
    <3>2. CursorInv(c)' /\ WakeInv(c)'
      BY <3>1 DEF CursorInv, WakeInv, Fresh, Serving
    <3>3. \A d \in Clients : Alone(d)' = Alone(d)
      BY <3>1 DEF Alone, Fresh
    <3>4. \A d \in Clients : d # c => CursorInv(d)' /\ WakeInv(d)'
      BY <2>0, <3>1, <3>3 DEF CursorInv, WakeInv
    <3>5. GapFree'
      BY <3>1 DEF DeliveryInv, GapFree
    <3> QED BY <3>2, <3>4, <3>5 DEF DeliveryInv
  <2>11. CASE UNCHANGED vars
    BY <2>11
    DEF vars, jobs, service, clients, DeliveryInv, GapFree, CursorInv, WakeInv,
        Alone
  <2> QED
    BY <2>1, <2>2, <2>3, <2>4, <2>6, <2>7, <2>8, <2>9, <2>10, <2>11
    DEF Next, Stream
<1> QED BY <1>1, <1>2, EventsTyped, BuffersBounded, PTL DEF Spec

\* What a stream has received of a job that overflowed no bound is a prefix of
\* the job's log, whatever woke the stream and however slowly it sends.
THEOREM NoEventSkipped == Spec => []NothingSkipped
<1>1. TypeInv /\ DeliveryInv => NothingSkipped
  <2> SUFFICES ASSUME TypeInv, DeliveryInv, NEW c \in Clients,
                      streams[c].job \in Jobs \ dropped,
                      NEW n \in DOMAIN received[c]
               PROVE  received[c][n] = n
    BY DEF NothingSkipped
  <2>1. CursorInv(c)
    BY DEF DeliveryInv
  <2>2. streams[c].pc \in Stages
    BY DEF TypeInv, TypeOK
  <2>3. CASE streams[c].pc \in {"off", "refused", "left"}
    BY <2>1, <2>3, EmptySeq DEF CursorInv
  <2>4. CASE streams[c].pc \in Serving \cup {"closed"}
    BY <2>1, <2>4 DEF CursorInv, Counted
  <2> QED BY <2>2, <2>3, <2>4 DEF Stages, Serving
<1> QED BY <1>1, EventsTyped, DeliveryHolds, PTL

\* A stream ends only when it has sent all of a snapshot that is no older
\* than the stream.
THEOREM ClosedStreamsAreComplete == Spec => []ReplayIsComplete
<1>1. TypeInv /\ DeliveryInv => ReplayIsComplete
  <2> SUFFICES ASSUME TypeInv, DeliveryInv, NEW c \in Clients,
                      streams[c].pc = "closed", streams[c].job \notin dropped
               PROVE  Len(received[c]) >= opened[c]
    BY DEF ReplayIsComplete
  <2>1. Len(received[c]) = streams[c].cursor /\ opened[c] <= streams[c].cursor
    BY DEF DeliveryInv, CursorInv
  <2>2. streams[c].cursor \in Nat /\ opened[c] \in Nat
    BY DEF TypeInv, TypeOK
  <2> QED BY <2>1, <2>2
<1> QED BY <1>1, EventsTyped, DeliveryHolds, PTL

\* A stream with its job to itself never waits for an event that is there.
THEOREM SoleStreamSleepsWell == Spec => []SoleStreamIsCurrent
<1>1. TypeInv /\ DeliveryInv => SoleStreamIsCurrent
  <2> SUFFICES ASSUME TypeInv, DeliveryInv, NEW c \in Clients,
                      streams[c].pc = "waiting", streams[c].job \notin dropped,
                      Alone(c)
               PROVE  /\ streams[c].cursor = Len(buffers[streams[c].job])
                      /\ streams[c].job \notin done
    BY DEF SoleStreamIsCurrent, Alone
  <2>1. streams[c].pc \in Serving /\ streams[c].job \in Jobs
    BY DEF TypeInv, Serving
  <2> QED BY <2>1 DEF DeliveryInv, WakeInv
<1> QED BY <1>1, EventsTyped, DeliveryHolds, PTL

=============================================================================
