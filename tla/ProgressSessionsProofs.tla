----------------------- MODULE ProgressSessionsProofs -----------------------
(***************************************************************************)
(* Theorems about ProgressSessions, for any number of sessions and sockets *)
(* and any caps.                                                           *)
(***************************************************************************)
EXTENDS ProgressSessions, SequenceTheorems, TLAPS

\* A token that may still be consumed has let nobody pass.
TokensFresh ==
  \A c \in Channels : record[c] # "spent" => admitted[c] = 0

\* A socket in use has its channel; one in its handshake is not served yet.
SocketsPlaced ==
  /\ \A s \in Sockets : handler[s] # "none" \/ s \in shaking
                          => chan[s] \in Channels
  /\ \A s \in shaking : handler[s] = "none"

SessionInv == TypeOK /\ OneListenerPerSession /\ TokensFresh /\ SocketsPlaced

-----------------------------------------------------------------------------
(* The parts of the actions.                                               *)

Frames == {"auth", "message", "close"}

LEMMA NoneIsNoChannel == None \notin Channels /\ None \notin Sockets
  BY SessionAssumption DEF None, Channels, Sockets

LEMMA BoundsAreNat ==
  /\ FrameCap \in Nat /\ MaxAttempts \in Nat
  /\ 0 \in 0 .. FrameCap /\ 0 \in 0 .. MaxAttempts
  BY SessionAssumption

\* A broadcast adds at most the sockets it was given.
LEMMA BroadcastFacts ==
  ASSUME NEW c \in Channels, NEW S \in SUBSET Sockets, BroadcastTo(S, c),
         sent \in [Channels -> 0 .. FrameCap],
         connections \in [Channels -> SUBSET Sockets]
  PROVE  /\ sent' \in [Channels -> 0 .. FrameCap]
         /\ connections' \in [Channels -> SUBSET Sockets]
         /\ connections'[c] \subseteq S
         /\ \A d \in Channels : d # c => connections'[d] = connections[d]
  <1> USE SessionAssumption
  <1>1. CASE S = {} \/ sent[c] >= FrameCap
    BY <1>1 DEF BroadcastTo
  <1>2. CASE ~(S = {} \/ sent[c] >= FrameCap)
    <2>1. PICK failing \in SUBSET (S \cap broken) :
            /\ connections' = [connections EXCEPT ![c] = S \ failing]
            /\ sent' = [sent EXCEPT ![c] = @ + 1]
      BY <1>2 DEF BroadcastTo
    <2>2. sent[c] \in 0 .. FrameCap - 1
      BY <1>2
    <2> QED BY <2>1, <2>2
  <1> QED BY <1>1, <1>2

LEMMA TailFrames ==
  ASSUME NEW s \in Sockets, up \in [Sockets -> Seq(Frames)], up[s] # <<>>
  PROVE  [up EXCEPT ![s] = Tail(@)] \in [Sockets -> Seq(Frames)]
  <1>1. Tail(up[s]) \in Seq(Frames)  BY HeadTailProperties
  <1> QED BY <1>1

\* The end of a handler.
LEMMA OverFacts ==
  ASSUME NEW s \in Sockets, TypeOK, Over(s)
  PROVE  /\ handler' = [handler EXCEPT ![s] = "none"]
         /\ handler' \in [Sockets -> {"none", "auth", "authed", "loop"}]
         /\ chan' = [chan EXCEPT ![s] = None]
         /\ chan' \in [Sockets -> Channels \cup {None}]
         /\ up' \in [Sockets -> Seq(Frames)]
         /\ broken' \subseteq Sockets
  BY EmptySeq, Zenon DEF TypeOK, Over, Frames

\* A handler that ends without a step of the channel leaves the invariant.
LEMMA OverKeeps ==
  ASSUME NEW s \in Sockets, Over(s), Closed(s),
         TypeOK, OneListenerPerSession, TokensFresh, SocketsPlaced,
         s \notin shaking, \A c \in Channels : s \notin connections[c],
         UNCHANGED <<record, sent, connections, client, admitted>>
  PROVE  SessionInv'
  <1>1. /\ handler' = [handler EXCEPT ![s] = "none"]
        /\ chan' = [chan EXCEPT ![s] = None]
    BY DEF Over
  <1>2. /\ handler' \in [Sockets -> {"none", "auth", "authed", "loop"}]
        /\ chan' \in [Sockets -> Channels \cup {None}]
        /\ up' \in [Sockets -> Seq({"auth", "message", "close"})]
        /\ broken' \subseteq Sockets
    BY OverFacts DEF Frames
  <1>3. closing' \subseteq Sockets
    BY DEF Closed, TypeOK
  <1>4. TypeOK'
    BY <1>2, <1>3 DEF client, TypeOK
  <1>5. OneListenerPerSession'
    BY <1>1 DEF OneListenerPerSession, TypeOK
  <1>6. TokensFresh'
    BY DEF TokensFresh
  <1>7. SocketsPlaced'
    BY <1>1 DEF client, SocketsPlaced, TypeOK
  <1> QED BY <1>4, <1>5, <1>6, <1>7 DEF SessionInv

\* _cleanupChannel.
LEMMA CleanupFacts ==
  ASSUME TypeOK, Cleanup
  PROVE  /\ heeded' \subseteq Sockets /\ current' = None
         /\ up' \in [Sockets -> Seq(Frames)]
         /\ broken' \subseteq Sockets /\ closing' \subseteq Sockets
         /\ handler' = handler
  <1>1. \A s \in Sockets : Append(up[s], "close") \in Seq(Frames)
    BY AppendProperties DEF TypeOK, Frames
  <1> QED BY <1>1 DEF TypeOK, Cleanup, Frames

LEMMA ConnectFacts ==
  ASSUME TypeOK, NEW c \in Channels, NEW tries, PerformConnect(c, tries)
  PROVE  /\ NextSocket \in Spare /\ NextSocket \in Sockets
         /\ shaking' = shaking \cup {NextSocket}
         /\ chan' = [chan EXCEPT ![NextSocket] = c]
         /\ chan' \in [Sockets -> Channels \cup {None}]
         /\ state' \in {"connecting", "reconnecting"}
  BY DEF TypeOK, PerformConnect, Spare, NextSocket

LEMMA ScheduleFacts ==
  ASSUME NEW otherwise, Schedule(otherwise), attempts \in 0 .. MaxAttempts,
         timer \in BOOLEAN
  PROVE  /\ state' \in {otherwise, "closed"}
         /\ attempts' \in 0 .. MaxAttempts
         /\ timer' \in BOOLEAN
  <1> USE SessionAssumption
  <1>1. CASE manual \/ session = None
    BY <1>1 DEF Schedule
  <1>2. CASE ~(manual \/ session = None) /\ attempts >= MaxAttempts
    BY <1>2 DEF Schedule
  <1>3. CASE ~(manual \/ session = None) /\ ~(attempts >= MaxAttempts)
    BY <1>3 DEF Schedule
  <1> QED BY <1>1, <1>2, <1>3

-----------------------------------------------------------------------------

\* The invariant is established, and kept by every step of the server, the
\* network and the client.
LEMMA SessionInvariant == Spec => []SessionInv
<1>1. Init => SessionInv
  <2> SUFFICES ASSUME Init PROVE SessionInv
    OBVIOUS
  <2>1. up \in [Sockets -> Seq({"auth", "message", "close"})]
    BY EmptySeq DEF Init
  <2>2. TypeOK
    BY <2>1, BoundsAreNat DEF Init, TypeOK
  <2>3. OneListenerPerSession /\ TokensFresh /\ SocketsPlaced
    BY DEF Init, OneListenerPerSession, TokensFresh, SocketsPlaced
  <2> QED BY <2>2, <2>3 DEF SessionInv
<1>2. SessionInv /\ [Next]_vars => SessionInv'
  <2> SUFFICES ASSUME SessionInv, [Next]_vars PROVE SessionInv'
    OBVIOUS
  <2> USE SessionAssumption, NoneIsNoChannel
  <2>0. TypeOK /\ OneListenerPerSession /\ TokensFresh /\ SocketsPlaced
    BY DEF SessionInv
  <2>1. ASSUME NEW c \in Channels, Connect(c) PROVE SessionInv'
    <3>1. /\ PerformConnect(c, 0) /\ Cleanup
          /\ record[c] = "none" /\ record' = [record EXCEPT ![c] = "fresh"]
          /\ manual' = FALSE /\ attempts' = 0 /\ session' = c
          /\ UNCHANGED <<sent, connections, admitted, timer, handler>>
      BY <2>1 DEF Connect, OpenChannel, PerformConnect, Cleanup
    <3>2. /\ heeded' \subseteq Sockets /\ current' = None
          /\ up' \in [Sockets -> Seq({"auth", "message", "close"})]
          /\ broken' \subseteq Sockets /\ closing' \subseteq Sockets
      BY <2>0, <3>1, CleanupFacts DEF Frames
    <3>3. PICK n \in Spare :
            /\ n \in Sockets
            /\ shaking' = shaking \cup {n}
            /\ chan' = [chan EXCEPT ![n] = c]
            /\ chan' \in [Sockets -> Channels \cup {None}]
            /\ state' \in {"connecting", "reconnecting"}
      BY <2>0, <3>1, ConnectFacts
    <3>4. TypeOK'
      BY <2>0, <3>1, <3>2, <3>3, BoundsAreNat DEF TypeOK
    <3>5. \A d \in Channels : n \notin connections[d]
      BY <2>0, <3>3 DEF OneListenerPerSession, Spare
    <3>6. OneListenerPerSession'
      BY <2>0, <3>1, <3>3, <3>5 DEF OneListenerPerSession, TypeOK
    <3>7. TokensFresh'
      BY <2>0, <3>1 DEF TokensFresh, TypeOK
    <3>8. SocketsPlaced'
      BY <2>0, <3>1, <3>3 DEF SocketsPlaced, TypeOK, Spare
    <3> QED BY <3>4, <3>6, <3>7, <3>8 DEF SessionInv
  <2>2. ASSUME NEW c \in Channels, Prune(c) PROVE SessionInv'
    BY <2>0, <2>2
    DEF Prune, network, client, SessionInv, TypeOK, OneListenerPerSession,
        TokensFresh, SocketsPlaced
  <2>3. ASSUME NEW c \in Channels, Progress(c) PROVE SessionInv'
    <3>1. connections[c] \in SUBSET Sockets
      BY <2>0 DEF TypeOK
    <3>2. /\ sent' \in [Channels -> 0 .. FrameCap]
          /\ connections' \in [Channels -> SUBSET Sockets]
          /\ \A d \in Channels : connections'[d] \subseteq connections[d]
      BY <2>0, <2>3, <3>1, BroadcastFacts DEF Progress, Broadcast, TypeOK
    <3> QED
      BY <2>0, <2>3, <3>2
      DEF Progress, network, client, SessionInv, TypeOK,
          OneListenerPerSession, TokensFresh, SocketsPlaced
  <2>4. ASSUME NEW s \in Sockets, Authenticate(s) PROVE SessionInv'
    <3>0. chan[s] \in Channels /\ s \notin shaking
      BY <2>0, <2>4 DEF Authenticate, SocketsPlaced
    <3>1. \A c \in Channels : s \notin connections[c]
      BY <2>0, <2>4 DEF Authenticate, OneListenerPerSession
    <3>2. CASE record[chan[s]] = "fresh"
      <4>1. admitted[chan[s]] = 0
        BY <2>0, <3>0, <3>2 DEF TokensFresh
      <4>2. up' \in [Sockets -> Seq(Frames)]
        <5>1. up[s] # <<>> /\ up' = [up EXCEPT ![s] = Tail(@)]
          BY <2>4, <3>2 DEF Authenticate
        <5>2. up \in [Sockets -> Seq(Frames)]
          BY <2>0 DEF TypeOK, Frames
        <5> QED BY <5>1, <5>2, TailFrames
      <4>3. /\ record' = [record EXCEPT ![chan[s]] = "spent"]
            /\ handler' = [handler EXCEPT ![s] = "authed"]
            /\ admitted' = [admitted EXCEPT ![chan[s]] = @ + 1]
            /\ UNCHANGED <<chan, broken, closing, sent, connections, client>>
        BY <2>4, <3>2 DEF Authenticate
      <4>4. TypeOK'
        <5>1. record' \in [Channels -> {"none", "fresh", "spent"}]
          BY <2>0, <3>0, <4>3 DEF TypeOK
        <5>2. handler' \in [Sockets -> {"none", "auth", "authed", "loop"}]
          BY <2>0, <4>3 DEF TypeOK
        <5>3. admitted' \in [Channels -> Nat]
          <6>1. admitted \in [Channels -> Nat] /\ admitted[chan[s]] + 1 \in Nat
            BY <2>0, <3>0 DEF TypeOK
          <6> QED BY <4>3, <6>1
        <5>4. UNCHANGED <<sent, connections, chan, broken, closing, shaking,
                          heeded, current, state, manual, timer, attempts,
                          session>>
          BY <4>3, Zenon DEF client
        <5> QED BY <2>0, <4>2, <5>1, <5>2, <5>3, <5>4 DEF TypeOK, Frames
      <4>5. OneListenerPerSession'
        BY <2>0, <3>0, <3>1, <4>1, <4>3 DEF OneListenerPerSession, TypeOK
      <4>6. TokensFresh'
        BY <2>0, <3>0, <4>3 DEF TokensFresh, TypeOK
      <4>7. SocketsPlaced'
        BY <2>0, <3>0, <4>3 DEF client, SocketsPlaced, TypeOK
      <4> QED BY <4>4, <4>5, <4>6, <4>7 DEF SessionInv
    <3>3. CASE record[chan[s]] # "fresh"
      <4>1. Over(s) /\ Closed(s)
            /\ UNCHANGED <<record, admitted, sent, connections, client>>
        BY <2>4, <3>3 DEF Authenticate
      <4> QED BY <2>0, <3>0, <3>1, <4>1, OverKeeps
    <3> QED BY <3>2, <3>3
  <2>5. ASSUME NEW s \in Sockets, AuthMissing(s) PROVE SessionInv'
    <3>1. s \notin shaking /\ \A c \in Channels : s \notin connections[c]
      BY <2>0, <2>5 DEF AuthMissing, OneListenerPerSession, SocketsPlaced
    <3> QED BY <2>0, <2>5, <3>1, OverKeeps DEF AuthMissing
  <2>6. ASSUME NEW s \in Sockets, Attach(s) PROVE SessionInv'
    <3>0. chan[s] \in Channels /\ s \notin shaking
      BY <2>0, <2>6 DEF Attach, SocketsPlaced
    <3>1. connections[chan[s]] \cup {s} \in SUBSET Sockets
      BY <2>0, <3>0 DEF TypeOK
    <3>2. /\ sent' \in [Channels -> 0 .. FrameCap]
          /\ connections' \in [Channels -> SUBSET Sockets]
          /\ connections'[chan[s]] \subseteq connections[chan[s]] \cup {s}
          /\ \A d \in Channels :
               d # chan[s] => connections'[d] = connections[d]
      <4>1. BroadcastTo(connections[chan[s]] \cup {s}, chan[s])
        BY <2>6 DEF Attach
      <4>2. /\ sent \in [Channels -> 0 .. FrameCap]
            /\ connections \in [Channels -> SUBSET Sockets]
        BY <2>0 DEF TypeOK
      <4> QED BY <3>0, <3>1, <4>1, <4>2, BroadcastFacts
    <3>3. /\ handler' = [handler EXCEPT ![s] = "loop"]
          /\ UNCHANGED <<record, network, client, admitted>>
      BY <2>6 DEF Attach
    <3>4. TypeOK'
      BY <2>0, <3>2, <3>3 DEF network, client, TypeOK
    <3>5. ASSUME NEW d \in Channels, NEW q \in connections'[d]
          PROVE  handler'[q] = "loop" /\ chan'[q] = d
      <4>1. q \in Sockets
        BY <3>2, <3>5
      <4>2. CASE q = s
        <5>1. d = chan[s]
          BY <2>0, <2>6, <3>2, <3>5, <4>2 DEF Attach, OneListenerPerSession
        <5> QED BY <2>0, <3>3, <4>2, <5>1 DEF network, TypeOK
      <4>3. CASE q # s
        <5>1. q \in connections[d]
          BY <3>2, <3>5, <4>3
        <5> QED
          BY <2>0, <3>3, <4>1, <4>3, <5>1
          DEF network, TypeOK, OneListenerPerSession
      <4> QED BY <4>2, <4>3
    <3>6. OneListenerPerSession'
      BY <2>0, <3>3, <3>5 DEF OneListenerPerSession
    <3>7. TokensFresh' /\ SocketsPlaced'
      BY <2>0, <3>0, <3>3
      DEF network, client, TokensFresh, SocketsPlaced, TypeOK
    <3> QED BY <3>4, <3>6, <3>7 DEF SessionInv
  <2>7. ASSUME NEW s \in Sockets, Receive(s) PROVE SessionInv'
    <3>0. chan[s] \in Channels
      BY <2>0, <2>7 DEF Receive, SocketsPlaced
    <3>1. connections[chan[s]] \in SUBSET Sockets
      BY <2>0, <3>0 DEF TypeOK
    <3>2. /\ sent' \in [Channels -> 0 .. FrameCap]
          /\ connections' \in [Channels -> SUBSET Sockets]
          /\ \A d \in Channels : connections'[d] \subseteq connections[d]
      <4>1. BroadcastTo(connections[chan[s]], chan[s])
        BY <2>7 DEF Receive, Broadcast
      <4>2. /\ sent \in [Channels -> 0 .. FrameCap]
            /\ connections \in [Channels -> SUBSET Sockets]
        BY <2>0 DEF TypeOK
      <4> QED BY <3>0, <3>1, <4>1, <4>2, BroadcastFacts
    <3>3. up' \in [Sockets -> Seq(Frames)]
      <4>1. up[s] # <<>> /\ up' = [up EXCEPT ![s] = Tail(@)]
        BY <2>7 DEF Receive
      <4>2. up \in [Sockets -> Seq(Frames)]
        BY <2>0 DEF TypeOK, Frames
      <4> QED BY <4>1, <4>2, TailFrames
    <3>4. UNCHANGED <<record, handler, chan, broken, closing, client,
                      admitted>>
      BY <2>7 DEF Receive
    <3>5. TypeOK'
      BY <2>0, <3>2, <3>3, <3>4 DEF client, TypeOK, Frames
    <3>6. OneListenerPerSession'
      BY <2>0, <3>2, <3>4 DEF OneListenerPerSession
    <3>7. TokensFresh' /\ SocketsPlaced'
      BY <2>0, <3>4 DEF client, TokensFresh, SocketsPlaced
    <3> QED BY <3>5, <3>6, <3>7 DEF SessionInv
  <2>8. ASSUME NEW s \in Sockets, HandlerEnds(s) PROVE SessionInv'
    <3>0. chan[s] \in Channels /\ s \notin shaking
      BY <2>0, <2>8 DEF HandlerEnds, SocketsPlaced
    <3>1. \A c \in Channels : c # chan[s] => s \notin connections[c]
      BY <2>0 DEF OneListenerPerSession
    <3>2. /\ connections' = [connections EXCEPT ![chan[s]] = @ \ {s}]
          /\ handler' = [handler EXCEPT ![s] = "none"]
          /\ chan' = [chan EXCEPT ![s] = None]
          /\ UNCHANGED <<record, sent, closing, client, admitted>>
      BY <2>8 DEF HandlerEnds, Over
    <3>3. /\ handler' \in [Sockets -> {"none", "auth", "authed", "loop"}]
          /\ chan' \in [Sockets -> Channels \cup {None}]
          /\ up' \in [Sockets -> Seq({"auth", "message", "close"})]
          /\ broken' \subseteq Sockets
      BY <2>0, <2>8, OverFacts DEF HandlerEnds, Frames
    <3>4. TypeOK'
      BY <2>0, <3>0, <3>2, <3>3 DEF client, TypeOK
    <3>5. OneListenerPerSession'
      BY <2>0, <3>0, <3>1, <3>2 DEF OneListenerPerSession, TypeOK
    <3>6. TokensFresh' /\ SocketsPlaced'
      BY <2>0, <3>0, <3>2 DEF client, TokensFresh, SocketsPlaced, TypeOK
    <3> QED BY <3>4, <3>5, <3>6 DEF SessionInv
  <2>9. ASSUME NEW s \in Sockets, Break(s) PROVE SessionInv'
    BY <2>0, <2>9
    DEF Break, server, client, SessionInv, TypeOK, OneListenerPerSession,
        TokensFresh, SocketsPlaced
  <2>10. ASSUME NEW s \in Sockets, StreamDone(s) PROVE SessionInv'
    <3>1. /\ state' \in {"closed", "disconnected"}
          /\ attempts' \in 0 .. MaxAttempts /\ timer' \in BOOLEAN
      <4>1. CASE manual
        BY <2>0, <2>10, <4>1 DEF StreamDone, TypeOK
      <4>2. CASE ~manual
        BY <2>0, <2>10, <4>2, ScheduleFacts DEF StreamDone, TypeOK
      <4> QED BY <4>1, <4>2
    <3>2. broken' \subseteq Sockets
      BY <2>0, <2>10 DEF StreamDone, TypeOK
    <3> QED
      BY <2>0, <2>10, <3>1, <3>2
      DEF StreamDone, server, SessionInv, TypeOK, OneListenerPerSession,
          TokensFresh, SocketsPlaced
  <2>11. ASSUME NEW s \in Sockets, Ready(s) PROVE SessionInv'
    <3>1. <<"auth">> \in Seq(Frames)
      BY DEF Frames
    <3>2. handler[s] = "none" /\ chan[s] \in Channels
      BY <2>0, <2>11 DEF Ready, SocketsPlaced
    <3> QED
      BY <2>0, <2>11, <3>1, <3>2
      DEF Ready, SessionInv, TypeOK, Frames, OneListenerPerSession,
          TokensFresh, SocketsPlaced
  <2>12. ASSUME NEW s \in Sockets, ReadyFails(s) PROVE SessionInv'
    <3>1. /\ state' \in {"error", "closed"}
          /\ attempts' \in 0 .. MaxAttempts /\ timer' \in BOOLEAN
      BY <2>0, <2>12, ScheduleFacts DEF ReadyFails, TypeOK
    <3>2. handler[s] = "none"
      BY <2>0, <2>12 DEF ReadyFails, SocketsPlaced
    <3> QED
      BY SMTT(20), <2>0, <2>12, <3>1, <3>2
      DEF ReadyFails, server, SessionInv, TypeOK, OneListenerPerSession,
          TokensFresh, SocketsPlaced
  <2>13. CASE TimerFires
    <3>1. CASE manual \/ session = None
      <4>1. timer' = FALSE
            /\ UNCHANGED <<server, network, admitted, shaking, current,
                           heeded, state, manual, attempts, session>>
        BY <2>13, <3>1 DEF TimerFires
      <4>2. TypeOK'
        BY <2>0, <4>1 DEF server, network, TypeOK
      <4> QED
        BY <2>0, <4>1, <4>2
        DEF server, network, SessionInv, OneListenerPerSession, TokensFresh,
            SocketsPlaced
    <3>2. CASE ~(manual \/ session = None)
      <4>1. /\ session \in Channels /\ PerformConnect(session, attempts)
            /\ Cleanup /\ timer' = FALSE
            /\ UNCHANGED <<record, sent, connections, admitted, handler,
                           manual, attempts, session>>
        BY <2>0, <2>13, <3>2 DEF TimerFires, TypeOK, PerformConnect, Cleanup
      <4>2. /\ heeded' \subseteq Sockets /\ current' = None
            /\ up' \in [Sockets -> Seq({"auth", "message", "close"})]
            /\ broken' \subseteq Sockets /\ closing' \subseteq Sockets
        BY <2>0, <4>1, CleanupFacts DEF Frames
      <4>3. PICK n \in Spare :
              /\ n \in Sockets
              /\ shaking' = shaking \cup {n}
              /\ chan' = [chan EXCEPT ![n] = session]
              /\ chan' \in [Sockets -> Channels \cup {None}]
              /\ state' \in {"connecting", "reconnecting"}
        BY <2>0, <4>1, ConnectFacts
      <4>4. TypeOK'
        BY <2>0, <4>1, <4>2, <4>3 DEF TypeOK
      <4>5. \A d \in Channels : n \notin connections[d]
        BY <2>0, <4>3 DEF OneListenerPerSession, Spare
      <4>6. OneListenerPerSession'
        BY <2>0, <4>1, <4>3, <4>5 DEF OneListenerPerSession, TypeOK
      <4>7. TokensFresh'
        BY <2>0, <4>1 DEF TokensFresh
      <4>8. SocketsPlaced'
        BY <2>0, <4>1, <4>3 DEF SocketsPlaced, TypeOK, Spare
      <4> QED BY <4>4, <4>6, <4>7, <4>8 DEF SessionInv
    <3> QED BY <3>1, <3>2
  <2>14. CASE SendUp
    <3>1. current \in Sockets
      BY <2>0, <2>14 DEF SendUp, TypeOK
    <3>2. Append(up[current], "message") \in Seq(Frames)
      BY <2>0, <3>1, AppendProperties DEF TypeOK, Frames
    <3>3. /\ up' = [up EXCEPT ![current] = Append(@, "message")]
          /\ UNCHANGED <<server, chan, broken, closing, client, admitted>>
      BY <2>14 DEF SendUp
    <3>4. up' \in [Sockets -> Seq(Frames)]
      BY <2>0, <3>1, <3>2, <3>3 DEF TypeOK, Frames
    <3>5. TypeOK'
      BY <2>0, <3>3, <3>4 DEF server, client, TypeOK, Frames
    <3> QED
      BY <2>0, <3>3, <3>5
      DEF server, client, SessionInv, OneListenerPerSession, TokensFresh,
          SocketsPlaced
  <2>15. CASE WatchdogFires
    <3>1. /\ state' \in {"error", "closed"}
          /\ attempts' \in 0 .. MaxAttempts /\ timer' \in BOOLEAN
      BY <2>0, <2>15, ScheduleFacts DEF WatchdogFires, TypeOK
    <3> QED
      BY <2>0, <2>15, <3>1
      DEF WatchdogFires, server, network, SessionInv, TypeOK,
          OneListenerPerSession, TokensFresh, SocketsPlaced
  <2>16. CASE Disconnect
    BY ZenonT(30), <2>0, <2>16, CleanupFacts
    DEF Disconnect, SessionInv, TypeOK, Frames, OneListenerPerSession,
        TokensFresh, SocketsPlaced
  <2>17. CASE UNCHANGED vars
    BY <2>0, <2>17
    DEF vars, server, network, client, SessionInv, TypeOK,
        OneListenerPerSession, TokensFresh, SocketsPlaced
  <2> QED
    BY <2>1, <2>2, <2>3, <2>4, <2>5, <2>6, <2>7, <2>8, <2>9, <2>10, <2>11,
       <2>12, <2>13, <2>14, <2>15, <2>16, <2>17
    DEF Next, Serve, HandshakeEnds
<1> QED BY <1>1, <1>2, PTL DEF Spec

\* Every variable keeps its type; in particular the frames of a channel and
\* the client's attempts stay within their caps, whatever those are.
THEOREM SessionsType == Spec => []TypeOK
<1>1. SessionInv => TypeOK
  BY DEF SessionInv
<1> QED BY <1>1, SessionInvariant, PTL

\* A session's token lets one socket pass, and the registry holds served
\* sockets only, for any number of sessions, sockets and reconnections.
THEOREM OneListener == Spec => []OneListenerPerSession
<1>1. SessionInv => OneListenerPerSession
  BY DEF SessionInv
<1> QED BY <1>1, SessionInvariant, PTL
=============================================================================
