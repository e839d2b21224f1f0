-------------------------- MODULE ProgressSessions --------------------------
(***************************************************************************)
(* The progress sockets: the channels and the WebSocket handler of         *)
(* plugins/progress.py and the client of                                   *)
(* client/lib/core/websocket/ws_client.dart (WsClient) that reconnects.    *)
(*                                                                         *)
(* The user interface opens a session for each document, connects the one  *)
(* WsClient to it, and disconnects.  A socket carries the frames of the    *)
(* client up, in order; it may break, which either side may notice first,  *)
(* or never.  A broadcast to a broken socket is lost, or fails and         *)
(* detaches the socket.  The frames down are for the display and put off   *)
(* the client's watchdog, so that it may find a ping unanswered at any     *)
(* time; of what comes down only the server's closing is followed.         *)
(*                                                                         *)
(* Left out: the tokens themselves (the client presents the one of its     *)
(* session), the check of the Origin, frames that are not understood, the  *)
(* time a send takes, errors of a stream that do not end it, and the marks *)
(* of cancelled channels (`cancelled' in module HybridWorkflow).           *)
(***************************************************************************)
EXTENDS Naturals, Sequences

CONSTANTS
  MaxSessions,  \* bound: sessions the user interface opens
  MaxSockets,   \* bound: sockets in use at a time
  MaxAttempts,  \* maxReconnectAttempts (5)
  FrameCap,     \* frame_cap (1000)
  MaxUp         \* bound: frames on their way up when another is sent

ASSUME SessionAssumption ==
  {MaxSessions, MaxSockets, MaxAttempts, FrameCap, MaxUp} \subseteq Nat

Channels == 1 .. MaxSessions
Sockets  == 1 .. MaxSockets
None     == 0

VARIABLES
  record,       \* the row of a channel; spent: consumed, or pruned
  sent,         \* _frame_counts
  connections,  \* _connections
  handler,      \* what _handle_ws does for a socket
  chan,         \* the channel a socket was opened for
  up,           \* frames of the client on their way
  broken,       \* sockets whose connection broke
  closing,      \* sockets the server closed, which the client has yet to see
  shaking,      \* client: the sockets in `await channel.ready`
  current,      \* _channel, and _channelSub on it
  heeded,       \* the sockets whose frames and closing are delivered
  state, manual, attempts, timer,
  session,      \* _currentChannelId: the latest of the sessions
  admitted      \* history: how many sockets passed for a channel

server == <<record, sent, connections, handler>>
network == <<chan, up, broken, closing>>
client == <<shaking, current, heeded, state, manual, attempts, timer, session>>
vars == <<server, network, client, admitted>>

Init ==
  /\ record = [c \in Channels |-> "none"]
  /\ sent = [c \in Channels |-> 0]
  /\ connections = [c \in Channels |-> {}]
  /\ handler = [s \in Sockets |-> "none"]
  /\ chan = [s \in Sockets |-> None]
  /\ up = [s \in Sockets |-> <<>>] /\ broken = {} /\ closing = {}
  /\ shaking = {} /\ current = None /\ heeded = {}
  /\ state = "disconnected" /\ manual = FALSE /\ attempts = 0
  /\ timer = FALSE /\ session = None
  /\ admitted = [c \in Channels |-> 0]

-----------------------------------------------------------------------------
(* The server.                                                             *)

\* broadcast() to the sockets of S: nothing without a socket, and nothing any
\* more beyond the cap.
BroadcastTo(S, c) ==
  IF S = {} \/ sent[c] >= FrameCap
    THEN connections' = [connections EXCEPT ![c] = S] /\ UNCHANGED sent
    ELSE /\ sent' = [sent EXCEPT ![c] = @ + 1]
         /\ \E failing \in SUBSET (S \cap broken) :
              connections' = [connections EXCEPT ![c] = S \ failing]

Broadcast(c) == BroadcastTo(connections[c], c)

\* open_channel, for POST /api/progress/session.
OpenChannel(c) ==
  record[c] = "none" /\ record' = [record EXCEPT ![c] = "fresh"]

\* The cleanup loop finds a row older than channel_ttl_seconds; one that was
\* consumed is as good as gone.
Prune(c) ==
  /\ record[c] = "fresh"
  /\ record' = [record EXCEPT ![c] = "spent"]
  /\ UNCHANGED <<sent, connections, handler, network, client, admitted>>

\* The handler of s is done: nobody reads what comes up any more.
Over(s) ==
  /\ handler' = [handler EXCEPT ![s] = "none"]
  /\ chan' = [chan EXCEPT ![s] = None] /\ up' = [up EXCEPT ![s] = <<>>]
  /\ broken' = IF s \in heeded THEN broken ELSE broken \ {s}

\* websocket.close().
Closed(s) == closing' = closing \cup ({s} \cap heeded)

\* Mutated form: the token is compared but not consumed.
AuthenticateOnly(s) ==
  /\ handler[s] = "auth" /\ up[s] # <<>> /\ Head(up[s]) = "auth"
  /\ IF record[chan[s]] = "fresh"
       THEN /\ handler' = [handler EXCEPT ![s] = "authed"]
            /\ up' = [up EXCEPT ![s] = Tail(@)]
            /\ admitted' = [admitted EXCEPT ![chan[s]] = @ + 1]
            /\ UNCHANGED <<record, chan, broken, closing>>
       ELSE Over(s) /\ Closed(s) /\ UNCHANGED <<record, admitted>>
  /\ UNCHANGED <<sent, connections, client>>

\* The auth frame: consume_channel lets the socket pass that comes first.
Authenticate(s) ==
  /\ handler[s] = "auth" /\ up[s] # <<>> /\ Head(up[s]) = "auth"
  /\ IF record[chan[s]] = "fresh"
       THEN /\ record' = [record EXCEPT ![chan[s]] = "spent"]
            /\ handler' = [handler EXCEPT ![s] = "authed"]
            /\ up' = [up EXCEPT ![s] = Tail(@)]
            /\ admitted' = [admitted EXCEPT ![chan[s]] = @ + 1]
            /\ UNCHANGED <<chan, broken, closing>>
       ELSE Over(s) /\ Closed(s) /\ UNCHANGED <<record, admitted>>
  /\ UNCHANGED <<sent, connections, client>>

\* No auth frame in time, or a socket that closes or breaks before it.
AuthMissing(s) ==
  /\ handler[s] = "auth"
  /\ Over(s) /\ Closed(s)
  /\ UNCHANGED <<record, sent, connections, client, admitted>>

\* The backend has answered: attach, and the first broadcast.
Attach(s) ==
  /\ handler[s] = "authed"
  /\ handler' = [handler EXCEPT ![s] = "loop"]
  /\ BroadcastTo(connections[chan[s]] \cup {s}, chan[s])
  /\ UNCHANGED <<record, network, client, admitted>>

\* A frame of the client: a ping is answered with a pong, a cancel with
\* cancelled.
Receive(s) ==
  /\ handler[s] = "loop" /\ up[s] # <<>> /\ Head(up[s]) = "message"
  /\ up' = [up EXCEPT ![s] = Tail(@)]
  /\ Broadcast(chan[s])
  /\ UNCHANGED <<record, handler, chan, broken, closing, client, admitted>>

\* WebSocketDisconnect: the handler detaches its socket and ends.
HandlerEnds(s) ==
  /\ handler[s] = "loop"
  /\ s \in broken \/ (up[s] # <<>> /\ Head(up[s]) = "close")
  /\ Over(s)
  /\ connections' = [connections EXCEPT ![chan[s]] = @ \ {s}]
  /\ UNCHANGED <<record, sent, closing, client, admitted>>

\* The job of a channel reports progress, or the channel is cancelled through
\* its route.
Progress(c) ==
  /\ Broadcast(c)
  /\ UNCHANGED <<record, handler, network, client, admitted>>

-----------------------------------------------------------------------------
(* The client.  A callback is one step; connect() is in two, before and    *)
(* after `await channel.ready`.                                            *)

\* The next socket: sockets are alike, and one that nobody uses any more stands
\* for a new one.
Spare == {s \in Sockets : handler[s] = "none" /\ s \notin shaking \cup heeded}

NextSocket == CHOOSE s \in Spare : TRUE

\* _cleanupChannel: the current socket is closed and no longer listened to.
Cleanup ==
  /\ heeded' = heeded \ {current} /\ current' = None
  /\ up' = [s \in Sockets |->
              IF s = current /\ handler[s] # "none" THEN Append(up[s], "close")
                                                    ELSE up[s]]
  /\ broken' = broken \ {current} /\ closing' = closing \ {current}
  /\ UNCHANGED handler

\* _performConnect up to the await.
PerformConnect(c, tries) ==
  /\ Spare # {}
  /\ Cleanup
  /\ state' = IF tries > 0 THEN "reconnecting" ELSE "connecting"
  /\ shaking' = shaking \cup {NextSocket}
  /\ chan' = [chan EXCEPT ![NextSocket] = c]
  /\ UNCHANGED <<sent, connections, admitted>>

\* The user interface opens a session and connects to it at once.  connect()
\* leaves a reconnection scheduled that is.
Connect(c) ==
  /\ c = session + 1 /\ OpenChannel(c)
  /\ manual' = FALSE /\ attempts' = 0 /\ session' = c
  /\ PerformConnect(c, 0)
  /\ UNCHANGED timer

\* The server accepts; the client takes the socket, forgets its failures and
\* sends the auth frame.  A socket it may have had meanwhile is not closed.
Ready(s) ==
  /\ s \in shaking
  /\ shaking' = shaking \ {s}
  /\ handler' = [handler EXCEPT ![s] = "auth"]
  /\ up' = [up EXCEPT ![s] = <<"auth">>]
  /\ current' = s /\ heeded' = heeded \cup {s}
  /\ state' = "connected" /\ attempts' = 0
  /\ UNCHANGED <<record, sent, connections, chan, broken, closing, manual,
                 timer, session, admitted>>

\* Mutated form: one reconnection too many.
ScheduleOnceMore(otherwise) ==
  IF manual \/ session = None
    THEN state' = otherwise /\ UNCHANGED <<attempts, timer>>
    ELSE IF attempts > MaxAttempts
           THEN state' = "closed" /\ UNCHANGED <<attempts, timer>>
           ELSE state' = otherwise /\ attempts' = attempts + 1 /\ timer' = TRUE

\* Mutated form: the attempts are not counted.
ScheduleUncounted(otherwise) ==
  IF manual \/ session = None
    THEN state' = otherwise /\ UNCHANGED <<attempts, timer>>
    ELSE state' = otherwise /\ timer' = TRUE /\ UNCHANGED attempts

\* _scheduleReconnect, behind a change of the state.
Schedule(otherwise) ==
  IF manual \/ session = None
    THEN state' = otherwise /\ UNCHANGED <<attempts, timer>>
    ELSE IF attempts >= MaxAttempts
           THEN state' = "closed" /\ UNCHANGED <<attempts, timer>>
           ELSE state' = otherwise /\ attempts' = attempts + 1 /\ timer' = TRUE

\* No connection.
ReadyFails(s) ==
  /\ s \in shaking
  /\ shaking' = shaking \ {s} /\ chan' = [chan EXCEPT ![s] = None]
  /\ Schedule("error")
  /\ UNCHANGED <<server, up, broken, closing, current, heeded, manual, session,
                 admitted>>

TimerFires ==
  /\ timer /\ timer' = FALSE
  /\ IF manual \/ session = None
       THEN UNCHANGED <<server, network, admitted, shaking, current, heeded,
                        state>>
       ELSE PerformConnect(session, attempts) /\ UNCHANGED record
  /\ UNCHANGED <<manual, attempts, session>>

\* onDone: the server closed the socket, or it broke.
StreamDone(s) ==
  /\ s \in heeded \cap (broken \cup closing)
  /\ heeded' = heeded \ {s} /\ closing' = closing \ {s}
  /\ broken' = IF handler[s] = "none" THEN broken \ {s} ELSE broken
  /\ IF manual THEN state' = "closed" /\ UNCHANGED <<attempts, timer>>
               ELSE Schedule("disconnected")
  /\ UNCHANGED <<server, chan, up, shaking, current, manual, session, admitted>>

\* A ping of the keep-alive timer, or cancelChannel().
SendUp ==
  /\ current # None /\ state = "connected"
  /\ Len(up[current]) < MaxUp
  /\ up' = [up EXCEPT ![current] = Append(@, "message")]
  /\ UNCHANGED <<server, chan, broken, closing, client, admitted>>

\* No frame has come since the ping.
WatchdogFires ==
  /\ current # None /\ state = "connected"
  /\ Schedule("error")
  /\ UNCHANGED <<server, network, shaking, current, heeded, manual, session,
                 admitted>>

\* disconnect(): a connect() under way goes on.
Disconnect ==
  /\ session # None /\ ~manual
  /\ manual' = TRUE /\ timer' = FALSE
  /\ Cleanup
  /\ state' = "disconnected"
  /\ UNCHANGED <<record, sent, connections, chan, shaking, attempts, session,
                 admitted>>

\* A connection breaks that the client has not closed; before the socket has
\* passed, AuthMissing stands for it.
Break(s) ==
  /\ s \in heeded \ broken /\ handler[s] \in {"authed", "loop"}
  /\ broken' = broken \cup {s}
  /\ UNCHANGED <<server, chan, up, closing, client, admitted>>

-----------------------------------------------------------------------------

\* What the event loop of the server does in time for a socket.
Serve(s) == Authenticate(s) \/ AuthMissing(s) \/ Attach(s) \/ Receive(s)
            \/ HandlerEnds(s)

HandshakeEnds == \E s \in Sockets : Ready(s) \/ ReadyFails(s)

Next ==
  \/ \E c \in Channels : Connect(c) \/ Prune(c) \/ Progress(c)
  \/ \E s \in Sockets : Serve(s) \/ Break(s) \/ StreamDone(s)
  \/ HandshakeEnds \/ TimerFires
  \/ SendUp \/ WatchdogFires \/ Disconnect

Spec == Init /\ [][Next]_vars

\* The server's event loop goes on, a handshake ends one way or the other, the
\* timer fires, and a stream that ended is delivered.
FairSpec ==
  /\ Spec
  /\ WF_vars(HandshakeEnds) /\ WF_vars(TimerFires)
  /\ \A s \in Sockets : WF_vars(Serve(s)) /\ WF_vars(StreamDone(s))

-----------------------------------------------------------------------------
(* Properties.                                                             *)

\* The counters stay within their limits; everything else has its type.
TypeOK ==
  /\ record \in [Channels -> {"none", "fresh", "spent"}]
  /\ sent \in [Channels -> 0 .. FrameCap]
  /\ connections \in [Channels -> SUBSET Sockets]
  /\ handler \in [Sockets -> {"none", "auth", "authed", "loop"}]
  /\ chan \in [Sockets -> Channels \cup {None}]
  /\ up \in [Sockets -> Seq({"auth", "message", "close"})]
  /\ broken \subseteq Sockets /\ closing \subseteq Sockets
  /\ shaking \subseteq Sockets /\ heeded \subseteq Sockets
  /\ current \in Sockets \cup {None}
  /\ state \in {"disconnected", "connecting", "connected", "reconnecting",
                "error", "closed"}
  /\ manual \in BOOLEAN /\ timer \in BOOLEAN
  /\ attempts \in 0 .. MaxAttempts
  /\ session \in Channels \cup {None}
  /\ admitted \in [Channels -> Nat]

\* A session has one listener: its token lets one socket pass in all, however
\* often the client reconnects and whatever sockets it forgot to close, and
\* the registry holds a socket only while its handler serves it for that
\* channel, so that broken sockets leave no entry behind.  (consume_channel,
\* attach and detach.)
OneListenerPerSession ==
  \A c \in Channels :
    /\ admitted[c] <= 1
    /\ \A s \in connections[c] : handler[s] = "loop" /\ chan[s] = c

Quiet == ~timer /\ shaking = {}

\* A client that cannot reach the server gives up: unless it is connected
\* again and again, it stops trying.  (_scheduleReconnect.)
GivesUp == []<>(state = "connected") \/ <>[]Quiet
=============================================================================
