------------------------------- MODULE WSClient -------------------------------
(***************************************************************************)
(* The browser's WebSocket client with its queue and its reconnection      *)
(* (frontend/src/lib/wsClient.ts), beside the browser and the network,     *)
(* which open, fail and close its sockets.                                 *)
(*                                                                         *)
(* JavaScript runs one task at a time, so a method call, a socket event    *)
(* and a timer callback is each one step.  What is not atomic is a socket: *)
(* close() only starts the closing handshake, and the close event comes    *)
(* later, when the client may long have another socket.                    *)
(*                                                                         *)
(* Abstractions.  A client event is its type, its session and a number, in *)
(* the order of the calls; the START_SESSION that the client adds by       *)
(* itself has number 0.  Calls that need a session and have none throw and *)
(* change nothing.  Server events go to the App untouched and are modelled *)
(* there.                                                                  *)
(***************************************************************************)
EXTENDS Integers, Sequences

CONSTANTS
    SessionIds,     \* ids the page may use
    NoSessionId,    \* null
    SendTypes,      \* types of the events the App sends through sendEvent
    MaxConnects,    \* bound: calls of connect()
    MaxDisconnects, \* bound: calls of disconnect()
    MaxFailures,    \* bound: sockets that fail or are closed by the other end
    MaxSends,       \* bound: client events sent by the App
    MaxChunks       \* bound: audio chunks sent by the App

ASSUME SessionIdAssumption == NoSessionId \notin SessionIds
\* These two have methods of their own.
ASSUME SendTypesAssumption ==
    "START_SESSION" \notin SendTypes /\ "STOP_SESSION" \notin SendTypes
ASSUME BoundsAssumption ==
    MaxConnects \in Nat /\ MaxDisconnects \in Nat
        /\ MaxFailures \in Nat /\ MaxSends \in Nat /\ MaxChunks \in Nat

VARIABLES
    ready,          \* readyState of each socket the factory may create
    outgoing,       \* what was sent on each socket
    socket,         \* this.socket, or NoSocket
    state,          \* this.state
    queuedEvents, reconnectTimer, closedByUser, sessionId, sessionActive,
    sentLog,        \* numbers of the events sent, over all sockets
    calls           \* how many bounded things happened

client == <<socket, state, queuedEvents, reconnectTimer, closedByUser,
            sessionId, sessionActive>>
wsVars == <<ready, outgoing, client, sentLog, calls>>

NoSocket == 0
\* A socket comes from a call of connect() or from the timer that a close event
\* started, and a close event from a failure or from disconnect().
Sockets == 1..(MaxConnects + MaxFailures + MaxDisconnects)
Live == {"connecting", "open"}
Event(type, s, n) == [type |-> type, session |-> s, number |-> n]

WSInit ==
    /\ ready = [k \in Sockets |-> "unused"]
    /\ outgoing = [k \in Sockets |-> <<>>]
    /\ socket = NoSocket
    /\ state = "idle"
    /\ queuedEvents = <<>>
    /\ reconnectTimer = FALSE
    /\ closedByUser = FALSE
    /\ sessionId = NoSessionId
    /\ sessionActive = FALSE
    /\ sentLog = <<>>
    /\ calls = [connect |-> 0, disconnect |-> 0, fail |-> 0, send |-> 0,
                chunk |-> 0]

-----------------------------------------------------------------------------
(* Helpers *)

Is(k, readyState) == k # NoSocket /\ ready[k] = readyState
Count(what) == calls' = [calls EXCEPT ![what] = @ + 1]

\* openSocket: a new socket takes the place of the one before.
OpenSocket ==
    \E k \in Sockets :
        /\ ready[k] = "unused"
        /\ \A j \in Sockets : j < k => ready[j] # "unused"
        /\ ready' = [ready EXCEPT ![k] = "connecting"]
        /\ socket' = k
        /\ state' = IF state = "open" THEN "reconnecting" ELSE "connecting"

\* Mutant of WithSessionStart: a new connection is not told of the session.
WithoutSessionStart(queue) == queue

\* Mutant of WithSessionStart: it is told behind what was queued before.
SessionStartLast(queue) ==
    IF /\ sessionActive /\ sessionId # NoSessionId
       /\ \A i \in DOMAIN queue : ~(queue[i].type = "START_SESSION"
                                    /\ queue[i].session = sessionId)
    THEN Append(queue, Event("START_SESSION", sessionId, 0))
    ELSE queue

\* ensureSessionStartQueued
WithSessionStart(queue) ==
    IF /\ sessionActive /\ sessionId # NoSessionId
       /\ \A i \in DOMAIN queue : ~(queue[i].type = "START_SESSION"
                                    /\ queue[i].session = sessionId)
    THEN <<Event("START_SESSION", sessionId, 0)>> \o queue
    ELSE queue

Numbers(events) == [i \in DOMAIN events |-> events[i].number]

\* Mutant of SendEvent: the newest event goes to the head of the queue.
SendQueuedNewestFirst(e) ==
    IF Is(socket, "open")
    THEN /\ outgoing' = [outgoing EXCEPT ![socket] = Append(@, e)]
         /\ sentLog' = Append(sentLog, e.number)
         /\ UNCHANGED queuedEvents
    ELSE /\ queuedEvents' = <<e>> \o queuedEvents
         /\ UNCHANGED <<outgoing, sentLog>>

\* sendEvent: at once over an open socket, into the queue otherwise.
SendEvent(e) ==
    IF Is(socket, "open")
    THEN /\ outgoing' = [outgoing EXCEPT ![socket] = Append(@, e)]
         /\ sentLog' = Append(sentLog, e.number)
         /\ UNCHANGED queuedEvents
    ELSE /\ queuedEvents' = Append(queuedEvents, e)
         /\ UNCHANGED <<outgoing, sentLog>>

\* Mutant of Numbered: the session id is forgotten.
NumberedOnly(type, s) == Event(type, NoSessionId, calls.send + 1)

Numbered(type, s) == Event(type, s, calls.send + 1)
CanSend == calls.send < MaxSends

-----------------------------------------------------------------------------
(* Methods the App calls *)

\* connect()
ConnectSocket ==
    \/ /\ Is(socket, "connecting") \/ Is(socket, "open")
       /\ UNCHANGED <<ready, socket, state, closedByUser>>
    \/ /\ ~Is(socket, "connecting") /\ ~Is(socket, "open")
       /\ closedByUser' = FALSE
       /\ OpenSocket

Connect ==
    /\ calls.connect < MaxConnects
    /\ Count("connect")
    /\ ConnectSocket
    /\ UNCHANGED <<outgoing, queuedEvents, reconnectTimer, sessionId,
                   sessionActive, sentLog>>

\* Mutant of Disconnect: the socket is forgotten but not closed.
DisconnectLeavesSocket ==
    /\ calls.disconnect < MaxDisconnects
    /\ Count("disconnect")
    /\ closedByUser' = TRUE
    /\ reconnectTimer' = FALSE
    /\ socket' = NoSocket
    /\ state' = "closed"
    /\ UNCHANGED <<ready, outgoing, queuedEvents, sessionId, sessionActive, sentLog>>

\* disconnect(): the socket is told to close and is forgotten at once.
Disconnect ==
    /\ calls.disconnect < MaxDisconnects
    /\ Count("disconnect")
    /\ closedByUser' = TRUE
    /\ reconnectTimer' = FALSE
    /\ ready' = IF socket # NoSocket /\ ~Is(socket, "closed")
                THEN [ready EXCEPT ![socket] = "closing"] ELSE ready
    /\ socket' = NoSocket
    /\ state' = "closed"
    /\ UNCHANGED <<outgoing, queuedEvents, sessionId, sessionActive, sentLog>>

SetSessionId(s) ==
    /\ sessionId' = s
    /\ UNCHANGED <<ready, outgoing, socket, state, queuedEvents, reconnectTimer,
                   closedByUser, sessionActive, sentLog, calls>>

StartSession(s) ==
    /\ CanSend
    /\ sessionId' = s
    /\ sessionActive' = TRUE
    /\ SendEvent(Numbered("START_SESSION", s))
    /\ Count("send")
    /\ UNCHANGED <<ready, socket, state, reconnectTimer, closedByUser>>

StopSession ==
    /\ CanSend
    /\ sessionId # NoSessionId
    /\ sessionActive' = FALSE
    /\ SendEvent(Numbered("STOP_SESSION", sessionId))
    /\ Count("send")
    /\ UNCHANGED <<ready, socket, state, reconnectTimer, closedByUser, sessionId>>

\* sendUserSpeechStart, sendUserSpeechEnd, sendTextInput, cancelResponse, ping
Send(type) ==
    /\ CanSend
    /\ sessionId # NoSessionId
    /\ SendEvent(Numbered(type, sessionId))
    /\ Count("send")
    /\ UNCHANGED <<ready, socket, state, reconnectTimer, closedByUser,
                   sessionId, sessionActive>>

\* Metadata and binary frame over an open socket only; a binary frame that
\* cannot be sent is dropped.
SendAudioChunk ==
    /\ calls.chunk < MaxChunks
    /\ sessionId # NoSessionId
    /\ Is(socket, "open")
    /\ LET meta == Event("AUDIO_CHUNK", sessionId, 0)
           data == Event("BINARY", sessionId, 0)
       IN  outgoing' = [outgoing EXCEPT ![socket] = Append(@, meta)]
           \/ outgoing' = [outgoing EXCEPT ![socket] = @ \o <<meta, data>>]
    /\ Count("chunk")
    /\ UNCHANGED <<ready, client, sentLog>>

-----------------------------------------------------------------------------
(* Socket events and timers *)

\* Mutant of SocketOpens: the queue waits for the next reconnection.
OpensWithoutFlush(k) ==
    /\ ready[k] = "connecting"
    /\ ready' = [ready EXCEPT ![k] = "open"]
    /\ state' = "open"
    /\ queuedEvents' = WithSessionStart(queuedEvents)
    /\ UNCHANGED <<outgoing, sentLog, socket, reconnectTimer, closedByUser,
                   sessionId, sessionActive, calls>>

\* The open event of socket k: what is flushed goes out over this.socket,
\* which need not be k.
SocketOpens(k) ==
    /\ ready[k] = "connecting"
    /\ ready' = [ready EXCEPT ![k] = "open"]
    /\ state' = "open"
    /\ LET queue == WithSessionStart(queuedEvents)
       IN  IF Is(socket, "open") \/ socket = k
           THEN /\ outgoing' = [outgoing EXCEPT ![socket] = @ \o queue]
                /\ sentLog' = sentLog \o Numbers(queue)
                /\ queuedEvents' = <<>>
           ELSE /\ queuedEvents' = queue
                /\ UNCHANGED <<outgoing, sentLog>>
    /\ UNCHANGED <<socket, reconnectTimer, closedByUser, sessionId,
                   sessionActive, calls>>

\* The other end or the network closes an open socket: the handshake starts.
SocketFails(k) ==
    /\ calls.fail < MaxFailures
    /\ ready[k] = "open"
    /\ ready' = [ready EXCEPT ![k] = "closing"]
    /\ Count("fail")
    /\ UNCHANGED <<outgoing, client, sentLog>>

\* Mutant of OnClose: only the socket is forgotten.
OnCloseOnly ==
    /\ socket' = NoSocket
    /\ UNCHANGED <<state, reconnectTimer, queuedEvents, closedByUser, sessionId,
                   sessionActive>>

\* The close listener, with scheduleReconnect.
OnClose ==
    /\ socket' = NoSocket
    /\ IF closedByUser THEN state' = "closed" /\ UNCHANGED reconnectTimer
       ELSE /\ state' = IF reconnectTimer THEN "closed" ELSE "reconnecting"
            /\ reconnectTimer' = TRUE
    /\ UNCHANGED <<queuedEvents, closedByUser, sessionId, sessionActive>>

\* The close event of a socket whose handshake is over ...
SocketCloses(k) ==
    /\ ready[k] = "closing"
    /\ ready' = [ready EXCEPT ![k] = "closed"]
    /\ OnClose
    /\ UNCHANGED <<outgoing, sentLog, calls>>

\* ... and of one that could not connect (its error event changes nothing).
ConnectFails(k) ==
    /\ calls.fail < MaxFailures
    /\ ready[k] = "connecting"
    /\ ready' = [ready EXCEPT ![k] = "closed"]
    /\ OnClose
    /\ Count("fail")
    /\ UNCHANGED <<outgoing, sentLog>>

\* Mutant of ReconnectTimerFires: an interval, which fires again.
ReconnectIntervalFires ==
    /\ reconnectTimer
    /\ IF closedByUser THEN UNCHANGED <<ready, socket, state>> ELSE OpenSocket
    /\ UNCHANGED <<outgoing, queuedEvents, reconnectTimer, closedByUser, sessionId,
                   sessionActive, sentLog, calls>>

ReconnectTimerFires ==
    /\ reconnectTimer
    /\ reconnectTimer' = FALSE
    /\ IF closedByUser THEN UNCHANGED <<ready, socket, state>> ELSE OpenSocket
    /\ UNCHANGED <<outgoing, queuedEvents, closedByUser, sessionId,
                   sessionActive, sentLog, calls>>

Calls ==
    \/ \E s \in SessionIds : SetSessionId(s) \/ StartSession(s)
    \/ StopSession
    \/ \E type \in SendTypes : Send(type)
    \/ SendAudioChunk

Network ==
    \/ \E k \in Sockets :
           SocketOpens(k) \/ SocketFails(k) \/ SocketCloses(k) \/ ConnectFails(k)
    \/ ReconnectTimerFires

WSNext == Connect \/ Disconnect \/ Calls \/ Network

WSSpec == WSInit /\ [][WSNext]_wsVars

\* The browser settles every socket, and timers fire.
WSFairness ==
    /\ \A k \in Sockets :
           /\ WF_wsVars(SocketOpens(k) \/ ConnectFails(k))
           /\ WF_wsVars(SocketCloses(k))
    /\ WF_wsVars(ReconnectTimerFires)

-----------------------------------------------------------------------------
(* Properties *)

ClientEvents == [type : SendTypes \union {"START_SESSION", "STOP_SESSION"},
                 session : SessionIds, number : 0..MaxSends]
Frames == [type : SendTypes \union {"START_SESSION", "STOP_SESSION",
                                    "AUDIO_CHUNK", "BINARY"},
           session : SessionIds, number : 0..MaxSends]

\* Every variable has the type of its declaration.
WSTypeOK ==
    /\ ready \in [Sockets -> {"unused", "connecting", "open", "closing", "closed"}]
    /\ outgoing \in [Sockets -> Seq(Frames)]
    /\ socket \in Sockets \union {NoSocket}
    /\ state \in {"idle", "connecting", "open", "reconnecting", "closed"}
    /\ queuedEvents \in Seq(ClientEvents)
    /\ reconnectTimer \in BOOLEAN /\ closedByUser \in BOOLEAN
    /\ sessionId \in SessionIds \union {NoSessionId}
    /\ sessionActive \in BOOLEAN
    /\ sentLog \in Seq(0..MaxSends)
    /\ calls \in [connect : 0..MaxConnects, disconnect : 0..MaxDisconnects,
                  fail : 0..MaxFailures, send : 0..MaxSends, chunk : 0..MaxChunks]

\* Over all reconnections, what was sent and what is queued are the App's
\* events in the order of its calls, none lost, none sent twice.
NothingLostOrReordered ==
    LET log == sentLog \o Numbers(queuedEvents)
    IN  /\ \A n \in 1..calls.send : \E i \in DOMAIN log : log[i] = n
        /\ \A j \in DOMAIN log : log[j] <= calls.send
        /\ \A i, j \in DOMAIN log : i < j /\ log[i] # 0 /\ log[j] # 0 => log[i] < log[j]

\* A session the user has started is announced on every connection that the
\* client uses for it: a backend that restarted learns of it.
ActiveSessionAnnounced ==
    Is(socket, "open") /\ sessionActive =>
        \E i \in DOMAIN outgoing[socket] :
            /\ outgoing[socket][i].type = "START_SESSION"
            /\ outgoing[socket][i].session = sessionId

\* A client that was connected once and was not told to disconnect never ends
\* up with neither a socket nor a timer that will open one.
ReconnectPlanned ==
    (\E k \in Sockets : ready[k] # "unused") /\ ~closedByUser =>
        reconnectTimer \/ (socket # NoSocket /\ ready[socket] # "closed")

\* What is queued is sent in the end, unless the user disconnects.
QueueDrains ==
    queuedEvents # <<>> /\ (\E k \in Sockets : ready[k] # "unused")
        ~> queuedEvents = <<>> \/ closedByUser

\* connect() was called once: every other socket was opened by the timer.
ConnectedOnce == calls.connect <= 1

\* "Start the connection (only while not connected)": there are never two
\* sockets that are, or are about to be, connected.
AtMostOneLive ==
    \A j, k \in Sockets : ready[j] \in Live /\ ready[k] \in Live => j = k

\* The automatic reconnection alone keeps to that, however often connections
\* fail and however late their close events come.
ReconnectsOneAtATime == ConnectedOnce => AtMostOneLive

\* After one call of connect(), what the App is told agrees with the client's
\* socket: "open" means that it is open or its close event is on the way.  With
\* two calls a second socket's events change the state as well (AtMostOneLive).
StateHonest ==
    ConnectedOnce =>
        /\ state = "open" => Is(socket, "open") \/ Is(socket, "closing")
        /\ Is(socket, "open") => state = "open"

\* "Disconnect explicitly and stop reconnecting": after disconnect() nothing is
\* connected or about to be, if connect() was called once.
DisconnectStops ==
    ConnectedOnce /\ closedByUser => \A k \in Sockets : ready[k] \notin Live

=============================================================================
