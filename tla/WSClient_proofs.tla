---------------------------- MODULE WSClient_proofs ----------------------------
(***************************************************************************)
(* Proofs about WSClient: that its safety properties hold for every number *)
(* of sockets, failures, calls and events.  The last section is about      *)
(* WSClientManager: the client that components share keeps what WSClient   *)
(* promises, and is not cut off while a component uses it, for every       *)
(* number of components.                                                   *)
(*                                                                         *)
(* WSClient is the client alone.  The modules that compose it add steps:   *)
(* the mount effect connects and sets the session id at once, and a peer   *)
(* may close a socket without the bound of SocketFails.  The steps proved  *)
(* about here, ClientStep, are all of those, so that the invariant carries *)
(* over to the compositions.                                               *)
(***************************************************************************)
EXTENDS WSClientManager, SequenceTheorems, FiniteSetTheorems, TLAPS

-----------------------------------------------------------------------------
(* The steps *)

\* connect(), with or without setSessionId before it.
Joins ==
    /\ calls.connect < MaxConnects
    /\ Count("connect")
    /\ ConnectSocket
    /\ sessionId' \in SessionIds \union {sessionId}
    /\ UNCHANGED <<outgoing, queuedEvents, reconnectTimer, sessionActive, sentLog>>

\* A call of the App that goes through sendEvent.
Submits(e) ==
    /\ CanSend
    /\ e \in ClientEvents /\ e.number = calls.send + 1
    /\ SendEvent(e)
    /\ Count("send")
    /\ UNCHANGED <<ready, socket, state, reconnectTimer, closedByUser>>

\* What such a call does to the session.
Sessioned(e) ==
    \/ sessionId' = e.session /\ sessionActive' = TRUE /\ e.type = "START_SESSION"
    \/ sessionId' = sessionId /\ sessionActive' = FALSE
    \/ UNCHANGED <<sessionId, sessionActive>>

\* An open socket begins to close; the bound of failures counts some of these.
FailCounted == UNCHANGED calls \/ (calls.fail < MaxFailures /\ Count("fail"))
Ends(k) ==
    /\ ready[k] = "open"
    /\ ready' = [ready EXCEPT ![k] = "closing"]
    /\ FailCounted
    /\ UNCHANGED <<outgoing, client, sentLog>>

ClientStep ==
    \/ Joins \/ Disconnect
    \/ \E e \in ClientEvents : Submits(e) /\ Sessioned(e)
    \/ \E s \in SessionIds : SetSessionId(s)
    \/ SendAudioChunk
    \/ \E k \in Sockets : SocketOpens(k) \/ Ends(k) \/ SocketCloses(k) \/ ConnectFails(k)
    \/ ReconnectTimerFires
    \/ FailCounted /\ UNCHANGED <<ready, outgoing, client, sentLog>>

-----------------------------------------------------------------------------
(* The invariant *)

SocketInv ==
    /\ socket # NoSocket => ready[socket] \in {"connecting", "open", "closing"}
    /\ closedByUser => socket = NoSocket /\ ~reconnectTimer
    /\ sessionActive => sessionId # NoSessionId
    /\ Is(socket, "open") => queuedEvents = <<>>

\* As long as connect() was called once, a socket that is not settled is the
\* client's own, or is closing after disconnect(), and no timer runs beside it.
OneConnection ==
    /\ calls.connect = 0 => ~reconnectTimer /\ \A k \in Sockets : ready[k] = "unused"
    /\ ConnectedOnce =>
           /\ \A k \in Sockets : ready[k] \in Live => socket = k
           /\ \A k \in Sockets : ready[k] = "closing" => socket = k \/ closedByUser
           /\ reconnectTimer => \A k \in Sockets : ready[k] \in {"unused", "closed"}

ClientInv ==
    /\ WSTypeOK
    /\ SocketInv
    /\ ReconnectPlanned
    /\ OneConnection
    /\ StateHonest
    /\ NothingLostOrReordered

-----------------------------------------------------------------------------
(* Types *)

LEMMA SocketFacts == NoSocket \notin Sockets /\ Sockets \subseteq Nat
BY BoundsAssumption DEF Sockets, NoSocket

LEMMA StepIsClientStep == WSTypeOK /\ [WSNext]_wsVars => ClientStep
<1> SUFFICES ASSUME WSTypeOK, [WSNext]_wsVars PROVE ClientStep
  OBVIOUS
<1>1. CASE Connect
  BY <1>1 DEF Connect, Joins, ClientStep
<1>2. ASSUME NEW type \in SendTypes \union {"START_SESSION", "STOP_SESSION"},
             NEW s \in SessionIds,
             CanSend
      PROVE  Numbered(type, s) \in ClientEvents /\ Numbered(type, s).number = calls.send + 1
             /\ Numbered(type, s).type = type /\ Numbered(type, s).session = s
  BY <1>2, BoundsAssumption DEF Numbered, Event, ClientEvents, CanSend, WSTypeOK
<1>3. ASSUME NEW s \in SessionIds, StartSession(s) PROVE ClientStep
  <2>1. Submits(Numbered("START_SESSION", s))
    BY <1>2, <1>3 DEF StartSession, Submits
  <2>2. Sessioned(Numbered("START_SESSION", s))
    BY <1>2, <1>3 DEF StartSession, Sessioned
  <2>3. QED
    BY <1>2, <1>3, <2>1, <2>2 DEF ClientStep, StartSession
<1>4. CASE StopSession
  <2>1. sessionId \in SessionIds
    BY <1>4 DEF StopSession, WSTypeOK
  <2>2. Submits(Numbered("STOP_SESSION", sessionId))
    BY <1>2, <1>4, <2>1 DEF StopSession, Submits
  <2>3. Sessioned(Numbered("STOP_SESSION", sessionId))
    BY <1>4 DEF StopSession, Sessioned
  <2>4. QED
    BY <1>2, <1>4, <2>1, <2>2, <2>3 DEF ClientStep, StopSession
<1>5. ASSUME NEW type \in SendTypes, Send(type) PROVE ClientStep
  <2>1. sessionId \in SessionIds
    BY <1>5 DEF Send, WSTypeOK
  <2>2. Submits(Numbered(type, sessionId))
    BY <1>2, <1>5, <2>1 DEF Send, Submits
  <2>3. Sessioned(Numbered(type, sessionId))
    BY <1>5 DEF Send, Sessioned
  <2>4. QED
    BY <1>2, <1>5, <2>1, <2>2, <2>3 DEF ClientStep, Send
<1>6. CASE Network
  BY <1>6 DEF Network, ClientStep, SocketFails, Ends, FailCounted
<1>7. CASE UNCHANGED wsVars
  BY <1>7 DEF wsVars, ClientStep, FailCounted
<1>8. QED
  BY <1>1, <1>3, <1>4, <1>5, <1>6, <1>7 DEF WSNext, Calls, ClientStep

CallCounts == [connect : 0..MaxConnects, disconnect : 0..MaxDisconnects,
               fail : 0..MaxFailures, send : 0..MaxSends, chunk : 0..MaxChunks]

LEMMA EventTypes ==
    /\ ClientEvents \subseteq Frames
    /\ \A s \in SessionIds :
           /\ Event("START_SESSION", s, 0) \in ClientEvents
           /\ Event("AUDIO_CHUNK", s, 0) \in Frames /\ Event("BINARY", s, 0) \in Frames
BY BoundsAssumption DEF ClientEvents, Frames, Event

LEMMA NumberTypes ==
    ASSUME NEW q \in Seq(ClientEvents)
    PROVE  Numbers(q) \in Seq(0..MaxSends) /\ Len(Numbers(q)) = Len(q)
<1>1. ASSUME NEW i \in 1..Len(q) PROVE q[i].number \in 0..MaxSends
  <2>1. q[i] \in ClientEvents
    BY ElementOfSeq
  <2>2. QED
    BY <2>1 DEF ClientEvents
<1>2. Numbers(q) = [i \in 1..Len(q) |-> q[i].number] /\ Len(q) \in Nat
  BY DEF Numbers
<1>3. QED
  BY <1>1, <1>2

LEMMA StartTypes ==
    ASSUME WSTypeOK
    PROVE  WithSessionStart(queuedEvents) \in Seq(ClientEvents)
<1>1. sessionId # NoSessionId => Event("START_SESSION", sessionId, 0) \in ClientEvents
  BY EventTypes DEF WSTypeOK
<1>2. \A e \in ClientEvents : <<e>> \o queuedEvents \in Seq(ClientEvents)
  BY DEF WSTypeOK
<1>3. QED
  BY <1>1, <1>2 DEF WithSessionStart, WSTypeOK

LEMMA CallTypes ==
    ASSUME WSTypeOK
    PROVE  /\ calls.connect < MaxConnects /\ Count("connect") => calls' \in CallCounts
           /\ calls.disconnect < MaxDisconnects /\ Count("disconnect") => calls' \in CallCounts
           /\ calls.fail < MaxFailures /\ Count("fail") => calls' \in CallCounts
           /\ calls.send < MaxSends /\ Count("send") => calls' \in CallCounts
           /\ calls.chunk < MaxChunks /\ Count("chunk") => calls' \in CallCounts
<1>0. calls \in CallCounts
  BY DEF WSTypeOK, CallCounts
<1> USE <1>0, BoundsAssumption DEF Count, CallCounts
<1>1. calls.connect < MaxConnects /\ Count("connect") => calls' \in CallCounts
  OBVIOUS
<1>2. calls.disconnect < MaxDisconnects /\ Count("disconnect") => calls' \in CallCounts
  OBVIOUS
<1>3. calls.fail < MaxFailures /\ Count("fail") => calls' \in CallCounts
  OBVIOUS
<1>4. calls.send < MaxSends /\ Count("send") => calls' \in CallCounts
  OBVIOUS
<1>5. calls.chunk < MaxChunks /\ Count("chunk") => calls' \in CallCounts
  OBVIOUS
<1>6. QED
  BY <1>1, <1>2, <1>3, <1>4, <1>5

LEMMA TypeStep == WSTypeOK /\ ClientStep => WSTypeOK'
<1> SUFFICES ASSUME WSTypeOK, ClientStep PROVE WSTypeOK'
  OBVIOUS
<1>1. CASE Joins
  BY <1>1, CallTypes, SocketFacts DEF Joins, ConnectSocket, OpenSocket, WSTypeOK, CallCounts
<1>2. CASE Disconnect
  BY <1>2, CallTypes, SocketFacts DEF Disconnect, Is, WSTypeOK, CallCounts
<1>3. ASSUME NEW e \in ClientEvents, Submits(e), Sessioned(e) PROVE WSTypeOK'
  <2>1. /\ calls' \in CallCounts
        /\ UNCHANGED <<ready, socket, state, reconnectTimer, closedByUser>>
    BY <1>3, CallTypes DEF Submits, CanSend
  <2>2. e.session \in SessionIds /\ e.number \in 0..MaxSends /\ e \in Frames
    BY EventTypes DEF ClientEvents
  <2>3. sessionId' \in SessionIds \union {NoSessionId} /\ sessionActive' \in BOOLEAN
    BY <1>3, <2>2 DEF Sessioned, WSTypeOK, CallCounts
  <2>4. /\ queuedEvents' \in Seq(ClientEvents) /\ sentLog' \in Seq(0..MaxSends)
        /\ outgoing' \in [Sockets -> Seq(Frames)]
    <3>1. /\ queuedEvents \in Seq(ClientEvents) /\ sentLog \in Seq(0..MaxSends)
          /\ outgoing \in [Sockets -> Seq(Frames)]
      BY DEF WSTypeOK
    <3>2. CASE Is(socket, "open")
      <4>1. /\ socket \in Sockets
            /\ outgoing' = [outgoing EXCEPT ![socket] = Append(outgoing[socket], e)]
            /\ sentLog' = Append(sentLog, e.number) /\ UNCHANGED queuedEvents
        BY <1>3, <3>2 DEF Submits, SendEvent, Is, WSTypeOK
      <4>2. Append(outgoing[socket], e) \in Seq(Frames)
        BY <2>2, <3>1, <4>1
      <4>3. QED
        BY <2>2, <3>1, <4>1, <4>2
    <3>3. CASE ~Is(socket, "open")
      <4>1. queuedEvents' = Append(queuedEvents, e) /\ UNCHANGED <<outgoing, sentLog>>
        BY <1>3, <3>3 DEF Submits, SendEvent
      <4>2. Append(queuedEvents, e) \in Seq(ClientEvents)
        BY <3>1
      <4>3. QED
        BY <3>1, <4>1, <4>2
    <3>4. QED
      BY <3>2, <3>3
  <2>5. QED
    BY <2>1, <2>3, <2>4 DEF WSTypeOK, CallCounts
<1>4. ASSUME NEW s \in SessionIds, SetSessionId(s) PROVE WSTypeOK'
  BY <1>4 DEF SetSessionId, WSTypeOK, CallCounts
<1>5. CASE SendAudioChunk
  <2>1. sessionId \in SessionIds /\ socket \in Sockets
    BY <1>5 DEF SendAudioChunk, Is, WSTypeOK, CallCounts
  <2>2. outgoing' \in [Sockets -> Seq(Frames)]
    <3> DEFINE meta == Event("AUDIO_CHUNK", sessionId, 0)
               data == Event("BINARY", sessionId, 0)
               out == outgoing[socket]
    <3>1. meta \in Frames /\ data \in Frames /\ out \in Seq(Frames)
      BY <2>1, EventTypes DEF WSTypeOK, CallCounts
    <3>2. \/ outgoing' = [outgoing EXCEPT ![socket] = Append(out, meta)]
          \/ outgoing' = [outgoing EXCEPT ![socket] = out \o <<meta, data>>]
      BY <1>5, <2>1 DEF SendAudioChunk, WSTypeOK, CallCounts
    <3> HIDE DEF meta, data, out
    <3>3. Append(out, meta) \in Seq(Frames) /\ out \o <<meta, data>> \in Seq(Frames)
      BY <3>1
    <3>4. QED
      BY <3>2, <3>3 DEF WSTypeOK, CallCounts
  <2>3. QED
    BY <1>5, <2>2, CallTypes DEF SendAudioChunk, client, WSTypeOK, CallCounts
<1>6. ASSUME NEW k \in Sockets, SocketOpens(k) PROVE WSTypeOK'
  <2> DEFINE queue == WithSessionStart(queuedEvents)
  <2>1. queue \in Seq(ClientEvents) /\ Numbers(queue) \in Seq(0..MaxSends)
    BY StartTypes, NumberTypes
  <2> HIDE DEF queue
  <2>2. queue \in Seq(Frames)
    BY <2>1, EventTypes
  <2>3. \/ /\ socket \in Sockets
           /\ outgoing' = [outgoing EXCEPT ![socket] = outgoing[socket] \o queue]
           /\ sentLog' = sentLog \o Numbers(queue)
           /\ queuedEvents' = <<>>
        \/ queuedEvents' = queue /\ UNCHANGED <<outgoing, sentLog>>
    BY <1>6 DEF SocketOpens, Is, WSTypeOK, queue
  <2>4. /\ queuedEvents' \in Seq(ClientEvents) /\ sentLog' \in Seq(0..MaxSends)
        /\ outgoing' \in [Sockets -> Seq(Frames)]
    <3>1. /\ queuedEvents \in Seq(ClientEvents) /\ sentLog \in Seq(0..MaxSends)
          /\ outgoing \in [Sockets -> Seq(Frames)]
      BY DEF WSTypeOK
    <3>2. socket \in Sockets => outgoing[socket] \o queue \in Seq(Frames)
      BY <2>2, <3>1
    <3>3. sentLog \o Numbers(queue) \in Seq(0..MaxSends) /\ <<>> \in Seq(ClientEvents)
      BY <2>1, <3>1
    <3>4. QED
      BY <2>1, <2>3, <3>1, <3>2, <3>3
  <2>5. QED
    BY <1>6, <2>4 DEF SocketOpens, WSTypeOK, CallCounts
<1>7. ASSUME NEW k \in Sockets, Ends(k) PROVE WSTypeOK'
  BY <1>7, CallTypes DEF Ends, FailCounted, client, WSTypeOK, CallCounts
<1>8. ASSUME NEW k \in Sockets, SocketCloses(k) \/ ConnectFails(k) PROVE WSTypeOK'
  BY <1>8, CallTypes DEF SocketCloses, ConnectFails, OnClose, WSTypeOK, CallCounts
<1>9. CASE ReconnectTimerFires
  BY <1>9 DEF ReconnectTimerFires, OpenSocket, WSTypeOK, CallCounts
<1>10. CASE FailCounted /\ UNCHANGED <<ready, outgoing, client, sentLog>>
  BY <1>10, CallTypes DEF FailCounted, client, WSTypeOK, CallCounts
<1>11. QED
  BY <1>1, <1>2, <1>3, <1>4, <1>5, <1>6, <1>7, <1>8, <1>9, <1>10 DEF ClientStep

\* The queue is empty while the socket is open, and a client that was told to
\* disconnect has neither socket nor timer.
LEMMA SocketStep == WSTypeOK /\ SocketInv /\ ClientStep => SocketInv'
<1> SUFFICES ASSUME WSTypeOK, SocketInv, ClientStep PROVE SocketInv'
  OBVIOUS
<1>0. /\ ready \in [Sockets -> {"unused", "connecting", "open", "closing", "closed"}]
      /\ socket \in Sockets \union {NoSocket}
      /\ reconnectTimer \in BOOLEAN /\ closedByUser \in BOOLEAN
      /\ calls \in CallCounts
      /\ sessionId \in SessionIds \union {NoSessionId}
  BY DEF WSTypeOK, CallCounts
<1> USE SocketFacts, <1>0, SessionIdAssumption DEF SocketInv
<1>1. CASE Joins
  BY <1>1 DEF Joins, Count, CallCounts, ConnectSocket, OpenSocket, Is
<1>2. CASE Disconnect
  BY <1>2 DEF Disconnect, Is, Count, CallCounts
<1>3. ASSUME NEW e \in ClientEvents, Submits(e), Sessioned(e) PROVE SocketInv'
  BY <1>3 DEF Submits, Sessioned, SendEvent, Is, Count, CallCounts, ClientEvents
<1>4. ASSUME NEW s \in SessionIds, SetSessionId(s) PROVE SocketInv'
  BY <1>4 DEF SetSessionId, Is
<1>5. CASE SendAudioChunk
  BY <1>5 DEF SendAudioChunk, client, Is, Count, CallCounts
<1>6. ASSUME NEW k \in Sockets, SocketOpens(k) PROVE SocketInv'
  BY <1>6 DEF SocketOpens, Is
<1>7. ASSUME NEW k \in Sockets, Ends(k) PROVE SocketInv'
  BY <1>7 DEF Ends, FailCounted, client, Is, Count, CallCounts
<1>8. ASSUME NEW k \in Sockets, SocketCloses(k) \/ ConnectFails(k) PROVE SocketInv'
  BY <1>8 DEF SocketCloses, ConnectFails, OnClose, Is, Count, CallCounts
<1>9. CASE ReconnectTimerFires
  BY <1>9 DEF ReconnectTimerFires, OpenSocket, Is
<1>10. CASE FailCounted /\ UNCHANGED <<ready, outgoing, client, sentLog>>
  BY <1>10 DEF FailCounted, client, Is, Count, CallCounts
<1>11. QED
  BY <1>1, <1>2, <1>3, <1>4, <1>5, <1>6, <1>7, <1>8, <1>9, <1>10 DEF ClientStep

\* The close event leaves a timer, and the timer a socket.
LEMMA PlannedStep == WSTypeOK /\ SocketInv /\ ReconnectPlanned /\ ClientStep => ReconnectPlanned'
<1> SUFFICES ASSUME WSTypeOK, SocketInv, ReconnectPlanned, ClientStep PROVE ReconnectPlanned'
  OBVIOUS
<1>0. /\ ready \in [Sockets -> {"unused", "connecting", "open", "closing", "closed"}]
      /\ socket \in Sockets \union {NoSocket}
      /\ reconnectTimer \in BOOLEAN /\ closedByUser \in BOOLEAN
      /\ calls \in CallCounts
      /\ sessionId \in SessionIds \union {NoSessionId}
  BY DEF WSTypeOK, CallCounts
<1> USE SocketFacts, <1>0, SessionIdAssumption DEF ReconnectPlanned, SocketInv
<1>1. CASE Joins
  BY <1>1 DEF Joins, Count, CallCounts, ConnectSocket, OpenSocket, Is
<1>2. CASE Disconnect
  BY <1>2 DEF Disconnect, Is, Count, CallCounts
<1>3. ASSUME NEW e \in ClientEvents, Submits(e), Sessioned(e) PROVE ReconnectPlanned'
  BY <1>3 DEF Submits, Sessioned, SendEvent, Is, Count, CallCounts, ClientEvents
<1>4. ASSUME NEW s \in SessionIds, SetSessionId(s) PROVE ReconnectPlanned'
  BY <1>4 DEF SetSessionId, Is
<1>5. CASE SendAudioChunk
  BY <1>5 DEF SendAudioChunk, client, Is, Count, CallCounts
<1>6. ASSUME NEW k \in Sockets, SocketOpens(k) PROVE ReconnectPlanned'
  BY <1>6 DEF SocketOpens, Is
<1>7. ASSUME NEW k \in Sockets, Ends(k) PROVE ReconnectPlanned'
  BY <1>7 DEF Ends, FailCounted, client, Is, Count, CallCounts
<1>8. ASSUME NEW k \in Sockets, SocketCloses(k) \/ ConnectFails(k) PROVE ReconnectPlanned'
  BY <1>8 DEF SocketCloses, ConnectFails, OnClose, Is, Count, CallCounts
<1>9. CASE ReconnectTimerFires
  BY <1>9 DEF ReconnectTimerFires, OpenSocket, Is
<1>10. CASE FailCounted /\ UNCHANGED <<ready, outgoing, client, sentLog>>
  BY <1>10 DEF FailCounted, client, Is, Count, CallCounts
<1>11. QED
  BY <1>1, <1>2, <1>3, <1>4, <1>5, <1>6, <1>7, <1>8, <1>9, <1>10 DEF ClientStep

\* The timer fires only when every socket is settled.
LEMMA ConnectionStep == WSTypeOK /\ SocketInv /\ OneConnection /\ ClientStep => OneConnection'
<1> SUFFICES ASSUME WSTypeOK, SocketInv, OneConnection, ClientStep PROVE OneConnection'
  OBVIOUS
<1>0. /\ ready \in [Sockets -> {"unused", "connecting", "open", "closing", "closed"}]
      /\ socket \in Sockets \union {NoSocket}
      /\ reconnectTimer \in BOOLEAN /\ closedByUser \in BOOLEAN
      /\ calls \in CallCounts
      /\ sessionId \in SessionIds \union {NoSessionId}
  BY DEF WSTypeOK, CallCounts
<1> USE SocketFacts, <1>0, SessionIdAssumption DEF OneConnection, ConnectedOnce, SocketInv, Live
<1>1. CASE Joins
  BY <1>1 DEF Joins, Count, CallCounts, ConnectSocket, OpenSocket, Is
<1>2. CASE Disconnect
  BY <1>2 DEF Disconnect, Is, Count, CallCounts
<1>3. ASSUME NEW e \in ClientEvents, Submits(e), Sessioned(e) PROVE OneConnection'
  BY <1>3 DEF Submits, Sessioned, SendEvent, Is, Count, CallCounts, ClientEvents
<1>4. ASSUME NEW s \in SessionIds, SetSessionId(s) PROVE OneConnection'
  BY <1>4 DEF SetSessionId, Is
<1>5. CASE SendAudioChunk
  BY <1>5 DEF SendAudioChunk, client, Is, Count, CallCounts
<1>6. ASSUME NEW k \in Sockets, SocketOpens(k) PROVE OneConnection'
  BY <1>6 DEF SocketOpens, Is
<1>7. ASSUME NEW k \in Sockets, Ends(k) PROVE OneConnection'
  BY <1>7 DEF Ends, FailCounted, client, Is, Count, CallCounts
<1>8. ASSUME NEW k \in Sockets, SocketCloses(k) \/ ConnectFails(k) PROVE OneConnection'
  BY <1>8 DEF SocketCloses, ConnectFails, OnClose, Is, Count, CallCounts
<1>9. CASE ReconnectTimerFires
  BY <1>9 DEF ReconnectTimerFires, OpenSocket, Is
<1>10. CASE FailCounted /\ UNCHANGED <<ready, outgoing, client, sentLog>>
  BY <1>10 DEF FailCounted, client, Is, Count, CallCounts
<1>11. QED
  BY <1>1, <1>2, <1>3, <1>4, <1>5, <1>6, <1>7, <1>8, <1>9, <1>10 DEF ClientStep

\* Nothing but the events of its own socket changes the state the App is told.
LEMMA HonestStep == WSTypeOK /\ SocketInv /\ OneConnection /\ StateHonest /\ ClientStep => StateHonest'
<1> SUFFICES ASSUME WSTypeOK, SocketInv, OneConnection, StateHonest, ClientStep PROVE StateHonest'
  OBVIOUS
<1>0. /\ ready \in [Sockets -> {"unused", "connecting", "open", "closing", "closed"}]
      /\ socket \in Sockets \union {NoSocket}
      /\ reconnectTimer \in BOOLEAN /\ closedByUser \in BOOLEAN
      /\ calls \in CallCounts
      /\ sessionId \in SessionIds \union {NoSessionId}
  BY DEF WSTypeOK, CallCounts
<1> USE SocketFacts, <1>0, SessionIdAssumption DEF StateHonest, OneConnection, ConnectedOnce, SocketInv, Live
<1>1. CASE Joins
  BY <1>1 DEF Joins, Count, CallCounts, ConnectSocket, OpenSocket, Is
<1>2. CASE Disconnect
  BY <1>2 DEF Disconnect, Is, Count, CallCounts
<1>3. ASSUME NEW e \in ClientEvents, Submits(e), Sessioned(e) PROVE StateHonest'
  BY <1>3 DEF Submits, Sessioned, SendEvent, Is, Count, CallCounts, ClientEvents
<1>4. ASSUME NEW s \in SessionIds, SetSessionId(s) PROVE StateHonest'
  BY <1>4 DEF SetSessionId, Is
<1>5. CASE SendAudioChunk
  BY <1>5 DEF SendAudioChunk, client, Is, Count, CallCounts
<1>6. ASSUME NEW k \in Sockets, SocketOpens(k) PROVE StateHonest'
  BY <1>6 DEF SocketOpens, Is
<1>7. ASSUME NEW k \in Sockets, Ends(k) PROVE StateHonest'
  BY <1>7 DEF Ends, FailCounted, client, Is, Count, CallCounts
<1>8. ASSUME NEW k \in Sockets, SocketCloses(k) \/ ConnectFails(k) PROVE StateHonest'
  BY <1>8 DEF SocketCloses, ConnectFails, OnClose, Is, Count, CallCounts
<1>9. CASE ReconnectTimerFires
  BY <1>9 DEF ReconnectTimerFires, OpenSocket, Is
<1>10. CASE FailCounted /\ UNCHANGED <<ready, outgoing, client, sentLog>>
  BY <1>10 DEF FailCounted, client, Is, Count, CallCounts
<1>11. QED
  BY <1>1, <1>2, <1>3, <1>4, <1>5, <1>6, <1>7, <1>8, <1>9, <1>10 DEF ClientStep

-----------------------------------------------------------------------------
(* The log of the events *)

\* A log of n numbered events, with zeros for the events the client adds.
Complete(log, n) ==
    /\ \A m \in 1..n : \E i \in DOMAIN log : log[i] = m
    /\ \A j \in DOMAIN log : log[j] <= n
    /\ \A i, j \in DOMAIN log : i < j /\ log[i] # 0 /\ log[j] # 0 => log[i] < log[j]

Log == sentLog \o Numbers(queuedEvents)

LEMMA LogIsComplete == NothingLostOrReordered <=> Complete(Log, calls.send)
BY DEF NothingLostOrReordered, Complete, Log

LEMMA LogAppend ==
    ASSUME NEW log \in Seq(Nat), NEW n \in Nat, Complete(log, n)
    PROVE  Complete(Append(log, n + 1), n + 1)
<1> DEFINE new == Append(log, n + 1)
<1>1. /\ Len(log) \in Nat /\ Len(new) = Len(log) + 1 /\ new[Len(log) + 1] = n + 1
      /\ \A i \in 1..Len(log) : new[i] = log[i]
      /\ DOMAIN log = 1..Len(log) /\ DOMAIN new = 1..(Len(log) + 1)
      /\ \A i \in 1..Len(log) : log[i] \in Nat
  OBVIOUS
<1> HIDE DEF new
<1>2. ASSUME NEW m \in 1..(n + 1) PROVE \E i \in DOMAIN new : new[i] = m
  <2>1. CASE m = n + 1
    BY <1>1, <2>1
  <2>2. CASE m # n + 1
    <3>1. PICK i \in DOMAIN log : log[i] = m
      BY <2>2 DEF Complete
    <3>2. QED
      BY <1>1, <3>1
  <2>3. QED
    BY <2>1, <2>2
<1>a. \A j \in 1..Len(log) : log[j] <= n
  BY <1>1 DEF Complete
<1>3. ASSUME NEW j \in DOMAIN new PROVE new[j] <= n + 1
  <2>1. CASE j = Len(log) + 1
    BY <1>1, <2>1
  <2>2. CASE j # Len(log) + 1
    <3>1. j \in 1..Len(log)
      BY <1>1, <2>2
    <3>2. new[j] = log[j] /\ log[j] <= n /\ log[j] \in Nat
      BY <1>1, <1>a, <3>1
    <3>3. QED
      BY <3>2
  <2>3. QED
    BY <2>1, <2>2
<1>4. ASSUME NEW i \in DOMAIN new, NEW j \in DOMAIN new, i < j, new[i] # 0, new[j] # 0
      PROVE  new[i] < new[j]
  <2>1. i \in 1..Len(log) /\ new[i] = log[i] /\ log[i] <= n
    BY <1>1, <1>4 DEF Complete
  <2>2. CASE j = Len(log) + 1
    BY <1>1, <2>1, <2>2
  <2>3. CASE j # Len(log) + 1
    <3>1. j \in 1..Len(log) /\ new[j] = log[j]
      BY <1>1, <2>3
    <3>2. QED
      BY <1>1, <1>4, <2>1, <3>1 DEF Complete
  <2>4. QED
    BY <2>2, <2>3
<1>5. QED
  BY <1>2, <1>3, <1>4 DEF Complete, new

LEMMA LogInsert ==
    ASSUME NEW s \in Seq(Nat), NEW t \in Seq(Nat), NEW n \in Nat, Complete(s \o t, n)
    PROVE  Complete(s \o (<<0>> \o t), n)
<1> DEFINE old == s \o t
           new == s \o (<<0>> \o t)
           l == Len(s)
           move(i) == IF i <= l THEN i ELSE i + 1
<1>1. /\ l \in Nat /\ Len(t) \in Nat
      /\ DOMAIN old = 1..(l + Len(t)) /\ DOMAIN new = 1..(l + Len(t) + 1)
      /\ \A i \in 1..l : old[i] = s[i] /\ new[i] = s[i]
      /\ new[l + 1] = 0
  OBVIOUS
<1>2. \A i \in 1..Len(t) : old[l + i] = t[i] /\ new[l + 1 + i] = t[i]
  OBVIOUS
<1>3. \A i \in DOMAIN old : move(i) \in DOMAIN new /\ new[move(i)] = old[i]
  <2> SUFFICES ASSUME NEW i \in 1..(l + Len(t))
               PROVE  move(i) \in DOMAIN new /\ new[move(i)] = old[i]
    BY <1>1
  <2>1. CASE i <= l
    BY <1>1, <2>1
  <2>2. CASE i > l
    <3>1. i - l \in 1..Len(t) /\ l + (i - l) = i /\ l + 1 + (i - l) = i + 1
      BY <1>1, <2>2
    <3>2. old[i] = t[i - l] /\ new[i + 1] = t[i - l]
      BY <1>2, <3>1
    <3>3. QED
      BY <1>1, <2>2, <3>2
  <2>3. QED
    BY <1>1, <2>1, <2>2
<1>4. \A j \in DOMAIN new : new[j] # 0 =>
          \E i \in DOMAIN old : move(i) = j
  <2> SUFFICES ASSUME NEW j \in 1..(l + Len(t) + 1), new[j] # 0
               PROVE  \E i \in DOMAIN old : move(i) = j
    BY <1>1
  <2>1. CASE j <= l
    BY <1>1, <2>1
  <2>2. CASE j > l + 1
    <3>1. j - 1 \in DOMAIN old /\ move(j - 1) = j
      BY <1>1, <2>2
    <3>2. QED
      BY <3>1
  <2>3. QED
    <3>1. j # l + 1
      BY <1>1
    <3>2. QED
      BY <1>1, <2>1, <2>2, <3>1
<1>5. \A i, j \in DOMAIN old : move(i) < move(j) => i < j
  BY <1>1
<1>6. Complete(old, n) /\ DOMAIN old \subseteq Nat
  BY <1>1
<1> HIDE DEF old, new, l, move
<1>7. \A m \in 1..n : \E i \in DOMAIN new : new[i] = m
  BY <1>3, <1>6 DEF Complete
<1>8. \A j \in DOMAIN new : new[j] <= n
  BY <1>3, <1>4, <1>6 DEF Complete
<1>9. \A i, j \in DOMAIN new : i < j /\ new[i] # 0 /\ new[j] # 0 => new[i] < new[j]
  BY <1>3, <1>4, <1>5, <1>6 DEF Complete
<1>10. Complete(new, n)
  BY <1>7, <1>8, <1>9 DEF Complete
<1>11. QED
  BY <1>10 DEF new

LEMMA NumbersEmpty == Numbers(<<>>) = <<>>
<1>1. <<>> \in Seq(ClientEvents) /\ Len(<<>>) = 0
  BY EmptySeq
<1>2. Numbers(<<>>) \in Seq(0..MaxSends) /\ Len(Numbers(<<>>)) = 0
  BY <1>1, NumberTypes
<1>3. QED
  BY <1>2

LEMMA NumbersAppend ==
    ASSUME NEW q \in Seq(ClientEvents), NEW e \in ClientEvents
    PROVE  Numbers(Append(q, e)) = Append(Numbers(q), e.number)
<1> DEFINE both == Append(q, e)
<1>1. /\ both \in Seq(ClientEvents) /\ Len(both) = Len(q) + 1
      /\ Len(q) \in Nat /\ both[Len(q) + 1] = e
      /\ \A i \in 1..Len(q) : both[i] = q[i]
  OBVIOUS
<1>2. /\ Numbers(q) \in Seq(0..MaxSends) /\ Len(Numbers(q)) = Len(q)
      /\ Numbers(both) \in Seq(0..MaxSends) /\ Len(Numbers(both)) = Len(q) + 1
      /\ e.number \in 0..MaxSends
  BY <1>1, NumberTypes DEF ClientEvents
<1>3. \A i \in 1..(Len(q) + 1) : Numbers(both)[i] = both[i].number
  BY <1>1 DEF Numbers
<1>4. \A i \in 1..Len(q) : Numbers(q)[i] = q[i].number
  BY DEF Numbers
<1> HIDE DEF both
<1> DEFINE x == Append(Numbers(q), e.number)
<1>5. /\ x \in Seq(0..MaxSends) /\ Len(x) = Len(q) + 1
      /\ x[Len(q) + 1] = e.number
      /\ \A i \in 1..Len(q) : x[i] = Numbers(q)[i]
  BY <1>2
<1> HIDE DEF x
<1>6. ASSUME NEW i \in 1..(Len(q) + 1) PROVE Numbers(both)[i] = x[i]
  <2>1. CASE i = Len(q) + 1
    BY <1>1, <1>3, <1>5, <2>1
  <2>2. CASE i # Len(q) + 1
    <3>1. i \in 1..Len(q)
      BY <1>1, <2>2
    <3>2. QED
      BY <1>1, <1>3, <1>4, <1>5, <3>1
  <2>3. QED
    BY <2>1, <2>2
<1>7. Numbers(both) = x
  BY <1>2, <1>5, <1>6, SeqEqual
<1>8. QED
  BY <1>7 DEF both, x

LEMMA NumbersPrefixed ==
    ASSUME NEW q \in Seq(ClientEvents), NEW e \in ClientEvents
    PROVE  Numbers(<<e>> \o q) = <<e.number>> \o Numbers(q)
<1> DEFINE both == <<e>> \o q
<1>1. /\ both \in Seq(ClientEvents) /\ Len(both) = Len(q) + 1
      /\ Len(q) \in Nat /\ both[1] = e
      /\ \A i \in 2..(Len(q) + 1) : both[i] = q[i - 1]
  OBVIOUS
<1>2. /\ Numbers(q) \in Seq(0..MaxSends) /\ Len(Numbers(q)) = Len(q)
      /\ Numbers(both) \in Seq(0..MaxSends) /\ Len(Numbers(both)) = Len(q) + 1
      /\ e.number \in 0..MaxSends
  BY <1>1, NumberTypes DEF ClientEvents
<1>3. \A i \in 1..(Len(q) + 1) : Numbers(both)[i] = both[i].number
  BY <1>1 DEF Numbers
<1>4. \A i \in 1..Len(q) : Numbers(q)[i] = q[i].number
  BY DEF Numbers
<1> HIDE DEF both
<1> DEFINE x == <<e.number>> \o Numbers(q)
<1>5. /\ x \in Seq(0..MaxSends) /\ Len(x) = Len(q) + 1
      /\ x[1] = e.number
      /\ \A i \in 2..(Len(q) + 1) : x[i] = Numbers(q)[i - 1]
  BY <1>1, <1>2
<1> HIDE DEF x
<1>6. ASSUME NEW i \in 1..(Len(q) + 1) PROVE Numbers(both)[i] = x[i]
  <2>1. CASE i = 1
    BY <1>1, <1>3, <1>5, <2>1
  <2>2. CASE i # 1
    <3>1. i \in 2..(Len(q) + 1) /\ i - 1 \in 1..Len(q)
      BY <1>1, <2>2
    <3>2. QED
      BY <1>1, <1>3, <1>4, <1>5, <3>1
  <2>3. QED
    BY <2>1, <2>2
<1>7. Numbers(both) = x
  BY <1>2, <1>5, <1>6, SeqEqual
<1>8. QED
  BY <1>7 DEF both, x

\* Sending, queueing and flushing keep the log complete and in order.
LEMMA LogStep ==
    WSTypeOK /\ SocketInv /\ NothingLostOrReordered /\ ClientStep => NothingLostOrReordered'
<1> SUFFICES ASSUME WSTypeOK, SocketInv, NothingLostOrReordered, ClientStep
             PROVE  Complete(Log', calls'.send)
  BY DEF NothingLostOrReordered, Complete, Log
<1> DEFINE n == calls.send
           nums == Numbers(queuedEvents)
<1>0. /\ sentLog \in Seq(Nat) /\ queuedEvents \in Seq(ClientEvents)
      /\ nums \in Seq(Nat) /\ n \in Nat /\ Complete(sentLog \o nums, n)
      /\ calls \in CallCounts
  <2>1. /\ sentLog \in Seq(0..MaxSends) /\ queuedEvents \in Seq(ClientEvents)
        /\ calls \in CallCounts
    BY DEF WSTypeOK, CallCounts
  <2>2. nums \in Seq(0..MaxSends) /\ 0..MaxSends \subseteq Nat
    BY <2>1, NumberTypes
  <2>3. sentLog \in Seq(Nat) /\ nums \in Seq(Nat)
    BY <2>1, <2>2, SeqMonotonic
  <2>4. QED
    BY <2>1, <2>3, LogIsComplete DEF Log, CallCounts
<1>1. ASSUME NEW e \in ClientEvents, Submits(e) PROVE Complete(Log', calls'.send)
  <2>1. e.number = n + 1 /\ calls'.send = n + 1
    BY <1>0, <1>1 DEF Submits, Count, CallCounts
  <2>2. CASE Is(socket, "open")
    <3>1. queuedEvents = <<>> /\ UNCHANGED queuedEvents /\ sentLog' = Append(sentLog, n + 1)
      BY <1>1, <2>1, <2>2 DEF Submits, SendEvent, SocketInv
    <3>2. nums = <<>> /\ Log' = Append(sentLog, n + 1) \o <<>>
      BY <3>1, NumbersEmpty DEF Log
    <3>3. sentLog \o nums = sentLog /\ Append(sentLog, n + 1) \o <<>> = Append(sentLog, n + 1)
      BY <1>0, <3>2, ConcatEmptySeq, AppendProperties
    <3>4. QED
      BY <1>0, <2>1, <3>2, <3>3, LogAppend
  <2>3. CASE ~Is(socket, "open")
    <3>1. queuedEvents' = Append(queuedEvents, e) /\ UNCHANGED sentLog
      BY <1>1, <2>3 DEF Submits, SendEvent
    <3>2. Log' = sentLog \o Append(nums, n + 1)
      BY <1>0, <2>1, <3>1, NumbersAppend DEF Log
    <3> HIDE DEF nums, n
    <3>3. sentLog \o Append(nums, n + 1) = Append(sentLog \o nums, n + 1)
      BY <1>0
    <3>4. sentLog \o nums \in Seq(Nat)
      BY <1>0
    <3>5. Complete(Append(sentLog \o nums, n + 1), n + 1)
      BY <1>0, <3>4, LogAppend
    <3>6. QED
      BY <2>1, <3>2, <3>3, <3>5
  <2>4. QED
    BY <2>2, <2>3
<1>2. ASSUME NEW k \in Sockets, SocketOpens(k) PROVE Complete(Log', calls'.send)
  <2> DEFINE queue == WithSessionStart(queuedEvents)
  <2>1. queue \in Seq(ClientEvents) /\ Numbers(queue) \in Seq(Nat)
    <3>1. queue \in Seq(ClientEvents) /\ Numbers(queue) \in Seq(0..MaxSends)
      BY StartTypes, NumberTypes
    <3>2. 0..MaxSends \subseteq Nat
      OBVIOUS
    <3>3. QED
      BY <3>1, <3>2, SeqMonotonic
  <2>2. Complete(sentLog \o Numbers(queue), n)
    <3>1. CASE queue = queuedEvents
      BY <1>0, <3>1
    <3>2. CASE /\ sessionId # NoSessionId
               /\ queue = <<Event("START_SESSION", sessionId, 0)>> \o queuedEvents
      <4> DEFINE start == Event("START_SESSION", sessionId, 0)
      <4>1. start \in ClientEvents
        BY <3>2, EventTypes DEF WSTypeOK
      <4>2. start.number = 0
        BY DEF Event
      <4>3. Numbers(queue) = <<0>> \o nums
        BY <1>0, <3>2, <4>1, <4>2, NumbersPrefixed
      <4>4. QED
        BY <1>0, <4>3, LogInsert
    <3>3. QED
      BY <3>1, <3>2 DEF WithSessionStart
  <2> HIDE DEF queue
  <2>3. Log' = sentLog \o Numbers(queue)
    <3>1. CASE sentLog' = sentLog \o Numbers(queue) /\ queuedEvents' = <<>>
      <4>1. Log' = (sentLog \o Numbers(queue)) \o <<>>
        BY <3>1, NumbersEmpty DEF Log
      <4>2. QED
        BY <1>0, <2>1, <4>1, ConcatProperties, ConcatEmptySeq
    <3>2. CASE sentLog' = sentLog /\ queuedEvents' = queue
      BY <3>2 DEF Log
    <3>3. QED
      BY <1>2, <3>1, <3>2 DEF SocketOpens, queue
  <2>4. UNCHANGED calls
    BY <1>2 DEF SocketOpens
  <2>5. QED
    BY <2>2, <2>3, <2>4
<1>3. CASE UNCHANGED <<sentLog, queuedEvents>> /\ calls'.send = calls.send
  BY <1>0, <1>3 DEF Log
<1>4. ClientStep => \/ \E e \in ClientEvents : Submits(e)
                    \/ \E k \in Sockets : SocketOpens(k)
                    \/ UNCHANGED <<sentLog, queuedEvents>> /\ calls'.send = calls.send
  BY <1>0
     DEF ClientStep, Joins, Disconnect, SetSessionId, SendAudioChunk, Ends, FailCounted,
         SocketCloses, ConnectFails, OnClose, ReconnectTimerFires, client, Count, CallCounts
<1>5. QED
  BY <1>1, <1>2, <1>3, <1>4

-----------------------------------------------------------------------------
(* The announcement of the session *)

\* The page creates its session id once, when it is loaded.
OnePage == \A s, t \in SessionIds : s = t

Announced(k) ==
    \E i \in DOMAIN outgoing[k] :
        outgoing[k][i].type = "START_SESSION" /\ outgoing[k][i].session = sessionId

\* A socket that extends what was sent on it keeps its announcement.
LEMMA StaysAnnounced ==
    ASSUME NEW k \in Sockets, outgoing \in [Sockets -> Seq(Frames)],
           NEW more \in Seq(Frames), outgoing'[k] = outgoing[k] \o more,
           Announced(k), sessionId' = sessionId
    PROVE  Announced(k)'
<1> DEFINE out == outgoing[k]
<1>1. out \in Seq(Frames)
  OBVIOUS
<1>2. PICK i \in DOMAIN out : out[i].type = "START_SESSION" /\ out[i].session = sessionId
  BY DEF Announced
<1>3. i \in DOMAIN (out \o more) /\ (out \o more)[i] = out[i]
  BY <1>1, ConcatProperties
<1>4. QED
  BY <1>2, <1>3 DEF Announced

\* A socket on which a START_SESSION was sent has its announcement.
LEMMA BecomesAnnounced ==
    ASSUME NEW k \in Sockets, outgoing \in [Sockets -> Seq(Frames)],
           NEW more \in Seq(Frames), outgoing'[k] = outgoing[k] \o more,
           NEW j \in DOMAIN more, more[j].type = "START_SESSION",
           more[j].session = sessionId'
    PROVE  Announced(k)'
<1> DEFINE out == outgoing[k]
           i == Len(out) + j
<1>1. out \in Seq(Frames) /\ Len(out) \in Nat /\ j \in 1..Len(more)
  OBVIOUS
<1>2. i \in DOMAIN (out \o more) /\ (out \o more)[i] = more[j]
  BY <1>1, ConcatProperties
<1>3. QED
  BY <1>2 DEF Announced

LEMMA AnnouncedStep ==
    OnePage /\ WSTypeOK /\ SocketInv /\ ActiveSessionAnnounced /\ ClientStep
        => ActiveSessionAnnounced'
<1> SUFFICES ASSUME OnePage, WSTypeOK, SocketInv, ActiveSessionAnnounced, ClientStep,
                    Is(socket, "open")', sessionActive'
             PROVE  Announced(socket)'
  BY DEF ActiveSessionAnnounced, Announced
<1>0. /\ outgoing \in [Sockets -> Seq(Frames)]
      /\ ready \in [Sockets -> {"unused", "connecting", "open", "closing", "closed"}]
      /\ socket \in Sockets \union {NoSocket}
      /\ sessionId \in SessionIds \union {NoSessionId}
      /\ socket' # NoSocket /\ ready'[socket'] = "open"
  BY DEF WSTypeOK, Is
<1>a. Is(socket, "open") /\ sessionActive => Announced(socket)
  BY DEF ActiveSessionAnnounced, Announced
<1>1. ASSUME UNCHANGED <<socket, outgoing, sessionActive>>, Is(socket, "open"),
             sessionId' = sessionId
      PROVE  Announced(socket)'
  BY <1>a, <1>1 DEF Announced
<1>2. CASE Joins
  <2>1. UNCHANGED <<socket, ready>>
    BY <1>0, <1>2, SocketFacts DEF Joins, ConnectSocket, OpenSocket
  <2>2. Is(socket, "open")
    BY <1>0, <2>1 DEF Is
  <2>3. sessionId' = sessionId
    BY <1>0, <1>2, SessionIdAssumption DEF Joins, OnePage, SocketInv
  <2>4. QED
    BY <1>1, <1>2, <2>1, <2>2, <2>3 DEF Joins
<1>3. CASE Disconnect
  BY <1>0, <1>3 DEF Disconnect
<1>4. ASSUME NEW e \in ClientEvents, Submits(e), Sessioned(e) PROVE Announced(socket)'
  <2>1. UNCHANGED <<socket, ready>> /\ socket \in Sockets /\ Is(socket, "open")
    BY <1>0, <1>4 DEF Submits, Is
  <2>2. e \in Frames /\ outgoing'[socket] = Append(outgoing[socket], e)
    BY <1>0, <1>4, <2>1, EventTypes DEF Submits, SendEvent
  <2>3. outgoing'[socket] = outgoing[socket] \o <<e>> /\ <<e>> \in Seq(Frames)
    BY <1>0, <2>1, <2>2, AppendIsConcat
  <2>4. CASE sessionId' = e.session /\ e.type = "START_SESSION"
    <3>1. 1 \in DOMAIN <<e>> /\ <<e>>[1] = e
      OBVIOUS
    <3>2. Announced(socket)'
      BY <1>0, <2>1, <2>3, <2>4, <3>1, BecomesAnnounced DEF Announced
    <3>3. QED
      BY <3>2
  <2>5. CASE UNCHANGED <<sessionId, sessionActive>>
    BY <1>0, <1>a, <2>1, <2>3, <2>5, StaysAnnounced DEF Announced
  <2>6. QED
    BY <1>4, <2>4, <2>5 DEF Sessioned
<1>5. ASSUME NEW s \in SessionIds, SetSessionId(s) PROVE Announced(socket)'
  <2>1. sessionId' = sessionId
    BY <1>0, <1>5, SessionIdAssumption DEF SetSessionId, OnePage, SocketInv
  <2>2. QED
    BY <1>0, <1>1, <1>5, <2>1 DEF SetSessionId, Is
<1>6. CASE SendAudioChunk
  <2>1. sessionId \in SessionIds /\ socket \in Sockets /\ Is(socket, "open")
        /\ UNCHANGED <<socket, sessionId, sessionActive>>
    BY <1>0, <1>6 DEF SendAudioChunk, Is, client
  <2> DEFINE meta == Event("AUDIO_CHUNK", sessionId, 0)
             data == Event("BINARY", sessionId, 0)
  <2>2. meta \in Frames /\ data \in Frames /\ outgoing[socket] \in Seq(Frames)
    BY <1>0, <2>1, EventTypes
  <2>3. \/ outgoing'[socket] = Append(outgoing[socket], meta)
        \/ outgoing'[socket] = outgoing[socket] \o <<meta, data>>
    BY <1>0, <1>6, <2>1 DEF SendAudioChunk
  <2> HIDE DEF meta, data
  <2>4. Append(outgoing[socket], meta) = outgoing[socket] \o <<meta>>
    BY <2>2, AppendIsConcat
  <2>5. <<meta>> \in Seq(Frames) /\ <<meta, data>> \in Seq(Frames)
    BY <2>2
  <2>6. \E more \in Seq(Frames) : outgoing'[socket] = outgoing[socket] \o more
    BY <2>3, <2>4, <2>5
  <2>7. QED
    BY <1>0, <1>a, <2>1, <2>6, StaysAnnounced DEF Announced
<1>7. ASSUME NEW k \in Sockets, SocketOpens(k) PROVE Announced(socket)'
  <2> DEFINE queue == WithSessionStart(queuedEvents)
  <2>1. queue \in Seq(ClientEvents) /\ queue \in Seq(Frames)
    BY StartTypes, EventTypes, SeqMonotonic
  <2>2. UNCHANGED <<socket, sessionId, sessionActive>> /\ socket \in Sockets
    BY <1>0, <1>7 DEF SocketOpens
  <2>3. outgoing'[socket] = outgoing[socket] \o queue
    BY <1>0, <1>7, <2>2 DEF SocketOpens, Is
  <2>4. sessionId # NoSessionId
    BY <2>2 DEF SocketInv
  <2>5. \E j \in DOMAIN queue :
            queue[j].type = "START_SESSION" /\ queue[j].session = sessionId
    <3>1. CASE \E i \in DOMAIN queuedEvents : queuedEvents[i].type = "START_SESSION"
                                           /\ queuedEvents[i].session = sessionId
      BY <3>1 DEF WithSessionStart
    <3>2. CASE queue = <<Event("START_SESSION", sessionId, 0)>> \o queuedEvents
      <4> DEFINE start == Event("START_SESSION", sessionId, 0)
      <4>1. start.type = "START_SESSION" /\ start.session = sessionId
        BY DEF Event
      <4>2. start \in ClientEvents /\ queuedEvents \in Seq(ClientEvents)
        BY <2>4, EventTypes DEF WSTypeOK
      <4> HIDE DEF start
      <4>3. 1 \in DOMAIN (<<start>> \o queuedEvents) /\ (<<start>> \o queuedEvents)[1] = start
        BY <4>2
      <4>4. QED
        BY <3>2, <4>1, <4>3 DEF start
    <3>3. QED
      BY <2>2, <2>4, <3>1, <3>2 DEF WithSessionStart
  <2> HIDE DEF queue
  <2>6. QED
    BY <1>0, <2>1, <2>2, <2>3, <2>5, BecomesAnnounced DEF Announced
<1>8. ASSUME NEW k \in Sockets, Ends(k) PROVE Announced(socket)'
  BY <1>0, <1>1, <1>8 DEF Ends, client, Is
<1>9. ASSUME NEW k \in Sockets, SocketCloses(k) \/ ConnectFails(k) PROVE Announced(socket)'
  BY <1>0, <1>9 DEF SocketCloses, ConnectFails, OnClose
<1>10. CASE ReconnectTimerFires
  BY <1>0, <1>1, <1>10, SocketFacts DEF ReconnectTimerFires, OpenSocket, Is
<1>11. CASE FailCounted /\ UNCHANGED <<ready, outgoing, client, sentLog>>
  BY <1>0, <1>1, <1>11 DEF client, Is
<1>12. QED
  BY <1>2, <1>3, <1>4, <1>5, <1>6, <1>7, <1>8, <1>9, <1>10, <1>11 DEF ClientStep

-----------------------------------------------------------------------------
(* The theorems *)

LEMMA ClientInvInit == WSInit => ClientInv /\ ActiveSessionAnnounced
<1> SUFFICES ASSUME WSInit PROVE ClientInv /\ ActiveSessionAnnounced
  OBVIOUS
<1>1. WSTypeOK
  <2>1. /\ <<>> \in Seq(Frames) /\ <<>> \in Seq(ClientEvents)
        /\ <<>> \in Seq(0..MaxSends)
    BY EmptySeq
  <2>2. calls \in CallCounts
    BY BoundsAssumption DEF WSInit, CallCounts
  <2>3. outgoing \in [Sockets -> Seq(Frames)]
    BY <2>1 DEF WSInit
  <2>4. QED
    BY <2>1, <2>2, <2>3 DEF WSInit, WSTypeOK, CallCounts
<1>2. SocketInv /\ ReconnectPlanned /\ OneConnection /\ StateHonest /\ ActiveSessionAnnounced
  BY DEF WSInit, SocketInv, ReconnectPlanned, OneConnection, StateHonest, Live,
         ActiveSessionAnnounced, Is, NoSocket
<1>3. NothingLostOrReordered
  <2>1. Log = <<>> /\ calls.send = 0
    BY NumbersEmpty DEF WSInit, Log
  <2>2. Complete(<<>>, 0)
    BY DEF Complete
  <2>3. QED
    BY <2>1, <2>2, LogIsComplete
<1>4. QED
  BY <1>1, <1>2, <1>3 DEF ClientInv

LEMMA ClientInvStep == ClientInv /\ ClientStep => ClientInv'
BY TypeStep, SocketStep, PlannedStep, ConnectionStep, HonestStep, LogStep DEF ClientInv

\* What the invariant says of the connection.
LEMMA ClientInvImplies == ClientInv => ReconnectsOneAtATime /\ DisconnectStops
BY DEF ClientInv, SocketInv, OneConnection, ReconnectsOneAtATime, AtMostOneLive,
       DisconnectStops, WSTypeOK, NoSocket, Sockets, Live

\* The client always satisfies ClientInv: what it does with sockets it has lost,
\* closed or replaced, with its timer and with its queue (openSocket, sendEvent,
\* scheduleReconnect, disconnect).
THEOREM ClientInvariant == WSSpec => []ClientInv
<1>1. ClientInv /\ [WSNext]_wsVars => ClientInv'
  BY StepIsClientStep, ClientInvStep DEF ClientInv
<1>2. QED
  BY <1>1, ClientInvInit, PTL DEF WSSpec

\* Every variable of the client keeps its type, for every bound.
THEOREM ClientTypeCorrect == WSSpec => []WSTypeOK
<1>1. ClientInv => WSTypeOK
  BY DEF ClientInv
<1>2. QED
  BY <1>1, ClientInvariant, PTL

\* No event of the App is lost, doubled or overtaken in the queue.
THEOREM EventsKeepOrder == WSSpec => []NothingLostOrReordered
<1>1. ClientInv => NothingLostOrReordered
  BY DEF ClientInv
<1>2. QED
  BY <1>1, ClientInvariant, PTL

\* A client that has to be connected has a socket or a timer that will open one.
THEOREM AlwaysReconnects == WSSpec => []ReconnectPlanned
<1>1. ClientInv => ReconnectPlanned
  BY DEF ClientInv
<1>2. QED
  BY <1>1, ClientInvariant, PTL

\* Of one connect() there is never more than one connection, however late the
\* close events of earlier sockets come.
THEOREM OneLiveSocket == WSSpec => []ReconnectsOneAtATime
<1>1. ClientInv => ReconnectsOneAtATime
  BY ClientInvImplies
<1>2. QED
  BY <1>1, ClientInvariant, PTL

\* What such a client tells the App of its connection agrees with its socket.
THEOREM StateTold == WSSpec => []StateHonest
<1>1. ClientInv => StateHonest
  BY DEF ClientInv
<1>2. QED
  BY <1>1, ClientInvariant, PTL

\* Its disconnect() ends the connection for good.
THEOREM DisconnectIsFinal == WSSpec => []DisconnectStops
<1>1. ClientInv => DisconnectStops
  BY ClientInvImplies
<1>2. QED
  BY <1>1, ClientInvariant, PTL

\* A page with one session id announces its active session on every connection.
THEOREM SessionAnnounced == OnePage => (WSSpec => []ActiveSessionAnnounced)
<1> SUFFICES ASSUME OnePage PROVE WSSpec => []ActiveSessionAnnounced
  OBVIOUS
<1>1. ClientInv /\ ActiveSessionAnnounced /\ [WSNext]_wsVars => ActiveSessionAnnounced'
  BY StepIsClientStep, AnnouncedStep DEF ClientInv
<1>2. QED
  BY <1>1, ClientInvInit, ClientInvariant, PTL DEF WSSpec

-----------------------------------------------------------------------------
(* The client that components share *)

\* The count and the timer of the manager, beside the client.
ManagerInv ==
    /\ IsFiniteSet(mounted)
    /\ disconnectTimer \in BOOLEAN
    /\ MountedStaysConnected
    /\ OnlyMountedAreCalled

LEMMA NextIsClientStep == ClientInv /\ [ManagerNext]_sharedVars => ClientStep
<1> SUFFICES ASSUME ClientInv, [ManagerNext]_sharedVars PROVE ClientStep
  OBVIOUS
<1>0. WSTypeOK
  BY DEF ClientInv
<1>1. ASSUME NEW m \in Components, Mount(m) PROVE ClientStep
  <2>1. Joins
    BY <1>1 DEF Mount, Joins
  <2>2. QED
    BY <2>1 DEF ClientStep
<1>2. CASE WSNext \/ UNCHANGED wsVars
  BY <1>0, <1>2, StepIsClientStep
<1>3. CASE GraceExpires
  BY <1>0, <1>2, <1>3 DEF GraceExpires, WSNext
<1>4. CASE (Use \/ Network) /\ UNCHANGED managerVars
  BY <1>0, <1>2, <1>4 DEF Use, WSNext
<1>5. ASSUME NEW m \in Components, Unmount(m) PROVE ClientStep
  BY <1>2, <1>5 DEF Unmount
<1>6. QED
  BY <1>1, <1>2, <1>3, <1>4, <1>5 DEF ManagerNext, sharedVars

LEMMA ManagerInvInit == ManagerInit => ManagerInv
BY FS_EmptySet DEF ManagerInit, WSInit, ManagerInv, MountedStaysConnected,
                   OnlyMountedAreCalled

\* Only disconnect() sets closedByUser.
LEMMA StaysWanted ==
    ASSUME ClientStep, ~closedByUser, ~Disconnect PROVE ~closedByUser'
BY DEF ClientStep, Joins, ConnectSocket, Submits, SetSessionId, SendAudioChunk, SocketOpens,
       Ends, SocketCloses, ConnectFails, OnClose, ReconnectTimerFires, client

LEMMA ManagerStep == ClientInv /\ ManagerInv /\ [ManagerNext]_sharedVars => ManagerInv'
<1> SUFFICES ASSUME ClientInv, ManagerInv, [ManagerNext]_sharedVars PROVE ManagerInv'
  OBVIOUS
<1>0. /\ IsFiniteSet(mounted) /\ refCount = Cardinality(mounted) /\ refCount \in Nat
      /\ mounted # {} => ~closedByUser /\ ~disconnectTimer
      /\ disconnectTimer \in BOOLEAN /\ handlers \subseteq mounted
  BY FS_CardinalityType DEF ManagerInv, MountedStaysConnected, OnlyMountedAreCalled
<1>1. ASSUME NEW m \in Components, Mount(m) PROVE ManagerInv'
  <2>1. /\ m \notin mounted /\ mounted' = mounted \union {m}
        /\ refCount' = refCount + 1 /\ disconnectTimer' = FALSE /\ handlers' = {m}
    BY <1>1 DEF Mount, UpdateHandlers
  <2>2. IsFiniteSet(mounted') /\ Cardinality(mounted') = Cardinality(mounted) + 1
    BY <1>0, <2>1, FS_AddElement
  <2>3. ~closedByUser'
    BY <1>1 DEF Mount, ConnectSocket, Is, ClientInv, SocketInv
  <2>4. QED
    BY <1>0, <2>1, <2>2, <2>3 DEF ManagerInv, MountedStaysConnected, OnlyMountedAreCalled
<1>2. ASSUME NEW m \in Components, Unmount(m) PROVE ManagerInv'
  <2>1. /\ m \in mounted /\ mounted' = mounted \ {m}
        /\ refCount' = (IF refCount = 0 THEN 0 ELSE refCount - 1)
        /\ disconnectTimer' = (disconnectTimer \/ refCount = 1)
        /\ UNCHANGED closedByUser /\ handlers' = {}
    BY <1>2 DEF Unmount, UpdateHandlers, wsVars, client
  <2>2. IsFiniteSet(mounted') /\ Cardinality(mounted') = Cardinality(mounted) - 1
    BY <1>0, <2>1, FS_RemoveElement
  <2>3. refCount # 0
    BY <1>0, <2>1, FS_EmptySet
  <2>4. mounted' # {} => refCount # 1
    <3>1. refCount = 1 => Cardinality(mounted') = 0
      BY <1>0, <2>2
    <3>2. QED
      BY <2>2, <3>1, FS_EmptySet
  <2>5. disconnectTimer' \in BOOLEAN /\ (mounted' # {} => ~disconnectTimer')
    BY <1>0, <2>1, <2>4
  <2>6. mounted' # {} => ~closedByUser'
    BY <1>0, <2>1
  <2>7. refCount' = Cardinality(mounted')
    BY <1>0, <2>1, <2>2, <2>3
  <2>8. QED
    BY <2>1, <2>2, <2>5, <2>6, <2>7 DEF ManagerInv, MountedStaysConnected,
                                        OnlyMountedAreCalled
<1>3. CASE GraceExpires
  <2>1. mounted = {}
    BY <1>0, <1>3 DEF GraceExpires
  <2>2. QED
    BY <1>0, <1>3, <2>1 DEF GraceExpires, ManagerInv, MountedStaysConnected,
                            OnlyMountedAreCalled
<1>4. CASE (Use \/ Network) /\ UNCHANGED managerVars
  <2>1. ~Disconnect
    <3>1. SUFFICES ASSUME Disconnect PROVE FALSE
      OBVIOUS
    <3>2. calls'.disconnect = calls.disconnect + 1
      BY <3>1 DEF Disconnect, Count, ClientInv, WSTypeOK
    <3>3. calls'.disconnect = calls.disconnect
      BY <1>4 DEF Use, Network, Calls, Connect, SetSessionId, StartSession, StopSession, Send,
             SendAudioChunk, SocketOpens, SocketFails, SocketCloses, ConnectFails,
             ReconnectTimerFires, Count, ClientInv, WSTypeOK
    <3>4. QED
      BY <3>2, <3>3 DEF ClientInv, WSTypeOK
  <2>2. ~closedByUser => ~closedByUser'
    BY <2>1, NextIsClientStep, StaysWanted
  <2>3. QED
    BY <1>0, <1>4, <2>2 DEF managerVars, ManagerInv, MountedStaysConnected,
                            OnlyMountedAreCalled
<1>5. CASE UNCHANGED sharedVars
  BY <1>0, <1>5 DEF sharedVars, wsVars, client, managerVars, ManagerInv,
                    MountedStaysConnected, OnlyMountedAreCalled
<1>6. QED
  BY <1>1, <1>2, <1>3, <1>4, <1>5 DEF ManagerNext

\* While components mount and unmount, the client keeps its invariant and the
\* count, the handlers and the grace timer agree with who is mounted
\* (acquireWSClient, releaseWSClient).
THEOREM ManagerInvariant == ManagerSpec => [](ClientInv /\ ManagerInv)
<1>1. ManagerInit => ClientInv /\ ManagerInv
  BY ClientInvInit, ManagerInvInit DEF ManagerInit
<1>2. ClientInv /\ ManagerInv /\ [ManagerNext]_sharedVars => (ClientInv /\ ManagerInv)'
  BY NextIsClientStep, ClientInvStep, ManagerStep
<1>3. QED
  BY <1>1, <1>2, PTL DEF ManagerSpec

\* The count is right and no timer of an earlier unmount cuts off a component.
THEOREM ComponentsStayConnected == ManagerSpec => []MountedStaysConnected
<1>1. ManagerInv => MountedStaysConnected
  BY DEF ManagerInv
<1>2. QED
  BY <1>1, ManagerInvariant, PTL

\* No event of a socket is given to a component that has left the page.
THEOREM GoneAreNotCalled == ManagerSpec => []OnlyMountedAreCalled
<1>1. ManagerInv => OnlyMountedAreCalled
  BY DEF ManagerInv
<1>2. QED
  BY <1>1, ManagerInvariant, PTL

\* However components come and go, the client they share keeps its promises:
\* events in order, a reconnection under way when one is due, and, after one call
\* of connect(), one connection.
THEOREM SharedClientWorks ==
    ManagerSpec => [](/\ WSTypeOK /\ NothingLostOrReordered /\ ReconnectPlanned
               /\ ReconnectsOneAtATime /\ StateHonest /\ DisconnectStops)
<1>1. ClientInv => /\ WSTypeOK /\ NothingLostOrReordered /\ ReconnectPlanned
                   /\ ReconnectsOneAtATime /\ StateHonest /\ DisconnectStops
  BY ClientInvImplies DEF ClientInv
<1>2. QED
  BY <1>1, ManagerInvariant, PTL

\* A page that mounts again keeps its active session announced.
THEOREM SharedSessionAnnounced == OnePage => (ManagerSpec => []ActiveSessionAnnounced)
<1> SUFFICES ASSUME OnePage PROVE ManagerSpec => []ActiveSessionAnnounced
  OBVIOUS
<1>1. ClientInv /\ ActiveSessionAnnounced /\ [ManagerNext]_sharedVars => ActiveSessionAnnounced'
  BY NextIsClientStep, AnnouncedStep DEF ClientInv
<1>2. ManagerInit => ActiveSessionAnnounced
  BY ClientInvInit DEF ManagerInit
<1>3. QED
  BY <1>1, <1>2, ManagerInvariant, PTL DEF ManagerSpec

=============================================================================
