------------------------------- MODULE EndToEnd -------------------------------
(***************************************************************************)
(* A page's WSClient and the backend's SessionManager, joined by the       *)
(* sockets: what the client believes of its session and what the backend   *)
(* knows (frontend/src/lib/wsClient.ts, backend/internal/server/           *)
(* ws_handler.go and session_manager.go).                                  *)
(*                                                                         *)
(* A socket carries the client's events in order to a goroutine of its     *)
(* own.  The two ends do not learn of its end together: the goroutine goes *)
(* on with what was sent before, however long ago the client has moved to  *)
(* another socket, and the client writes to a socket nobody reads any      *)
(* more, which loses the event without an error.  The backend may be       *)
(* started again, which empties its memory.                                *)
(*                                                                         *)
(* Abstractions.  The events that flow back are in WSHandler and ChatLog,  *)
(* audio chunks in WSHandler.  The page stays mounted.                     *)
(***************************************************************************)
EXTENDS WSClient

VARIABLES
    known, session, result,     \* of the SessionManager
    conn,       \* the goroutine of each socket: none, reading, closed
    read,       \* how many of the socket's events it has handled
    refused,    \* numbers of the App's events that the backend refused
    promised,   \* utterances of an active session that the user did not stop
                \* before they were sent
    orderly     \* whether each connection began after the earlier ones had ended

serverVars == <<known, session, result>>
vars == <<wsVars, serverVars, conn, read, refused, promised, orderly>>

\* One goroutine, hence one caller, for each socket.  A generation is issued
\* for an event of the App at most.
Server == INSTANCE SessionManager WITH
    Sessions <- SessionIds, NoSession <- NoSessionId, Callers <- Sockets,
    Texts <- {"typed"}, NoText <- "", VoiceText <- "spoken",
    MaxGeneration <- MaxSends

Init ==
    /\ WSInit
    /\ Server!SMInit
    /\ conn = [k \in Sockets |-> "none"]
    /\ read = [k \in Sockets |-> 0]
    /\ refused = {}
    /\ promised = {}
    /\ orderly = TRUE

-----------------------------------------------------------------------------
(* The page: the mount effect connects before anything else is called. *)

PageConnects ==
    /\ Connect
    /\ UNCHANGED <<serverVars, conn, read, refused, promised, orderly>>

PageStarts(s) ==
    /\ calls.connect > 0
    /\ StartSession(s)
    /\ UNCHANGED <<serverVars, conn, read, refused, promised, orderly>>

\* Stopping takes back what the client has not sent yet.
PageStops ==
    /\ calls.connect > 0
    /\ StopSession
    /\ promised' = promised \ {queuedEvents[i].number : i \in DOMAIN queuedEvents}
    /\ UNCHANGED <<serverVars, conn, read, refused, orderly>>

PageSends(type) ==
    /\ calls.connect > 0
    /\ Send(type)
    /\ promised' = IF sessionActive THEN promised \union {calls'.send} ELSE promised
    /\ UNCHANGED <<serverVars, conn, read, refused, orderly>>

-----------------------------------------------------------------------------
(* The sockets *)

\* The handshake is over at both ends.
SocketAccepted(k) ==
    /\ SocketOpens(k)
    /\ conn' = [conn EXCEPT ![k] = "reading"]
    /\ orderly' = (orderly /\ \A j \in Sockets : conn[j] # "reading")
    /\ UNCHANGED <<serverVars, read, refused, promised>>

\* What the client sees of the end of a connection, and its timer.
ClientEnd ==
    /\ \/ \E k \in Sockets : SocketFails(k) \/ SocketCloses(k) \/ ConnectFails(k)
       \/ ReconnectTimerFires
    /\ UNCHANGED <<serverVars, conn, read, refused, promised, orderly>>

\* The backend's end is gone; the client learns of it.
PeerGone(k) ==
    /\ ready[k] = "open" /\ conn[k] = "closed"
    /\ ready' = [ready EXCEPT ![k] = "closing"]
    /\ UNCHANGED <<outgoing, client, sentLog, calls, serverVars, conn, read,
                   refused, promised, orderly>>

-----------------------------------------------------------------------------
(* The backend *)

Call(k, e) ==
    \/ e.type = "START_SESSION" /\ Server!StartSession(k, e.session)
    \/ e.type = "STOP_SESSION" /\ Server!StopSession(k, e.session)
    \/ e.type = "USER_SPEECH_END" /\ Server!UserSpeechEnd(k, e.session)
    \/ e.type = "TEXT_INPUT" /\ Server!TextInput(k, e.session, "typed")

IsRefusal(events) == \E i \in DOMAIN events : events[i].type = "ERROR"

\* The read loop takes the next event.
ServerReads(k) ==
    /\ conn[k] = "reading"
    /\ read[k] < Len(outgoing[k])
    /\ read' = [read EXCEPT ![k] = @ + 1]
    /\ LET e == outgoing[k][read[k] + 1]
       IN  /\ Call(k, e)
           /\ refused' = IF IsRefusal(result'[k]) THEN refused \union {e.number}
                                                  ELSE refused
    /\ UNCHANGED <<wsVars, conn, promised, orderly>>

\* Mutant of ConnectionEnds: the session is not told.
ConnectionEndsUnmarked(k) ==
    /\ conn[k] = "reading"
    /\ conn' = [conn EXCEPT ![k] = "closed"]
    /\ UNCHANGED <<serverVars, read, refused, promised, orderly>>

\* conn.Read fails: what was not read is lost, and the session the connection
\* spoke of last is marked.
ConnectionEnds(k) ==
    /\ conn[k] = "reading"
    /\ conn' = [conn EXCEPT ![k] = "closed"]
    /\ IF read[k] > 0 /\ outgoing[k][read[k]].session \in known
       THEN Server!MarkDisconnected(outgoing[k][read[k]].session)
       ELSE UNCHANGED serverVars
    /\ UNCHANGED <<read, refused, promised, orderly>>

\* ... because the client's end is gone ...
ReadFails(k) ==
    /\ ready[k] \in {"closing", "closed"}
    /\ ConnectionEnds(k)
    /\ UNCHANGED wsVars

\* ... or before the client knows.
ConnectionDrops(k) ==
    /\ calls.fail < MaxFailures
    /\ ready[k] = "open"
    /\ ConnectionEnds(k)
    /\ Count("fail")
    /\ UNCHANGED <<ready, outgoing, client, sentLog>>

\* The process ends and is started again.
ServerRestarts ==
    /\ calls.fail < MaxFailures
    /\ Count("fail")
    /\ known' = {}
    /\ session' = [s \in SessionIds |-> Server!Fresh]
    /\ result' = [k \in Sockets |-> <<>>]
    /\ conn' = [k \in Sockets |-> IF conn[k] = "reading" THEN "closed" ELSE conn[k]]
    /\ UNCHANGED <<ready, outgoing, client, sentLog, read, refused, promised, orderly>>

-----------------------------------------------------------------------------
Page ==
    \/ PageConnects \/ PageStops
    \/ \E s \in SessionIds : PageStarts(s)
    \/ \E type \in SendTypes : PageSends(type)

Next ==
    \/ Page \/ ClientEnd \/ ServerRestarts
    \/ \E k \in Sockets :
           SocketAccepted(k) \/ PeerGone(k) \/ ServerReads(k) \/ ReadFails(k)
               \/ ConnectionDrops(k)

Spec == Init /\ [][Next]_vars

\* The browser settles a socket that connects, one way or the other, finishes a
\* closing handshake and runs the timer; goroutines run, and each end of a
\* connection learns that the other one is gone.  Nothing makes an open
\* connection fail, or one attempt to connect succeed.
Fairness ==
    /\ \A k \in Sockets :
           /\ WF_vars(SocketAccepted(k) \/ (ClientEnd /\ ready[k] = "connecting"
                                                    /\ ready'[k] = "closed"))
           /\ WF_vars(ClientEnd /\ ready[k] = "closing" /\ ready'[k] = "closed")
           /\ WF_vars(PeerGone(k))
           /\ WF_vars(ServerReads(k) \/ ReadFails(k))
    /\ WF_vars(ClientEnd /\ reconnectTimer /\ ~reconnectTimer')

FairSpec == Spec /\ Fairness

-----------------------------------------------------------------------------
(* Properties *)

ServerActive == sessionId \in known /\ session[sessionId].active

\* The client uses an open connection on which nothing is on the way.
Quiet ==
    /\ Is(socket, "open") /\ conn[socket] = "reading"
    /\ read[socket] = Len(outgoing[socket])

\* No STOP_SESSION was sent to a connection that ended before it read it.
NoStopLost ==
    \A k \in Sockets : conn[k] = "closed" =>
        \A i \in (read[k] + 1)..Len(outgoing[k]) : outgoing[k][i].type # "STOP_SESSION"

\* The App's own START_SESSION went out behind event n on the same socket.
StartedBehind(n) ==
    \E k \in Sockets : \E i, j \in DOMAIN outgoing[k] :
        /\ i < j /\ outgoing[k][i].number = n
        /\ outgoing[k][j].type = "START_SESSION" /\ outgoing[k][j].number # 0

\* "On reconnection the state is synchronised": as long as each connection began
\* after the earlier ones had ended at the backend, when nothing is on the way, a
\* session the client believes active is active at the backend, whatever was
\* lost and however often the backend was started again, and one the client has
\* stopped is not active unless a stop was lost, whatever else was.
SessionsAgree ==
    orderly /\ Quiet /\ sessionId # NoSessionId =>
        /\ sessionActive => ServerActive
        /\ ~sessionActive /\ NoStopLost => ~ServerActive

\* The backend holds a session for connected only while one of its goroutines
\* still serves a connection; as long as connections were orderly, the active
\* session of a client that uses a connection on which nothing is on the way is
\* held for connected, though an older connection of the session may have ended
\* just before.
ConnectedHonest ==
    /\ (\E s \in SessionIds : session[s].connected)
           => \E k \in Sockets : conn[k] = "reading"
    /\ orderly /\ Quiet /\ sessionActive => session[sessionId].connected

\* As long as connections were orderly, an utterance of an active session is
\* never refused, though it was queued while the client was offline or the backend has lost its memory since, unless
\* the App started the session again behind the utterance in the queue.
UtterancesAccepted ==
    orderly => \A n \in promised \intersect refused : StartedBehind(n)

\* A session that is active at the client becomes active at the backend, or the
\* user stops it, also after each restart of the backend, unless two connections
\* overlap there.
SessionReachesServer ==
    orderly /\ sessionActive ~> ServerActive \/ ~sessionActive \/ ~orderly

-----------------------------------------------------------------------------
(* What the documents say and the code does not do *)

\* "After a reconnection the session can be continued": what was said in an
\* active session is accepted.
SessionContinued == orderly => promised \intersect refused = {}

\* What an earlier connection still delivers does not disturb the session: a
\* late STOP_SESSION ends the session that was started again since.
LateEventsHarmless == Quiet /\ sessionActive => ServerActive

\* "The user can stop": a session that was stopped is not active at the backend.
\* A STOP_SESSION sent on a dying socket is lost and never sent again.
StopReachesServer ==
    orderly /\ Quiet /\ sessionId # NoSessionId /\ ~sessionActive => ~ServerActive

=============================================================================
