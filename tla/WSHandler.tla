------------------------------- MODULE WSHandler -------------------------------
(***************************************************************************)
(* The WebSocket connections of the backend, composed with the sessions    *)
(* they share (backend/internal/server/ws_handler.go).                     *)
(*                                                                         *)
(* Each connection c has one handler goroutine (WSHandler.ServeHTTP): it   *)
(* greets the client, then reads a frame, settles the audio chunk whose    *)
(* binary frame is still pending, calls SessionManager.Handle and writes   *)
(* the events it returned one by one before it reads again.  Beside it run *)
(* the callbacks of the 200 ms timers that give a pending chunk up; the    *)
(* two share the struct "pending" under its own mutex, and every critical  *)
(* section of that mutex is a step of its own here.                        *)
(*                                                                         *)
(* Frames are read in any order the clients may send them, and a read      *)
(* fails whenever the client or the network goes away.  A write whose      *)
(* error the code ignores is a write.                                      *)
(***************************************************************************)
EXTENDS SessionManager, FiniteSets

CONSTANTS
    LocalCallers,   \* connections whose remote IP the boundary policy allows
    Requests,       \* the types of the text frames clients send
    MaxFrames       \* bound: frames read on one connection

ASSUME LocalAssumption == LocalCallers \subseteq Callers
ASSUME MaxFramesAssumption == MaxFrames \in Nat

VARIABLES
    pc,             \* where each connection's goroutine is
    frame,          \* the text frame in hand (clientEvent)
    lastSession,    \* lastSessionID
    pending,        \* the audio chunk waiting for its binary frame
    armed,          \* token of the timer in pending.timer that still runs, or 0
    fired,          \* callbacks that started and wait for pending.mu
    wire,           \* the last event written to the client
    sent            \* what the client put on the connection so far

chunkVars == <<pending, armed, fired>>
vars == <<known, session, result, pc, frame, lastSession,
          pending, armed, fired, wire, sent>>

RequestTypes == {"START_SESSION", "STOP_SESSION", "USER_SPEECH_START",
                 "USER_SPEECH_END", "TEXT_INPUT", "CANCEL_RESPONSE", "AUDIO_CHUNK",
                 "PING", "OTHER", "MALFORMED"}

\* What a client can send: the fields a request does not use are empty.  Of the
\* requests that lack a session id, an AUDIO_CHUNK starts a pending chunk before
\* it is refused; the others are alike, and "OTHER" stands for them.
Frames ==
    LET text(ty) == IF ty = "TEXT_INPUT" THEN Texts \union {NoText} ELSE {NoText}
        gen(ty) == IF ty = "CANCEL_RESPONSE" THEN Generations ELSE {NoGen}
        ids(ty) == IF ty \in {"AUDIO_CHUNK", "OTHER"} THEN Sessions \union {NoSession}
                   ELSE Sessions
    IN  UNION {[type : {ty}, session : ids(ty), text : text(ty), gen : gen(ty)] :
                   ty \in Requests}

NoFrame == [type |-> "BINARY", session |-> NoSession, text |-> NoText, gen |-> NoGen]
NoChunk == [token |-> 0, sequence |-> 0, active |-> FALSE]
Greeting(type) == [type |-> type, session |-> NoSession, gen |-> NoGen]

Init ==
    /\ SMInit
    /\ pc = [c \in Callers |-> "connecting"]
    /\ frame = [c \in Callers |-> NoFrame]
    /\ lastSession = [c \in Callers |-> NoSession]
    /\ pending = [c \in Callers |-> NoChunk]
    /\ armed = [c \in Callers |-> 0]
    /\ fired = [c \in Callers |-> {}]
    /\ wire = [c \in Callers |-> Greeting("NONE")]
    /\ sent = [c \in Callers |-> [frames |-> 0, chunks |-> 0]]

-----------------------------------------------------------------------------
(* Opening the connection *)

Goto(c, label) == pc' = [pc EXCEPT ![c] = label]

\* policy.AllowsIP, then AcceptWS, which may fail.
Accept(c) ==
    /\ pc[c] = "connecting"
    /\ IF c \in LocalCallers THEN Goto(c, "boundary") \/ Goto(c, "closed")
                             ELSE Goto(c, "closed")
    /\ UNCHANGED <<smVars, frame, lastSession, chunkVars, wire, sent>>

WriteBoundaryStatus(c) ==
    /\ pc[c] = "boundary"
    /\ wire' = [wire EXCEPT ![c] = Greeting("BOUNDARY_STATUS")]
    /\ Goto(c, "config")
    /\ UNCHANGED <<smVars, frame, lastSession, chunkVars, sent>>

WriteConfig(c) ==
    /\ pc[c] = "config"
    /\ wire' = [wire EXCEPT ![c] = Greeting("CONFIG")]
    /\ Goto(c, "read")
    /\ UNCHANGED <<smVars, frame, lastSession, chunkVars, sent>>

-----------------------------------------------------------------------------
(* The read loop *)

\* The client sends one more frame and the loop reads it.
Receive(c) ==
    /\ pc[c] = "read"
    /\ sent[c].frames < MaxFrames

\* conn.Read fails: the session this connection spoke of last is marked.
ReadError(c) ==
    /\ pc[c] = "read"
    /\ Goto(c, "closed")
    /\ \/ lastSession[c] \in known /\ MarkDisconnected(lastSession[c])
       \/ lastSession[c] \notin known /\ UNCHANGED smVars
    /\ UNCHANGED <<frame, lastSession, chunkVars, wire, sent>>

\* A binary frame, announced or not: it settles the pending chunk, or is ignored.
ReadBinary(c) ==
    /\ Receive(c)
    /\ sent' = [sent EXCEPT ![c].frames = @ + 1]
    /\ frame' = [frame EXCEPT ![c] = NoFrame]
    /\ Goto(c, IF pending[c].active THEN "clear" ELSE "read")
    /\ UNCHANGED <<smVars, lastSession, chunkVars, wire>>

\* parseClientEvent fails: the loop ends, and so does the connection.
ReadMalformed(c) ==
    /\ Receive(c)
    /\ "MALFORMED" \in Requests
    /\ sent' = [sent EXCEPT ![c].frames = @ + 1]
    /\ Goto(c, "closed")
    /\ UNCHANGED <<smVars, frame, lastSession, chunkVars, wire>>

\* A text frame; hasPending is read here, under a lock that is then released.
ReadText(c, f) ==
    /\ Receive(c)
    /\ f.type # "MALFORMED"
    /\ frame' = [frame EXCEPT ![c] = f]
    /\ LET chunk == f.type = "AUDIO_CHUNK"
       IN  sent' = [sent EXCEPT ![c] =
               [frames |-> @.frames + 1,
                chunks |-> IF chunk THEN @.chunks + 1 ELSE @.chunks]]
    /\ lastSession' = [lastSession EXCEPT ![c] =
           IF f.session = NoSession THEN @ ELSE f.session]
    /\ Goto(c, IF pending[c].active THEN "clear"
               ELSE IF f.type = "AUDIO_CHUNK" THEN "start" ELSE "handle")
    /\ UNCHANGED <<smVars, chunkVars, wire>>

\* Where the loop goes on when no chunk is pending any more.
AfterClear(c) == IF frame[c] = NoFrame THEN "read"
                 ELSE IF frame[c].type = "AUDIO_CHUNK" THEN "start" ELSE "handle"

\* Mutant of ClearPending: the timer is stopped, the chunk stays.
ClearLeavesChunk(c) ==
    /\ pc[c] = "clear"
    /\ armed' = [armed EXCEPT ![c] = 0]
    /\ Goto(c, AfterClear(c))
    /\ UNCHANGED <<smVars, frame, lastSession, pending, fired, wire, sent>>

\* clearPending.  The chunk may have been given up since hasPending saw it.
ClearPending(c) ==
    /\ pc[c] = "clear"
    /\ \/ /\ pending[c].active
          /\ pending' = [pending EXCEPT ![c].active = FALSE]
          /\ armed' = [armed EXCEPT ![c] = 0]
       \/ ~pending[c].active /\ UNCHANGED <<pending, armed>>
    /\ Goto(c, AfterClear(c))
    /\ UNCHANGED <<smVars, frame, lastSession, fired, wire, sent>>

\* Mutant of StartPending: the old timer is stopped, no new one is started.
StartWithoutTimer(c) ==
    /\ pc[c] = "start"
    /\ pending' = [pending EXCEPT ![c] =
           [token |-> @.token + 1, sequence |-> sent[c].chunks, active |-> TRUE]]
    /\ armed' = [armed EXCEPT ![c] = 0]
    /\ Goto(c, "handle")
    /\ UNCHANGED <<smVars, frame, lastSession, fired, wire, sent>>

\* startPending: a new token, and a new timer in place of the old one.
StartPending(c) ==
    /\ pc[c] = "start"
    /\ pending' = [pending EXCEPT ![c] =
           [token |-> @.token + 1, sequence |-> sent[c].chunks, active |-> TRUE]]
    /\ armed' = [armed EXCEPT ![c] = pending[c].token + 1]
    /\ Goto(c, "handle")
    /\ UNCHANGED <<smVars, frame, lastSession, fired, wire, sent>>

-----------------------------------------------------------------------------
(* The timer of the pending chunk *)

\* 200 ms passed: the callback starts.  timer.Stop cannot take it back.  The
\* sequence the timer was armed for is remembered to state the properties.
TimerFires(c) ==
    /\ armed[c] # 0
    /\ armed' = [armed EXCEPT ![c] = 0]
    /\ fired' = [fired EXCEPT ![c] =
           @ \union {[token |-> armed[c], sequence |-> pending[c].sequence]}]
    /\ UNCHANGED <<smVars, pc, frame, lastSession, pending, wire, sent>>

\* Mutant of GiveUp: whatever chunk is pending is given up.
GiveUpAny(c, t) ==
    /\ t \in fired[c]
    /\ fired' = [fired EXCEPT ![c] = @ \ {t}]
    /\ pending' = [pending EXCEPT ![c].active = FALSE]
    /\ UNCHANGED <<smVars, pc, frame, lastSession, armed, wire, sent>>

\* The callback gets the mutex: only the chunk of its own token is given up.
GiveUp(c, t) ==
    /\ t \in fired[c]
    /\ fired' = [fired EXCEPT ![c] = @ \ {t}]
    /\ \/ /\ pending[c].token = t.token /\ pending[c].active
          /\ pending' = [pending EXCEPT ![c].active = FALSE]
       \/ /\ pending[c].token # t.token \/ ~pending[c].active
          /\ UNCHANGED pending
    /\ UNCHANGED <<smVars, pc, frame, lastSession, armed, wire, sent>>

-----------------------------------------------------------------------------
(* Handle and the events it returns *)

Call(c, f) ==
    \/ f.session = NoSession /\ MissingSessionId(c)
    \/ /\ f.session # NoSession
       /\ \/ f.type = "START_SESSION" /\ StartSession(c, f.session)
          \/ f.type = "STOP_SESSION" /\ StopSession(c, f.session)
          \/ f.type = "USER_SPEECH_START" /\ UserSpeechStart(c, f.session)
          \/ f.type = "USER_SPEECH_END" /\ UserSpeechEnd(c, f.session)
          \/ f.type = "TEXT_INPUT" /\ TextInput(c, f.session, f.text)
          \/ f.type = "CANCEL_RESPONSE" /\ CancelResponse(c, f.session, f.gen)
          \/ f.type = "AUDIO_CHUNK" /\ AudioChunk(c, f.session)
          \/ f.type = "PING" /\ Ping(c, f.session)
          \/ f.type = "OTHER" /\ Unsupported(c, f.session)

\* sessions.Handle(clientEvent): one step, under the mutex of the sessions.
Dispatch(c) ==
    /\ pc[c] = "handle"
    /\ Call(c, frame[c])
    /\ Goto(c, IF result'[c] = <<>> THEN "read" ELSE "write")
    /\ UNCHANGED <<frame, lastSession, chunkVars, wire, sent>>

\* Mutant of WriteEvent: the loop reads on after the first event.
WriteFirst(c) ==
    /\ pc[c] = "write"
    /\ wire' = [wire EXCEPT ![c] = Head(result[c])]
    /\ Return(c, Tail(result[c]))
    /\ Goto(c, "read")
    /\ UNCHANGED <<known, session, frame, lastSession, chunkVars, sent>>

\* Write the next event, long after the mutex of the sessions was released.
WriteEvent(c) ==
    /\ pc[c] = "write"
    /\ wire' = [wire EXCEPT ![c] = Head(result[c])]
    /\ Return(c, Tail(result[c]))
    /\ Goto(c, IF Len(result[c]) = 1 THEN "read" ELSE "write")
    /\ UNCHANGED <<known, session, frame, lastSession, chunkVars, sent>>

Handler(c) ==
    \/ Accept(c) \/ WriteBoundaryStatus(c) \/ WriteConfig(c)
    \/ ReadError(c) \/ ReadBinary(c) \/ ReadMalformed(c)
    \/ \E f \in Frames : ReadText(c, f)
    \/ ClearPending(c) \/ StartPending(c) \/ Dispatch(c) \/ WriteEvent(c)

Timer(c) == TimerFires(c) \/ \E t \in fired[c] : GiveUp(c, t)

Next == \E c \in Callers : Handler(c) \/ Timer(c)

Spec == Init /\ [][Next]_vars

-----------------------------------------------------------------------------
(* Properties *)

\* A chunk that waits for its binary frame is always going to be given up:
\* the timer of its own token is running, or has fired and waits for the lock.
PendingHasTimer ==
    \A c \in Callers : pending[c].active =>
        \/ armed[c] = pending[c].token
        \/ \E t \in fired[c] : t.token = pending[c].token

\* Metadata and binary frame are paired one to one: while any other request is
\* handled no chunk is pending, and the pending one is the newest announced.
PendingChunkIsNewest ==
    \A c \in Callers : pending[c].active =>
        /\ pc[c] \notin {"clear", "start"} => pending[c].sequence = sent[c].chunks
        /\ pc[c] \in {"handle", "write"} => frame[c].type = "AUDIO_CHUNK"

\* A timer that fired for one chunk never gives up a later chunk, although the
\* later one may have been announced while the callback waited for the lock.
TimeoutGivesUpOwnChunk ==
    [][\A c \in Callers : \A t \in fired[c] \ fired'[c] :
           pending[c].active /\ ~pending'[c].active =>
               pending[c].sequence = t.sequence]_vars

\* A reply reaches its connection whole: after ASSISTANT_SPEAKING, nothing else
\* is written there until its AUDIO_READY, METRICS_UPDATE and ASSISTANT_STOPPED.
RepliesWrittenWhole ==
    \A c \in Callers :
        wire[c].type \in {"ASSISTANT_SPEAKING", "AUDIO_READY", "METRICS_UPDATE"} =>
            /\ pc[c] = "write"
            /\ Head(result[c]).gen = wire[c].gen
            /\ Len(result[c]) = CASE wire[c].type = "ASSISTANT_SPEAKING" -> 3
                                  [] wire[c].type = "AUDIO_READY" -> 2
                                  [] OTHER -> 1

-----------------------------------------------------------------------------
(* What the documents say and the code does not do *)

\* "The newest generationId is kept as activeGenerationId, and the audio of
\* older replies is not sent": the loop does not look at it again.
OldAudioNotSent ==
    [][\A c \in Callers :
           wire'[c] # wire[c] /\ wire'[c].type = "AUDIO_READY" =>
               wire'[c].gen = session[wire'[c].session].activeGen]_vars

\* "MarkDisconnected reflects the disconnection in the session": a session all
\* of whose connections are gone is not connected.
ClosedMeansDisconnected ==
    \A s \in Sessions : session[s].connected =>
        \E c \in Callers : pc[c] # "closed" /\ lastSession[c] = s

\* The same, the other way: a session that was started over a connection which
\* is still open, and not used over another open one, counts as connected.
LiveMeansConnected ==
    \A c \in Callers : \A s \in Sessions :
        /\ pc[c] = "read"
        /\ frame[c] # NoFrame /\ frame[c].type = "START_SESSION"
        /\ frame[c].session = s
        => session[s].connected

=============================================================================
