---------------------------- MODULE WSHandler_proofs ----------------------------
(***************************************************************************)
(* Proofs about WSHandler for any connections, requests and bounds: the    *)
(* pending audio chunk and its timers, the replies on the wire, and what   *)
(* SessionManager_proofs shows of the sessions, now that the events a call *)
(* returned are written one by one while other connections go on.          *)
(***************************************************************************)
EXTENDS WSHandler, SessionManager_proofs

PCs == {"connecting", "boundary", "config", "read", "clear", "start", "handle",
        "write", "closed"}

Chunks == [token : Nat, sequence : Nat, active : BOOLEAN]
Counts == [frames : Nat, chunks : Nat]
Callbacks == [token : Nat, sequence : Nat]

\* The types of what one connection keeps about its audio chunks.
ChunkTypeOK ==
    /\ pc \in [Callers -> PCs]
    /\ frame \in [Callers -> Frames \union {NoFrame}]
    /\ pending \in [Callers -> Chunks]
    /\ armed \in [Callers -> Nat]
    /\ fired \in [Callers -> SUBSET Callbacks]
    /\ sent \in [Callers -> Counts]

\* What makes the properties of the pending chunk inductive.  A token names one
\* chunk: the running timer is the pending chunk's, and a callback that still
\* waits is that of an older chunk unless it remembers the pending sequence, in
\* which case no other timer runs.
TokensNameChunks ==
    \A c \in Callers :
        /\ armed[c] # 0 => pending[c].active /\ armed[c] = pending[c].token
        /\ \A t \in fired[c] :
               /\ t.token <= pending[c].token
               /\ t.token = pending[c].token =>
                      armed[c] = 0 /\ t.sequence = pending[c].sequence

\* Where the goroutine is about to start a chunk no chunk is pending.
StartsClear ==
    \A c \in Callers :
        pc[c] = "start" => ~pending[c].active /\ frame[c].type = "AUDIO_CHUNK"

ChunkInv ==
    /\ ChunkTypeOK
    /\ TokensNameChunks
    /\ StartsClear
    /\ PendingHasTimer
    /\ PendingChunkIsNewest

LEMMA ChunkInvInit == Init => ChunkInv
<1> SUFFICES ASSUME Init PROVE ChunkInv
  OBVIOUS
<1>1. \A c \in Callers :
          pc[c] = "connecting" /\ pending[c] = NoChunk /\ armed[c] = 0 /\ fired[c] = {}
  BY DEF Init
<1>2. ChunkTypeOK
  BY DEF Init, ChunkTypeOK, PCs, NoChunk, Chunks, Counts
<1>3. QED
  BY <1>1, <1>2
     DEF ChunkInv, TokensNameChunks, StartsClear, PendingHasTimer,
         PendingChunkIsNewest, NoChunk

\* A chunk that is given up or settled keeps its token and its sequence.
LEMMA Deactivated ==
    ASSUME pending \in [Callers -> Chunks], NEW c \in Callers,
           pending' = [pending EXCEPT ![c].active = FALSE]
    PROVE  /\ pending' \in [Callers -> Chunks]
           /\ pending'[c].token = pending[c].token
           /\ pending'[c].sequence = pending[c].sequence
           /\ ~pending'[c].active
           /\ \A d \in Callers : d # c => pending'[d] = pending[d]
<1> DEFINE r == [pending[c] EXCEPT !.active = FALSE]
<1>1. pending[c] \in Chunks
  OBVIOUS
<1>2. /\ r \in Chunks /\ ~r.active
      /\ r.token = pending[c].token /\ r.sequence = pending[c].sequence
  BY <1>1 DEF Chunks
<1>3. pending' = [pending EXCEPT ![c] = r]
  OBVIOUS
<1> HIDE DEF r
<1>4. QED
  BY <1>2, <1>3

\* A frame other than an audio chunk adds to the frames of its connection only.
LEMMA Counted ==
    ASSUME NEW n \in Counts
    PROVE  /\ [n EXCEPT !.frames = n.frames + 1] \in Counts
           /\ [n EXCEPT !.frames = n.frames + 1].chunks = n.chunks
<1>1. n.frames + 1 \in Nat
  BY DEF Counts
<1>2. QED
  BY <1>1 DEF Counts

\* Every step changes what is kept about the chunks of one connection only.
LEMMA ChunkInvStep == ChunkInv /\ [Next]_vars => ChunkInv'
<1> SUFFICES ASSUME ChunkInv, [Next]_vars PROVE ChunkInv'
  OBVIOUS
<1> USE DEF ChunkInv, ChunkTypeOK, TokensNameChunks, StartsClear, PendingHasTimer,
            PendingChunkIsNewest, PCs, Goto, chunkVars
<1>1. ASSUME NEW c \in Callers,
             Accept(c) \/ WriteBoundaryStatus(c) \/ WriteConfig(c)
      PROVE  ChunkInv'
  <2>1. UNCHANGED <<frame, pending, armed, fired, sent>>
    BY <1>1 DEF Accept, WriteBoundaryStatus, WriteConfig
  <2>2. PICK label \in {"boundary", "closed", "config", "read"} :
            pc' = [pc EXCEPT ![c] = label]
    BY <1>1 DEF Accept, WriteBoundaryStatus, WriteConfig
  <2>3. pc[c] \notin {"clear", "start"}
    BY <1>1 DEF Accept, WriteBoundaryStatus, WriteConfig
  <2>4. QED
    BY <2>1, <2>2, <2>3
<1>2. ASSUME NEW c \in Callers, ReadError(c) PROVE ChunkInv'
  BY <1>2 DEF ReadError
<1>3. ASSUME NEW c \in Callers, ReadBinary(c) PROVE ChunkInv'
  <2>1. /\ pc[c] = "read" /\ frame' = [frame EXCEPT ![c] = NoFrame]
        /\ UNCHANGED <<pending, armed, fired>>
    BY <1>3 DEF ReadBinary, Receive
  <2>2. PICK label \in {"clear", "read"} : pc' = [pc EXCEPT ![c] = label]
    BY <1>3 DEF ReadBinary
  <2>3. PICK r \in Counts : sent' = [sent EXCEPT ![c] = r] /\ r.chunks = sent[c].chunks
    <3> DEFINE r == [sent[c] EXCEPT !.frames = sent[c].frames + 1]
    <3>1. sent' = [sent EXCEPT ![c] = r]
      BY <1>3 DEF ReadBinary
    <3>2. r \in Counts /\ r.chunks = sent[c].chunks
      BY Counted
    <3> HIDE DEF r
    <3>3. QED
      BY <3>1, <3>2
  <2>4. \A d \in Callers : sent'[d].chunks = sent[d].chunks
    BY <2>3
  <2>5. ChunkTypeOK'
    BY <2>1, <2>2, <2>3
  <2>6. QED
    BY <2>1, <2>2, <2>4, <2>5
<1>4. ASSUME NEW c \in Callers, ReadMalformed(c) PROVE ChunkInv'
  <2>1. /\ pc[c] = "read" /\ pc' = [pc EXCEPT ![c] = "closed"]
        /\ UNCHANGED <<frame, pending, armed, fired>>
    BY <1>4 DEF ReadMalformed, Receive
  <2>2. PICK r \in Counts : sent' = [sent EXCEPT ![c] = r] /\ r.chunks = sent[c].chunks
    BY <1>4, Counted DEF ReadMalformed
  <2>3. \A d \in Callers : sent'[d].chunks = sent[d].chunks
    BY <2>2
  <2>4. ChunkTypeOK'
    BY <2>1, <2>2
  <2>5. QED
    BY <2>1, <2>3, <2>4
<1>5. ASSUME NEW c \in Callers, NEW f \in Frames, ReadText(c, f) PROVE ChunkInv'
  <2>1. /\ pc[c] = "read" /\ frame' = [frame EXCEPT ![c] = f]
        /\ UNCHANGED <<pending, armed, fired>>
    BY <1>5 DEF ReadText, Receive
  <2>2. pc' = [pc EXCEPT ![c] =
            IF pending[c].active THEN "clear"
            ELSE IF f.type = "AUDIO_CHUNK" THEN "start" ELSE "handle"]
    BY <1>5 DEF ReadText
  <2>3. PICK r \in Counts : sent' = [sent EXCEPT ![c] = r]
    <3> DEFINE chunks == IF f.type = "AUDIO_CHUNK" THEN sent[c].chunks + 1
                                                   ELSE sent[c].chunks
               r == [frames |-> sent[c].frames + 1, chunks |-> chunks]
    <3>1. sent' = [sent EXCEPT ![c] = r]
      BY <1>5, Zenon DEF ReadText
    <3>2. sent[c].frames + 1 \in Nat /\ chunks \in Nat
      BY DEF Counts
    <3> HIDE DEF chunks
    <3>3. r \in Counts
      BY <3>2 DEF Counts
    <3> HIDE DEF r
    <3>4. QED
      BY <3>1, <3>3
  <2>4. ChunkTypeOK'
    BY <2>1, <2>2, <2>3
  <2>5. PendingChunkIsNewest'
    BY <2>1, <2>2, <2>3
  <2>6. QED
    BY <2>1, <2>2, <2>4, <2>5
<1>6. ASSUME NEW c \in Callers, ClearPending(c) PROVE ChunkInv'
  <2>1. /\ pc[c] = "clear"
        /\ pc' = [pc EXCEPT ![c] = AfterClear(c)]
        /\ AfterClear(c) \in {"read", "start", "handle"}
        /\ AfterClear(c) = "start" => frame[c].type = "AUDIO_CHUNK"
        /\ UNCHANGED <<frame, fired, sent>>
    BY <1>6 DEF ClearPending, AfterClear
  <2>2. CASE pending[c].active
    <3>1. /\ pending' = [pending EXCEPT ![c].active = FALSE]
          /\ armed' = [armed EXCEPT ![c] = 0]
      BY <1>6, <2>2 DEF ClearPending
    <3>2. /\ pending' \in [Callers -> Chunks]
          /\ pending'[c].token = pending[c].token
          /\ ~pending'[c].active
          /\ \A d \in Callers : d # c => pending'[d] = pending[d]
      BY <3>1, Deactivated
    <3>3. QED
      BY <2>1, <3>1, <3>2
  <2>3. CASE ~pending[c].active
    <3>1. UNCHANGED <<pending, armed>>
      BY <1>6, <2>3 DEF ClearPending
    <3>2. QED
      BY <2>1, <2>3, <3>1
  <2>4. QED
    BY <2>2, <2>3
<1>7. ASSUME NEW c \in Callers, StartPending(c) PROVE ChunkInv'
  BY <1>7 DEF StartPending, Chunks, Counts, Callbacks
<1>8. ASSUME NEW c \in Callers, Dispatch(c) PROVE ChunkInv'
  BY <1>8 DEF Dispatch
<1>9. ASSUME NEW c \in Callers, WriteEvent(c) PROVE ChunkInv'
  BY <1>9 DEF WriteEvent
<1>10. ASSUME NEW c \in Callers, TimerFires(c) PROVE ChunkInv'
  <2> DEFINE t == [token |-> armed[c], sequence |-> pending[c].sequence]
  <2>1. /\ armed[c] # 0 /\ armed' = [armed EXCEPT ![c] = 0]
        /\ fired' = [fired EXCEPT ![c] = @ \union {t}]
        /\ UNCHANGED <<pc, frame, pending, sent>>
    BY <1>10 DEF TimerFires
  <2>2. t \in Callbacks /\ t.token = pending[c].token
    BY <1>10 DEF TimerFires, Callbacks, Chunks
  <2>3. fired'[c] = fired[c] \union {t} /\ \A d \in Callers : d # c => fired'[d] = fired[d]
    BY <2>1
  <2>4. ChunkTypeOK'
    BY <2>1, <2>2
  <2>5. TokensNameChunks'
    BY <2>1, <2>2, <2>3
  <2>6. PendingHasTimer'
    <3> SUFFICES ASSUME NEW d \in Callers, pending'[d].active
                 PROVE  \/ armed'[d] = pending'[d].token
                        \/ \E u \in fired'[d] : u.token = pending'[d].token
      OBVIOUS
    <3>1. CASE d = c
      BY <2>1, <2>2, <2>3, <3>1
    <3>2. CASE d # c
      BY <2>1, <2>3, <3>2
    <3>3. QED
      BY <3>1, <3>2
  <2>7. QED
    BY <2>1, <2>4, <2>5, <2>6
<1>11. ASSUME NEW c \in Callers, NEW t \in fired[c], GiveUp(c, t) PROVE ChunkInv'
  <2>1. /\ fired'[c] = fired[c] \ {t}
        /\ \A d \in Callers : d # c => fired'[d] = fired[d]
        /\ fired' \in [Callers -> SUBSET Callbacks]
        /\ UNCHANGED <<pc, frame, armed, sent>>
    BY <1>11 DEF GiveUp
  <2>2. CASE pending[c].token = t.token /\ pending[c].active
    <3>1. pending' = [pending EXCEPT ![c].active = FALSE]
      BY <1>11, <2>2 DEF GiveUp
    <3>2. armed[c] = 0
      BY <2>2
    <3>3. /\ pending' \in [Callers -> Chunks]
          /\ pending'[c].token = pending[c].token
          /\ pending'[c].sequence = pending[c].sequence
          /\ ~pending'[c].active
          /\ \A d \in Callers : d # c => pending'[d] = pending[d]
      BY <3>1, Deactivated
    <3>4. ChunkTypeOK'
      BY <2>1, <3>3
    <3>5. PendingHasTimer'
      BY <2>1, <3>3
    <3>6. TokensNameChunks'
      BY <2>1, <3>2, <3>3
    <3>7. QED
      BY <2>1, <3>3, <3>4, <3>5, <3>6
  <2>3. CASE pending[c].token # t.token \/ ~pending[c].active
    <3>1. UNCHANGED pending
      BY <1>11, <2>3 DEF GiveUp
    <3>2. PendingHasTimer'
      <4> SUFFICES ASSUME NEW d \in Callers, pending[d].active
                   PROVE  \/ armed[d] = pending[d].token
                          \/ \E u \in fired'[d] : u.token = pending[d].token
        BY <2>1, <3>1
      <4>1. CASE d = c
        BY <2>1, <2>3, <4>1
      <4>2. CASE d # c
        BY <2>1, <4>2
      <4>3. QED
        BY <4>1, <4>2
    <3>3. QED
      BY <2>1, <3>1, <3>2
  <2>4. QED
    BY <2>2, <2>3
<1>12. CASE UNCHANGED vars
  BY <1>12 DEF vars
<1>13. QED
  BY <1>1, <1>2, <1>3, <1>4, <1>5, <1>6, <1>7, <1>8, <1>9, <1>10, <1>11, <1>12
     DEF Next, Handler, Timer

\* For every connection, whatever its timers do.
THEOREM ChunkInvariant == Spec => []ChunkInv
BY ChunkInvInit, ChunkInvStep, PTL DEF Spec

\* No chunk that waits for its binary frame is ever left without a timer.
THEOREM ChunksTimeOut == Spec => []PendingHasTimer
<1>1. ChunkInv => PendingHasTimer
  BY DEF ChunkInv
<1>2. QED
  BY <1>1, ChunkInvariant, PTL

\* The chunk that waits is the newest one, and nothing but its own frame is
\* handled while it waits: metadata and binary frames are paired one to one.
THEOREM ChunksPairUp == Spec => []PendingChunkIsNewest
<1>1. ChunkInv => PendingChunkIsNewest
  BY DEF ChunkInv
<1>2. QED
  BY <1>1, ChunkInvariant, PTL

\* Only a callback leaves the fired ones, and what it gives up has its token.
LEMMA GivesUpOwn ==
    ASSUME ChunkInv, Next
    PROVE  \A c \in Callers : \A t \in fired[c] \ fired'[c] :
               pending[c].active /\ ~pending'[c].active =>
                   pending[c].sequence = t.sequence
<1>0. fired \in [Callers -> SUBSET Callbacks]
  BY DEF ChunkInv, ChunkTypeOK
<1>1. ASSUME NEW d \in Callers, Handler(d) PROVE UNCHANGED fired
  BY <1>1
     DEF Handler, Accept, WriteBoundaryStatus, WriteConfig, ReadError, ReadBinary,
         ReadMalformed, ReadText, ClearPending, StartPending, Dispatch, WriteEvent,
         chunkVars
<1>2. ASSUME NEW d \in Callers, TimerFires(d)
      PROVE  \A c \in Callers : fired[c] \subseteq fired'[c]
  BY <1>0, <1>2 DEF TimerFires
<1>3. ASSUME NEW d \in Callers, NEW u \in fired[d], GiveUp(d, u),
             NEW c \in Callers, NEW t \in fired[c] \ fired'[c],
             pending[c].active, ~pending'[c].active
      PROVE  pending[c].sequence = t.sequence
  <2>1. d = c /\ t = u
    BY <1>0, <1>3 DEF GiveUp
  <2>2. CASE pending[d].token = u.token
    BY <2>1, <2>2 DEF ChunkInv, TokensNameChunks
  <2>3. CASE pending[d].token # u.token
    BY <1>3, <2>1, <2>3 DEF GiveUp
  <2>4. QED
    BY <2>2, <2>3
<1>4. QED
  BY <1>1, <1>2, <1>3 DEF Next, Timer

\* A callback that was overtaken by a later chunk leaves that chunk alone.
THEOREM TimeoutIsOwn == Spec => TimeoutGivesUpOwnChunk
<1>1. ChunkInv /\ [Next]_vars =>
        [\A c \in Callers : \A t \in fired[c] \ fired'[c] :
            pending[c].active /\ ~pending'[c].active =>
                pending[c].sequence = t.sequence]_vars
  BY GivesUpOwn
<1>2. QED
  BY <1>1, ChunkInvariant, PTL DEF Spec, TimeoutGivesUpOwnChunk

-----------------------------------------------------------------------------
(* The replies on the wire *)

\* What is still to be written of the result of a call: nothing, one event that
\* belongs to no reply, or the rest of one reply.
ReplyTypes == <<"ASSISTANT_SPEAKING", "AUDIO_READY", "METRICS_UPDATE",
                "ASSISTANT_STOPPED">>
Whole(events) ==
    \/ events = <<>>
    \/ Len(events) = 1 /\ events[1].type \in {"PONG", "ERROR"}
    \/ /\ Len(events) \in 1..4
       /\ \A i \in 1..Len(events) :
              /\ events[i].type = ReplyTypes[4 - Len(events) + i]
              /\ events[i].gen = events[1].gen


\* What can have been written last.
Wired == ServerEvent \union {Greeting(type) : type \in {"NONE", "BOUNDARY_STATUS", "CONFIG"}}
\* What is written and what is still to be written belong together.
WriteInv ==
    /\ pc \in [Callers -> PCs]
    /\ wire \in [Callers -> Wired]
    /\ \A c \in Callers :
           /\ Whole(result[c])
           /\ pc[c] = "write" <=> result[c] # <<>>
    /\ RepliesWrittenWhole

\* The fields of a frame are what its call expects.
LEMMA FrameFields ==
    ASSUME NEW f \in Frames \union {NoFrame}
    PROVE  /\ f.session \in Sessions \union {NoSession}
           /\ f.text \in Texts \union {NoText}
           /\ f.gen \in Generations
<1>1. NoGen \in Generations
  BY MaxGenerationAssumption DEF NoGen, Generations
<1>2. CASE f = NoFrame
  BY <1>1, <1>2 DEF NoFrame
<1>3. CASE f \in Frames
  BY <1>1, <1>3 DEF Frames
<1>4. QED
  BY <1>2, <1>3

\* A frame in hand is one call of Handle.
LEMMA CallIsHandle ==
    ASSUME NEW c \in Callers, NEW f \in Frames \union {NoFrame}, Call(c, f)
    PROVE  MissingSessionId(c) \/ \E s \in Sessions : Handle(c, s)
<1>1. CASE f.session = NoSession /\ MissingSessionId(c)
  BY <1>1
<1>2. CASE f.session # NoSession
  <2>1. f.session \in Sessions
    BY <1>2, FrameFields
  <2>2. Handle(c, f.session)
    BY <1>2, FrameFields DEF Call, Handle
  <2>3. QED
    BY <2>1, <2>2
<1>3. QED
  BY <1>1, <1>2 DEF Call

\* What a call can return.
Returns(c) ==
    \/ Return(c, <<>>)
    \/ \E type \in {"PONG", "ERROR"}, s \in Sessions \union {NoSession} :
           Return(c, <<Event(type, s, NoGen)>>)
    \/ \E s \in Sessions, g \in Generations : Return(c, Reply(s, g))

LEMMA HandleReturns ==
    ASSUME NEW c \in Callers, NEW s \in Sessions, Handle(c, s),
           session \in [Sessions -> Session]
    PROVE  Returns(c)
<1>1. CASE Refuse(c, s)
  BY <1>1 DEF Refuse, Returns
<1>2. CASE Return(c, <<>>)
  BY <1>2 DEF Returns
<1>3. ASSUME NEW t, HandlePipeline(c, s, t) PROVE Returns(c)
  <2>1. session[s].nextGen \in Generations
    BY <1>3, MaxGenerationAssumption DEF HandlePipeline, Session, Generations
  <2>2. QED
    BY <1>3, <2>1 DEF HandlePipeline, Returns
<1>4. CASE Return(c, <<Event("PONG", s, NoGen)>>)
  BY <1>4 DEF Returns
<1>5. QED
  BY <1>1, <1>2, <1>3, <1>4
     DEF Handle, StartSession, StopSession, UserSpeechStart, UserSpeechEnd,
         TextInput, CancelResponse, AudioChunk, Ping, Unsupported

\* The four events of a reply are whole.
LEMMA ReplyWhole ==
    ASSUME NEW s \in Sessions, NEW g \in Generations
    PROVE  Whole(Reply(s, g))
<1>1. /\ Len(Reply(s, g)) = 4
      /\ Reply(s, g)[1] = Event("ASSISTANT_SPEAKING", s, g)
      /\ Reply(s, g)[2] = Event("AUDIO_READY", s, g)
      /\ Reply(s, g)[3] = Event("METRICS_UPDATE", s, g)
      /\ Reply(s, g)[4] = Event("ASSISTANT_STOPPED", s, g)
  BY DEF Reply
<1>2. \A i \in 1..4 : /\ Reply(s, g)[i].type = ReplyTypes[4 - 4 + i]
                      /\ Reply(s, g)[i].gen = Reply(s, g)[1].gen
  <2> SUFFICES ASSUME NEW i \in 1..4
               PROVE  /\ Reply(s, g)[i].type = ReplyTypes[4 - 4 + i]
                      /\ Reply(s, g)[i].gen = Reply(s, g)[1].gen
    OBVIOUS
  <2>1. i = 1 \/ i = 2 \/ i = 3 \/ i = 4
    OBVIOUS
  <2>2. 4 - 4 + i = i
    OBVIOUS
  <2>3. QED
    BY <1>1, <2>1, <2>2 DEF Event, ReplyTypes
<1>3. QED
  BY <1>1, <1>2 DEF Whole

\* What a call returns is whole, and no other caller notices.
LEMMA CallReturns ==
    ASSUME SMTypeOK, NEW c \in Callers, NEW f \in Frames \union {NoFrame}, Call(c, f)
    PROVE  /\ Whole(result'[c])
           /\ \A d \in Callers : d # c => result'[d] = result[d]
<1>1. Returns(c)
  <2>1. CASE MissingSessionId(c)
    BY <2>1 DEF MissingSessionId, Refuse, Returns
  <2>2. CASE \E s \in Sessions : Handle(c, s)
    BY <2>2, HandleReturns DEF SMTypeOK
  <2>3. QED
    BY <2>1, <2>2, CallIsHandle
<1>2. ASSUME NEW events, Return(c, events)
      PROVE  result'[c] = events /\ \A d \in Callers : d # c => result'[d] = result[d]
  BY <1>2 DEF Return, SMTypeOK
<1>3. Whole(<<>>)
  BY DEF Whole
<1>4. ASSUME NEW type \in {"PONG", "ERROR"}, NEW s
      PROVE  Whole(<<Event(type, s, NoGen)>>)
  BY DEF Whole, Event
<1>5. QED
  BY <1>1, <1>2, <1>3, <1>4, ReplyWhole DEF Returns

-----------------------------------------------------------------------------
(* The inductive invariant of the composition *)

HInv == IInv /\ ChunkInv /\ WriteInv

\* What a step does to the sessions: a step of theirs, nothing, or one event of
\* one connection is taken off its result and written.
Written(c) ==
    /\ pc[c] = "write"
    /\ UNCHANGED <<known, session>>
    /\ result' = [result EXCEPT ![c] = Tail(result[c])]

LEMMA SessionStep ==
    ASSUME HInv, [Next]_vars
    PROVE  [SMNext]_smVars \/ \E c \in Callers : Written(c)
<1>1. ASSUME NEW c \in Callers, Dispatch(c) PROVE SMNext
  <2>1. frame[c] \in Frames \union {NoFrame}
    BY DEF HInv, ChunkInv, ChunkTypeOK
  <2>2. QED
    BY <1>1, <2>1, CallIsHandle DEF Dispatch, SMNext
<1>2. ASSUME NEW c \in Callers, ReadError(c) PROVE [SMNext]_smVars
  <2>1. known \subseteq Sessions
    BY DEF HInv, IInv, SMTypeOK
  <2>2. QED
    BY <1>2, <2>1 DEF ReadError, SMNext
<1>3. ASSUME NEW c \in Callers, WriteEvent(c) PROVE Written(c)
  BY <1>3 DEF WriteEvent, Written, Return
<1>4. ASSUME NEW c \in Callers, Handler(c)
      PROVE  Dispatch(c) \/ ReadError(c) \/ WriteEvent(c) \/ UNCHANGED smVars
  BY <1>4
     DEF Handler, Accept, WriteBoundaryStatus, WriteConfig, ReadBinary,
         ReadMalformed, ReadText, ClearPending, StartPending
<1>5. ASSUME NEW c \in Callers, Timer(c) PROVE UNCHANGED smVars
  BY <1>5 DEF Timer, TimerFires, GiveUp
<1>6. CASE UNCHANGED vars
  BY <1>6 DEF vars, smVars
<1>7. QED
  BY <1>1, <1>2, <1>3, <1>4, <1>5, <1>6 DEF Next

\* Taking an event off a result keeps what is known of the sessions.
LEMMA WrittenPreserves ==
    ASSUME HInv, NEW c \in Callers, Written(c)
    PROVE  IInv'
<1>1. result[c] \in Seq(ServerEvent) /\ result[c] # <<>>
  BY DEF HInv, IInv, SMTypeOK, WriteInv, Written
<1>2. /\ result'[c] = Tail(result[c])
      /\ \A d \in Callers : d # c => result'[d] = result[d]
      /\ result' \in [Callers -> Seq(ServerEvent)]
  BY <1>1 DEF HInv, IInv, SMTypeOK, Written
<1>3. \A i \in DOMAIN result'[c] :
          i + 1 \in DOMAIN result[c] /\ result'[c][i] = result[c][i + 1]
  BY <1>1, <1>2
<1>4. SMTypeOK'
  BY <1>2 DEF HInv, IInv, SMTypeOK, Written
<1>5. \A s \in Sessions : RecordOK(session'[s])
  BY DEF HInv, IInv, Written
<1>6. RepliesIssued'
  <2> SUFFICES ASSUME NEW d \in Callers, NEW i \in DOMAIN result'[d],
                      result'[d][i].gen # NoGen
               PROVE  /\ result'[d][i].session \in Sessions
                      /\ result'[d][i].gen < session[result'[d][i].session].nextGen
    BY DEF RepliesIssued, Written
  <2>1. PICK j \in DOMAIN result[d] : result'[d][i] = result[d][j]
    BY <1>2, <1>3
  <2>2. QED
    BY <2>1 DEF HInv, IInv, RepliesIssued
<1>7. RepliesHaveOwnGeneration'
  <2> SUFFICES ASSUME NEW d \in Callers, NEW e \in Callers,
                      NEW i \in DOMAIN result'[d], NEW j \in DOMAIN result'[e],
                      d # e, result'[d][i].session = result'[e][j].session,
                      result'[d][i].gen # NoGen
               PROVE  result'[d][i].gen # result'[e][j].gen
    BY DEF RepliesHaveOwnGeneration
  <2>1. /\ \E k \in DOMAIN result[d] : result'[d][i] = result[d][k]
        /\ \E k \in DOMAIN result[e] : result'[e][j] = result[e][k]
    BY <1>2, <1>3
  <2>2. QED
    BY <2>1 DEF HInv, IInv, RepliesHaveOwnGeneration
<1>8. QED
  BY <1>4, <1>5, <1>6, <1>7 DEF IInv

LEMMA HeadIsFirst ==
    ASSUME NEW S, NEW s \in Seq(S), Len(s) >= 1
    PROVE  s # <<>> /\ Head(s) = s[1]
<1>1. s # <<>>
  BY EmptySeq
<1>2. QED
  BY <1>1

\* The first event of a whole result, and what is left behind it.
LEMMA WholeTail ==
    ASSUME NEW r \in Seq(ServerEvent), Whole(r), r # <<>>
    PROVE  /\ Whole(Tail(r))
           /\ Tail(r) = <<>> <=> Len(r) = 1
           /\ Head(r) = r[1] /\ Head(r) \in ServerEvent
           /\ r[1].type \in {"ASSISTANT_SPEAKING", "AUDIO_READY", "METRICS_UPDATE"} =>
                  /\ Tail(r)[1].gen = r[1].gen
                  /\ Len(Tail(r)) = CASE r[1].type = "ASSISTANT_SPEAKING" -> 3
                                      [] r[1].type = "AUDIO_READY" -> 2
                                      [] OTHER -> 1
<1>1. /\ Len(r) \in Nat /\ Len(r) >= 1 /\ Len(Tail(r)) = Len(r) - 1
      /\ \A i \in 1..Len(Tail(r)) : Tail(r)[i] = r[i + 1]
      /\ Tail(r) = <<>> <=> Len(r) = 1
      /\ Head(r) = r[1] /\ Head(r) \in ServerEvent
  <2>1. /\ Len(r) \in Nat /\ Len(r) >= 1 /\ Head(r) = r[1]
        /\ Head(r) \in ServerEvent /\ Tail(r) \in Seq(ServerEvent)
    BY EmptySeq, HeadTailProperties, LenProperties
  <2>2. /\ Len(Tail(r)) = Len(r) - 1
        /\ \A i \in 1..Len(Tail(r)) : Tail(r)[i] = r[i + 1]
    BY HeadTailProperties
  <2>3. Tail(r) = <<>> <=> Len(Tail(r)) = 0
    BY <2>1, EmptySeq
  <2>4. QED
    BY <2>1, <2>2, <2>3
<1>2. CASE Len(r) = 1 /\ r[1].type \in {"PONG", "ERROR"}
  BY <1>1, <1>2 DEF Whole
<1>3. CASE /\ Len(r) \in 1..4
           /\ \A i \in 1..Len(r) : /\ r[i].type = ReplyTypes[4 - Len(r) + i]
                                  /\ r[i].gen = r[1].gen
  <2> DEFINE n == Len(r)
  <2>1. r[1].type = ReplyTypes[4 - n + 1]
    BY <1>3
  <2>2. n = 4 \/ n = 3 \/ n = 2 \/ n = 1
    BY <1>3
  <2>3. n # 1 => /\ Len(Tail(r)) \in 1..4 /\ Tail(r)[1].gen = r[1].gen
                 /\ \A i \in 1..Len(Tail(r)) :
                        /\ Tail(r)[i].type = ReplyTypes[4 - Len(Tail(r)) + i]
                        /\ Tail(r)[i].gen = Tail(r)[1].gen
    <3> SUFFICES ASSUME n # 1
                 PROVE  /\ Len(Tail(r)) \in 1..4 /\ Tail(r)[1].gen = r[1].gen
                        /\ \A i \in 1..Len(Tail(r)) :
                               /\ Tail(r)[i].type = ReplyTypes[4 - Len(Tail(r)) + i]
                               /\ Tail(r)[i].gen = Tail(r)[1].gen
      OBVIOUS
    <3>1. Len(Tail(r)) \in 1..4
      BY <1>1, <2>2
    <3>2. Tail(r)[1] = r[2] /\ r[2].gen = r[1].gen
      BY <1>1, <1>3, <2>2
    <3>3. ASSUME NEW i \in 1..Len(Tail(r))
          PROVE  /\ Tail(r)[i].type = ReplyTypes[4 - Len(Tail(r)) + i]
                 /\ Tail(r)[i].gen = r[1].gen
      <4>1. Tail(r)[i] = r[i + 1] /\ i + 1 \in 1..n
        BY <1>1
      <4>2. 4 - n + (i + 1) = 4 - Len(Tail(r)) + i
        BY <1>1
      <4>3. QED
        BY <1>3, <4>1, <4>2
    <3>4. QED
      BY <3>1, <3>2, <3>3
  <2>4. Whole(Tail(r))
    BY <1>1, <2>3 DEF Whole
  <2>5. /\ ReplyTypes[1] = "ASSISTANT_SPEAKING" /\ ReplyTypes[2] = "AUDIO_READY"
        /\ ReplyTypes[3] = "METRICS_UPDATE" /\ ReplyTypes[4] = "ASSISTANT_STOPPED"
    BY DEF ReplyTypes
  <2>6. /\ n = 4 => r[1].type = "ASSISTANT_SPEAKING"
        /\ n = 3 => r[1].type = "AUDIO_READY"
        /\ n = 2 => r[1].type = "METRICS_UPDATE"
        /\ n = 1 => r[1].type = "ASSISTANT_STOPPED"
    <3>1. n = 4 => 4 - n + 1 = 1
      OBVIOUS
    <3>2. n = 3 => 4 - n + 1 = 2
      OBVIOUS
    <3>3. n = 2 => 4 - n + 1 = 3
      OBVIOUS
    <3>4. n = 1 => 4 - n + 1 = 4
      OBVIOUS
    <3>5. QED
      BY <2>1, <2>5, <3>1, <3>2, <3>3, <3>4
  <2>7. r[1].type \in {"ASSISTANT_SPEAKING", "AUDIO_READY", "METRICS_UPDATE"} =>
            Len(Tail(r)) = CASE r[1].type = "ASSISTANT_SPEAKING" -> 3
                             [] r[1].type = "AUDIO_READY" -> 2
                             [] OTHER -> 1
    <3>1. Len(Tail(r)) = n - 1
      BY <1>1
    <3>2. CASE n = 4
      BY <2>6, <3>1, <3>2
    <3>3. CASE n = 3
      BY <2>6, <3>1, <3>3
    <3>4. CASE n = 2
      BY <2>6, <3>1, <3>4
    <3>5. CASE n = 1
      BY <2>6, <3>5
    <3>6. QED
      BY <2>2, <3>2, <3>3, <3>4, <3>5
  <2>8. QED
    BY <1>1, <2>2, <2>3, <2>4, <2>6, <2>7
<1>4. QED
  BY <1>2, <1>3 DEF Whole

LEMMA WriteInvInit == Init => WriteInv
<1> SUFFICES ASSUME Init PROVE WriteInv
  OBVIOUS
<1>1. /\ \A c \in Callers : result[c] = <<>> /\ pc[c] = "connecting"
                           /\ wire[c] = Greeting("NONE")
      /\ pc \in [Callers -> PCs]
      /\ wire \in [Callers -> Wired]
  BY DEF Init, SMInit, PCs, Wired
<1>2. RepliesWrittenWhole
  BY <1>1 DEF RepliesWrittenWhole, Greeting
<1>3. QED
  BY <1>1, <1>2 DEF WriteInv, Whole

\* Steps that neither call nor write leave what is written as it is.
LEMMA NothingWritten ==
    ASSUME WriteInv, NEW c \in Callers, pc[c] # "write",
           NEW label \in PCs \ {"write"}, pc' = [pc EXCEPT ![c] = label],
           UNCHANGED <<result, wire>>
    PROVE  WriteInv'
BY DEF WriteInv, RepliesWrittenWhole

LEMMA WriteInvStep == HInv /\ [Next]_vars => WriteInv'
<1> SUFFICES ASSUME HInv, [Next]_vars PROVE WriteInv'
  OBVIOUS
<1>0. /\ WriteInv
      /\ pc \in [Callers -> PCs]
      /\ result \in [Callers -> Seq(ServerEvent)]
      /\ wire \in [Callers -> Wired]
  BY DEF HInv, WriteInv, IInv, SMTypeOK
<1>1. ASSUME NEW c \in Callers, Accept(c) PROVE WriteInv'
  BY <1>0, <1>1, NothingWritten DEF Accept, Goto, PCs, smVars
<1>2. ASSUME NEW c \in Callers, NEW type \in {"BOUNDARY_STATUS", "CONFIG"},
             NEW label \in {"config", "read"},
             pc[c] # "write", pc' = [pc EXCEPT ![c] = label],
             wire' = [wire EXCEPT ![c] = Greeting(type)], UNCHANGED result
      PROVE  WriteInv'
  <2>1. pc' \in [Callers -> PCs] /\ wire' \in [Callers -> Wired]
    BY <1>0, <1>2 DEF PCs, Wired
  <2>2. wire'[c].type \in {"BOUNDARY_STATUS", "CONFIG"}
    BY <1>0, <1>2 DEF Greeting
  <2>3. RepliesWrittenWhole'
    BY <1>0, <1>2, <2>2 DEF WriteInv, RepliesWrittenWhole
  <2>4. QED
    BY <1>0, <1>2, <2>1, <2>3 DEF WriteInv
<1>3. ASSUME NEW c \in Callers, WriteBoundaryStatus(c) \/ WriteConfig(c) PROVE WriteInv'
  BY <1>2, <1>3 DEF WriteBoundaryStatus, WriteConfig, Goto, smVars
<1>4. ASSUME NEW c \in Callers,
             ReadError(c) \/ ReadBinary(c) \/ ReadMalformed(c) \/ ClearPending(c)
                 \/ StartPending(c) \/ \E f \in Frames : ReadText(c, f)
      PROVE  WriteInv'
  <2>1. pc[c] # "write" /\ UNCHANGED <<result, wire>>
    BY <1>4
       DEF ReadError, ReadBinary, ReadMalformed, ReadText, Receive, ClearPending,
           StartPending, MarkDisconnected, smVars
  <2>2. \E label \in PCs \ {"write"} : pc' = [pc EXCEPT ![c] = label]
    BY <1>4
       DEF ReadError, ReadBinary, ReadMalformed, ReadText, ClearPending, AfterClear,
           StartPending, Goto, PCs
  <2>3. QED
    BY <1>0, <2>1, <2>2, NothingWritten
<1>5. ASSUME NEW c \in Callers, Dispatch(c) PROVE WriteInv'
  <2>1. /\ Whole(result'[c])
        /\ \A d \in Callers : d # c => result'[d] = result[d]
    <3>1. Call(c, frame[c]) /\ frame[c] \in Frames \union {NoFrame} /\ SMTypeOK
      BY <1>5 DEF Dispatch, HInv, ChunkInv, ChunkTypeOK, IInv
    <3>2. QED
      BY <3>1, CallReturns
  <2>2. /\ pc[c] = "handle" /\ UNCHANGED wire
        /\ pc' = [pc EXCEPT ![c] = IF result'[c] = <<>> THEN "read" ELSE "write"]
    BY <1>5 DEF Dispatch, Goto
  <2>3. wire[c].type \notin {"ASSISTANT_SPEAKING", "AUDIO_READY", "METRICS_UPDATE"}
    BY <1>0, <2>2 DEF WriteInv, RepliesWrittenWhole
  <2>4. RepliesWrittenWhole'
    BY <1>0, <2>1, <2>2, <2>3 DEF WriteInv, RepliesWrittenWhole
  <2>5. QED
    BY <1>0, <2>1, <2>2, <2>4 DEF WriteInv, PCs
<1>6. ASSUME NEW c \in Callers, WriteEvent(c) PROVE WriteInv'
  <2>1. /\ pc[c] = "write"
        /\ wire' = [wire EXCEPT ![c] = Head(result[c])]
        /\ result' = [result EXCEPT ![c] = Tail(result[c])]
        /\ pc' = [pc EXCEPT ![c] = IF Len(result[c]) = 1 THEN "read" ELSE "write"]
    BY <1>6 DEF WriteEvent, Return, Goto
  <2>2. result[c] \in Seq(ServerEvent) /\ Whole(result[c]) /\ result[c] # <<>>
    BY <1>0, <2>1 DEF WriteInv
  <2> DEFINE r == result[c]
  <2>3. /\ Whole(Tail(r))
        /\ Tail(r) = <<>> <=> Len(r) = 1
        /\ Head(r) = r[1] /\ Head(r) \in ServerEvent
        /\ r[1].type \in {"ASSISTANT_SPEAKING", "AUDIO_READY", "METRICS_UPDATE"} =>
               /\ Tail(r)[1].gen = r[1].gen
               /\ Len(Tail(r)) = CASE r[1].type = "ASSISTANT_SPEAKING" -> 3
                                   [] r[1].type = "AUDIO_READY" -> 2
                                   [] OTHER -> 1
    BY <2>2, WholeTail
  <2>4. /\ result'[c] = Tail(r) /\ wire'[c] = r[1]
        /\ pc'[c] = IF Len(r) = 1 THEN "read" ELSE "write"
        /\ \A d \in Callers : d # c => /\ result'[d] = result[d] /\ wire'[d] = wire[d]
                                      /\ pc'[d] = pc[d]
        /\ wire' \in [Callers -> Wired] /\ pc' \in [Callers -> PCs]
    BY <1>0, <2>1, <2>3 DEF Wired, PCs
  <2>5. RepliesWrittenWhole'
    <3> SUFFICES ASSUME NEW d \in Callers,
                        wire'[d].type \in {"ASSISTANT_SPEAKING", "AUDIO_READY",
                                           "METRICS_UPDATE"}
                 PROVE  /\ pc'[d] = "write"
                        /\ Head(result'[d]).gen = wire'[d].gen
                        /\ Len(result'[d]) =
                               CASE wire'[d].type = "ASSISTANT_SPEAKING" -> 3
                                 [] wire'[d].type = "AUDIO_READY" -> 2
                                 [] OTHER -> 1
      BY DEF RepliesWrittenWhole
    <3>1. CASE d # c
      BY <1>0, <2>4, <3>1 DEF WriteInv, RepliesWrittenWhole
    <3>2. CASE d = c
      <4>1. Tail(r)[1].gen = r[1].gen /\ Len(Tail(r)) >= 1 /\ Tail(r) \in Seq(ServerEvent)
        BY <2>2, <2>3, <2>4, <3>2
      <4>2. Tail(r) # <<>> /\ Head(Tail(r)) = Tail(r)[1]
        BY <4>1, HeadIsFirst
      <4>3. QED
        BY <2>3, <2>4, <3>2, <4>1, <4>2
    <3>3. QED
      BY <3>1, <3>2
  <2>6. ASSUME NEW d \in Callers
        PROVE  Whole(result'[d]) /\ (pc'[d] = "write" <=> result'[d] # <<>>)
    <3>1. CASE d # c
      BY <1>0, <2>4, <3>1 DEF WriteInv
    <3>2. CASE d = c
      BY <2>3, <2>4, <3>2
    <3>3. QED
      BY <3>1, <3>2
  <2>7. QED
    BY <2>4, <2>5, <2>6 DEF WriteInv
<1>7. ASSUME NEW c \in Callers, Timer(c) PROVE WriteInv'
  BY <1>0, <1>7 DEF Timer, TimerFires, GiveUp, WriteInv, RepliesWrittenWhole, smVars
<1>8. CASE UNCHANGED vars
  BY <1>0, <1>8 DEF vars, WriteInv, RepliesWrittenWhole
<1>9. QED
  BY <1>1, <1>3, <1>4, <1>5, <1>6, <1>7, <1>8 DEF Next, Handler

\* The composition keeps the invariants of its parts.
THEOREM HandlerInvariant == Spec => []HInv
<1>1. Init => HInv
  BY IInvInit, ChunkInvInit, WriteInvInit DEF Init, HInv
<1>2. HInv /\ [Next]_vars => HInv'
  <2>1. HInv /\ [Next]_vars => IInv'
    BY SessionStep, WrittenPreserves, IInvStep DEF HInv
  <2>2. QED
    BY <2>1, ChunkInvStep, WriteInvStep DEF HInv
<1>3. QED
  BY <1>1, <1>2, PTL DEF Spec

\* Replies of concurrent calls never mix on a connection.
THEOREM WholeReplies == Spec => []RepliesWrittenWhole
<1>1. HInv => RepliesWrittenWhole
  BY DEF HInv, WriteInv
<1>2. QED
  BY <1>1, HandlerInvariant, PTL

\* The sessions stay consistent, with complete histories and generations of
\* their own, although the events of each call are written long after it.
THEOREM SessionsStayConsistent ==
    Spec => [](ConversationStateConsistent /\ TranscriptsPairUp
                   /\ RepliesHaveOwnGeneration)
<1>1. HInv => ConversationStateConsistent /\ TranscriptsPairUp /\ RepliesHaveOwnGeneration
  BY DEF HInv, IInv, RecordOK, ConversationStateConsistent, TranscriptsPairUp
<1>2. QED
  BY <1>1, HandlerInvariant, PTL

\* The connections together implement the abstract conversation: writing is
\* invisible to it.
THEOREM HandlerRefinement == Spec => ImplementsConversation
<1>1. HInv /\ [Next]_vars => [Abstract!Next]_(Abstract!convVars)
  <2> SUFFICES ASSUME HInv, [Next]_vars PROVE [Abstract!Next]_(Abstract!convVars)
    OBVIOUS
  <2>1. CASE [SMNext]_smVars
    BY <2>1, StepRefines DEF HInv
  <2>2. CASE \E c \in Callers : Written(c)
    BY <2>2 DEF Written, Abstract!convVars
  <2>3. QED
    BY <2>1, <2>2, SessionStep
<1>2. Init => Abstract!Init
  BY InitRefines DEF Init
<1>3. QED
  BY <1>1, <1>2, HandlerInvariant, PTL DEF Spec, ImplementsConversation, Abstract!Spec

=============================================================================
