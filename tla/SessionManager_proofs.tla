------------------------- MODULE SessionManager_proofs -------------------------
(***************************************************************************)
(* Proofs about SessionManager for any sessions, connections and texts and *)
(* any bound on the generations.                                           *)
(***************************************************************************)
EXTENDS SessionManager, SequenceTheorems, TLAPS

\* What handlePipeline appends to a history: the history stays a prefix and
\* the assistant answers the text just asked (stubLLM finds the last user).
LEMMA ExchangeAppends ==
    ASSUME NEW h \in Seq(Entry), NEW t \in Utterances
    PROVE  /\ Exchange(h, t) \in Seq(Entry)
           /\ Len(Exchange(h, t)) = Len(h) + 2
           /\ \A i \in 1..Len(h) : Exchange(h, t)[i] = h[i]
           /\ Exchange(h, t)[Len(h) + 1] = [speaker |-> "user", text |-> t]
           /\ Exchange(h, t)[Len(h) + 2] = [speaker |-> "assistant", text |-> t]
<1> DEFINE asked == Append(h, [speaker |-> "user", text |-> t])
           users == {i \in DOMAIN asked : asked[i].speaker = "user"}
           n == Len(h) + 1
<1>1. /\ asked \in Seq(Entry)
      /\ Len(asked) = n
      /\ DOMAIN asked = 1..n
      /\ asked[n] = [speaker |-> "user", text |-> t]
      /\ \A i \in 1..Len(h) : asked[i] = h[i]
  BY DEF Entry
<1>2. n \in users /\ \A j \in users : j <= n
  BY <1>1
<1>3. (CHOOSE i \in users : \A j \in users : j <= i) = n
  <2>1. \A i \in users : (\A j \in users : j <= i) => i = n
    BY <1>1, <1>2
  <2>2. QED
    BY <1>2, <2>1
<1>4. StubLLM(asked) = t
  <2>1. users # {}
    BY <1>2
  <2>2. StubLLM(asked) = asked[CHOOSE i \in users : \A j \in users : j <= i].text
    BY <2>1 DEF StubLLM
  <2>3. QED
    BY <2>2, <1>3, <1>1
<1> HIDE DEF asked
<1>5. Exchange(h, t) = Append(asked, [speaker |-> "assistant", text |-> t])
  BY <1>4 DEF Exchange, asked
<1>6. QED
  BY <1>1, <1>5 DEF Entry

\* One turn takes a well-typed session record to a well-typed one.
LEMMA AfterTurnType ==
    ASSUME NEW r \in Session, NEW t \in Utterances, r.nextGen <= MaxGeneration
    PROVE  AfterTurn(r, t) \in Session
<1>1. Exchange(r.transcripts, t) \in Seq(Entry)
  BY ExchangeAppends DEF Session
<1>2. r.nextGen \in Generations /\ r.nextGen + 1 \in 1..(MaxGeneration + 1)
  BY MaxGenerationAssumption DEF Session, Generations
<1>3. QED
  BY <1>1, <1>2 DEF Session, AfterTurn, States

\* Every reply handlePipeline returns is a sequence of server events.
LEMMA ReplyType ==
    ASSUME NEW s \in Sessions, NEW g \in Generations
    PROVE  Reply(s, g) \in Seq(ServerEvent)
<1>1. \A ty \in EventTypes : Event(ty, s, g) \in ServerEvent
  BY DEF Event, ServerEvent
<1>2. QED
  BY <1>1 DEF Reply, EventTypes

\* A refused call only changes the result of its caller.
LEMMA RefuseType ==
    ASSUME SMTypeOK, NEW c \in Callers, NEW s \in Sessions \union {NoSession},
           Refuse(c, s)
    PROVE  SMTypeOK'
<1>1. <<Event("ERROR", s, NoGen)>> \in Seq(ServerEvent)
  BY MaxGenerationAssumption
     DEF Event, ServerEvent, EventTypes, NoGen, Generations
<1>2. QED
  BY <1>1 DEF SMTypeOK, Refuse, Return

-----------------------------------------------------------------------------

\* The records the calls write are session records.
LEMMA UpdatedRecordType ==
    ASSUME NEW r \in Session
    PROVE  /\ [r EXCEPT !.active = TRUE, !.connected = TRUE,
                        !.state = "idle", !.activeGen = NoGen] \in Session
           /\ [r EXCEPT !.active = FALSE, !.state = "idle", !.activeGen = NoGen]
                  \in Session
           /\ [r EXCEPT !.state = "listening"] \in Session
           /\ [r EXCEPT !.activeGen = NoGen, !.state = "listening"] \in Session
           /\ [r EXCEPT !.connected = FALSE] \in Session
<1>1. NoGen \in Generations
  BY MaxGenerationAssumption DEF NoGen, Generations
<1>2. QED
  BY <1>1 DEF Session, States

\* A call that writes one record and returns events keeps the types.
LEMMA UpdateType ==
    ASSUME SMTypeOK, NEW c \in Callers, NEW s \in Sessions, NEW r \in Session,
           NEW events \in Seq(ServerEvent),
           session' = [session EXCEPT ![s] = r], Return(c, events),
           known' \subseteq Sessions
    PROVE  SMTypeOK'
BY DEF SMTypeOK, Return

\* No call and no disconnection disturbs the types.
LEMMA TypePreserved == SMTypeOK /\ [SMNext]_smVars => SMTypeOK'
<1> SUFFICES ASSUME SMTypeOK, [SMNext]_smVars PROVE SMTypeOK'
  OBVIOUS
<1>0. /\ \A s \in Sessions : session[s] \in Session
      /\ known \subseteq Sessions
      /\ <<>> \in Seq(ServerEvent)
  BY DEF SMTypeOK
<1>1. ASSUME NEW s \in Sessions, MarkDisconnected(s) PROVE SMTypeOK'
  <2>1. session' = [session EXCEPT ![s] = [session[s] EXCEPT !.connected = FALSE]]
    BY <1>1 DEF MarkDisconnected
  <2>2. [session[s] EXCEPT !.connected = FALSE] \in Session
    BY <1>0, UpdatedRecordType
  <2>3. QED
    BY <1>1, <2>1, <2>2 DEF MarkDisconnected, SMTypeOK
<1>2. ASSUME NEW c \in Callers, NEW s \in Sessions, StartSession(c, s)
      PROVE  SMTypeOK'
  BY <1>2, <1>0, UpdatedRecordType, UpdateType DEF StartSession
<1>3. ASSUME NEW c \in Callers, NEW s \in Sessions, StopSession(c, s)
      PROVE  SMTypeOK'
  BY <1>3, <1>0, UpdatedRecordType, UpdateType, RefuseType DEF StopSession
<1>4. ASSUME NEW c \in Callers, NEW s \in Sessions, UserSpeechStart(c, s)
      PROVE  SMTypeOK'
  BY <1>4, <1>0, UpdatedRecordType, UpdateType, RefuseType DEF UserSpeechStart
<1>5. ASSUME NEW c \in Callers, NEW s \in Sessions, NEW t \in Utterances,
             HandlePipeline(c, s, t), known' \subseteq Sessions
      PROVE  SMTypeOK'
  <2>1. session[s].nextGen \in Generations
    BY <1>5, <1>0, MaxGenerationAssumption
       DEF HandlePipeline, Session, Generations
  <2>2. AfterTurn(session[s], t) \in Session
    BY <1>0, <1>5, AfterTurnType DEF HandlePipeline
  <2>3. Reply(s, session[s].nextGen) \in Seq(ServerEvent)
    BY <2>1, ReplyType
  <2>4. QED
    BY <1>5, <2>2, <2>3, UpdateType DEF HandlePipeline
<1>6. ASSUME NEW c \in Callers, NEW s \in Sessions, UserSpeechEnd(c, s)
      PROVE  SMTypeOK'
  BY <1>6, <1>5, <1>0, RefuseType DEF UserSpeechEnd, Utterances
<1>7. ASSUME NEW c \in Callers, NEW s \in Sessions,
             NEW t \in Texts \union {NoText}, TextInput(c, s, t)
      PROVE  SMTypeOK'
  BY <1>7, <1>5, <1>0, RefuseType DEF TextInput, Utterances
<1>8. ASSUME NEW c \in Callers, NEW s \in Sessions, NEW g \in Generations,
             CancelResponse(c, s, g)
      PROVE  SMTypeOK'
  BY <1>8, <1>0, UpdatedRecordType, UpdateType, RefuseType DEF CancelResponse
<1>9. ASSUME NEW c \in Callers, NEW s \in Sessions, AudioChunk(c, s)
      PROVE  SMTypeOK'
  <2>1. CASE Refuse(c, s)
    BY <2>1, RefuseType
  <2>2. CASE Return(c, <<>>) /\ UNCHANGED <<known, session>>
    BY <2>2, <1>0 DEF Return, SMTypeOK
  <2>3. QED
    BY <1>9, <2>1, <2>2 DEF AudioChunk
<1>10. ASSUME NEW c \in Callers, NEW s \in Sessions, Ping(c, s)
       PROVE  SMTypeOK'
  <2>1. <<Event("PONG", s, NoGen)>> \in Seq(ServerEvent)
    BY MaxGenerationAssumption
       DEF Event, ServerEvent, EventTypes, NoGen, Generations
  <2>2. QED
    BY <1>10, <2>1, RefuseType DEF Ping, Return, SMTypeOK
<1>11. ASSUME NEW c \in Callers, NEW s \in Sessions, Unsupported(c, s)
       PROVE  SMTypeOK'
  BY <1>11, RefuseType DEF Unsupported
<1>12. ASSUME NEW c \in Callers, MissingSessionId(c) PROVE SMTypeOK'
  BY <1>12, RefuseType DEF MissingSessionId
<1>13. CASE UNCHANGED smVars
  BY <1>13 DEF smVars, SMTypeOK
<1>14. QED
  BY <1>1, <1>2, <1>3, <1>4, <1>6, <1>7, <1>8, <1>9, <1>10, <1>11, <1>12, <1>13
     DEF SMNext, Handle

\* Type correctness: every variable keeps its type whatever is called.
THEOREM TypeCorrect == SMSpec => []SMTypeOK
<1>1. SMInit => SMTypeOK
  <2>1. Fresh \in Session
    BY MaxGenerationAssumption DEF Fresh, Session, States, Generations, NoGen
  <2>2. QED
    BY <2>1 DEF SMInit, SMTypeOK
<1>2. QED
  BY <1>1, TypePreserved, PTL DEF SMSpec

-----------------------------------------------------------------------------
(* The three kinds of steps.  Everything below follows from them. *)

\* The records that a call which starts no turn can leave.
QuietUpdates(r) ==
    { [r EXCEPT !.active = TRUE, !.connected = TRUE,
                !.state = "idle", !.activeGen = NoGen],
      [r EXCEPT !.active = FALSE, !.state = "idle", !.activeGen = NoGen],
      [r EXCEPT !.connected = FALSE] }
    \union (IF r.active
            THEN { [r EXCEPT !.state = "listening"],
                   [r EXCEPT !.activeGen = NoGen, !.state = "listening"] }
            ELSE {})

\* A caller gets events that belong to no generation, or nobody gets anything.
QuietResult ==
    \/ UNCHANGED result
    \/ \E c \in Callers : \E events \in Seq(ServerEvent) :
           /\ Return(c, events)
           /\ \A i \in DOMAIN events : events[i].gen = NoGen

QuietStep ==
    /\ QuietResult
    /\ \/ UNCHANGED session
       \/ \E s \in Sessions : \E r \in QuietUpdates(session[s]) :
              session' = [session EXCEPT ![s] = r]

TurnStep ==
    \E c \in Callers, s \in Sessions, t \in Utterances \ {NoText} :
        HandlePipeline(c, s, t)

\* A refused call is quiet.
LEMMA RefuseQuiet ==
    ASSUME NEW c \in Callers, NEW s \in Sessions \union {NoSession}, Refuse(c, s)
    PROVE  QuietStep
<1>1. <<Event("ERROR", s, NoGen)>> \in Seq(ServerEvent)
  BY MaxGenerationAssumption
     DEF Event, ServerEvent, EventTypes, NoGen, Generations
<1>2. \A i \in DOMAIN <<Event("ERROR", s, NoGen)>> :
          <<Event("ERROR", s, NoGen)>>[i].gen = NoGen
  BY DEF Event
<1>3. QED
  BY <1>1, <1>2 DEF Refuse, QuietStep, QuietResult

\* A call that returns nothing and leaves a quiet record is quiet.
LEMMA UpdateQuiet ==
    ASSUME NEW c \in Callers, NEW s \in Sessions, Return(c, <<>>),
           NEW r \in QuietUpdates(session[s]),
           session' = [session EXCEPT ![s] = r]
    PROVE  QuietStep
<1>1. <<>> \in Seq(ServerEvent) /\ DOMAIN <<>> = {}
  OBVIOUS
<1>2. QuietResult
  BY <1>1 DEF QuietResult
<1>3. QED
  BY <1>2 DEF QuietStep

\* Every step is a turn of some session, with a text that is not empty, or is
\* quiet.
LEMMA StepShape ==
    ASSUME SMNext PROVE QuietStep \/ TurnStep
<1>0. <<>> \in Seq(ServerEvent) /\ DOMAIN <<>> = {}
  OBVIOUS
<1>1. ASSUME NEW s \in Sessions, MarkDisconnected(s) PROVE QuietStep
  BY <1>1 DEF MarkDisconnected, QuietStep, QuietResult, QuietUpdates
<1>2. ASSUME NEW c \in Callers, NEW s \in Sessions, StartSession(c, s)
      PROVE  QuietStep
  BY <1>2, UpdateQuiet DEF StartSession, QuietUpdates
<1>3. ASSUME NEW c \in Callers, NEW s \in Sessions, StopSession(c, s)
      PROVE  QuietStep
  BY <1>3, UpdateQuiet, RefuseQuiet DEF StopSession, QuietUpdates
<1>4. ASSUME NEW c \in Callers, NEW s \in Sessions, UserSpeechStart(c, s)
      PROVE  QuietStep
  BY <1>4, UpdateQuiet, RefuseQuiet
     DEF UserSpeechStart, RequireActive, QuietUpdates
<1>5. ASSUME NEW c \in Callers, NEW s \in Sessions, UserSpeechEnd(c, s)
      PROVE  QuietStep \/ TurnStep
  BY <1>5, RefuseQuiet, VoiceTextAssumption DEF UserSpeechEnd, TurnStep, Utterances
<1>6. ASSUME NEW c \in Callers, NEW s \in Sessions,
             NEW t \in Texts \union {NoText}, TextInput(c, s, t)
      PROVE  QuietStep \/ TurnStep
  BY <1>6, RefuseQuiet DEF TextInput, TurnStep, Utterances
<1>7. ASSUME NEW c \in Callers, NEW s \in Sessions, NEW g \in Generations,
             CancelResponse(c, s, g)
      PROVE  QuietStep
  BY <1>7, UpdateQuiet, RefuseQuiet
     DEF CancelResponse, RequireActive, QuietUpdates
<1>8. ASSUME NEW c \in Callers, NEW s \in Sessions, AudioChunk(c, s)
      PROVE  QuietStep
  <2>1. CASE Refuse(c, s)
    BY <2>1, RefuseQuiet
  <2>2. CASE Return(c, <<>>) /\ UNCHANGED <<known, session>>
    BY <2>2, <1>0 DEF QuietStep, QuietResult
  <2>3. QED
    BY <1>8, <2>1, <2>2 DEF AudioChunk
<1>9. ASSUME NEW c \in Callers, NEW s \in Sessions, Ping(c, s)
      PROVE  QuietStep
  <2>1. <<Event("PONG", s, NoGen)>> \in Seq(ServerEvent)
    BY MaxGenerationAssumption
       DEF Event, ServerEvent, EventTypes, NoGen, Generations
  <2>2. \A i \in DOMAIN <<Event("PONG", s, NoGen)>> :
            <<Event("PONG", s, NoGen)>>[i].gen = NoGen
    BY DEF Event
  <2>3. CASE Refuse(c, s)
    BY <2>3, RefuseQuiet
  <2>4. CASE Return(c, <<Event("PONG", s, NoGen)>>) /\ UNCHANGED <<known, session>>
    BY <2>4, <2>1, <2>2 DEF QuietStep, QuietResult
  <2>5. QED
    BY <1>9, <2>3, <2>4 DEF Ping
<1>10. ASSUME NEW c \in Callers, NEW s \in Sessions, Unsupported(c, s)
       PROVE  QuietStep
  BY <1>10, RefuseQuiet DEF Unsupported
<1>11. ASSUME NEW c \in Callers, MissingSessionId(c) PROVE QuietStep
  BY <1>11, RefuseQuiet DEF MissingSessionId
<1>12. QED
  BY <1>1, <1>2, <1>3, <1>4, <1>5, <1>6, <1>7, <1>8, <1>9, <1>10, <1>11
     DEF SMNext, Handle

-----------------------------------------------------------------------------
(* The inductive invariant. *)

\* The part of it that speaks of one record.
RecordOK(r) ==
    /\ r.state = "thinking" => r.activeGen # NoGen
    /\ r.activeGen # NoGen => r.activeGen = r.nextGen - 1
    /\ r.state = "idle" => r.activeGen = NoGen
    /\ r.state = "listening" => r.active
    /\ Len(r.transcripts) = 2 * (r.nextGen - 1)
    /\ \A k \in 1..(r.nextGen - 1) :
           /\ r.transcripts[2 * k - 1].speaker = "user"
           /\ r.transcripts[2 * k].speaker = "assistant"
           /\ r.transcripts[2 * k].text = r.transcripts[2 * k - 1].text

\* Replies only carry generations that were issued: without this a connection
\* might hold the id that the next turn is about to use.
RepliesIssued ==
    \A c \in Callers : \A i \in DOMAIN result[c] :
        result[c][i].gen # NoGen =>
            /\ result[c][i].session \in Sessions
            /\ result[c][i].gen < session[result[c][i].session].nextGen

IInv ==
    /\ SMTypeOK
    /\ \A s \in Sessions : RecordOK(session[s])
    /\ RepliesIssued
    /\ RepliesHaveOwnGeneration

\* A quiet update keeps the record consistent, its turns and its counter.
LEMMA QuietRecord ==
    ASSUME NEW r \in Session, NEW q \in QuietUpdates(r)
    PROVE  /\ RecordOK(r) => RecordOK(q)
           /\ q.nextGen = r.nextGen
           /\ q.transcripts = r.transcripts
           /\ q.activeGen \in {NoGen, r.activeGen}
<1>1. CASE q = [r EXCEPT !.active = TRUE, !.connected = TRUE,
                         !.state = "idle", !.activeGen = NoGen]
  BY <1>1 DEF Session, RecordOK
<1>2. CASE q = [r EXCEPT !.active = FALSE, !.state = "idle", !.activeGen = NoGen]
  BY <1>2 DEF Session, RecordOK
<1>3. CASE q = [r EXCEPT !.connected = FALSE]
  BY <1>3 DEF Session, RecordOK
<1>4. CASE r.active /\ q = [r EXCEPT !.state = "listening"]
  BY <1>4 DEF Session, RecordOK
<1>5. CASE r.active /\ q = [r EXCEPT !.activeGen = NoGen, !.state = "listening"]
  BY <1>5 DEF Session, RecordOK
<1>6. QED
  BY <1>1, <1>2, <1>3, <1>4, <1>5 DEF QuietUpdates

\* A turn keeps the record consistent and adds one pair of transcripts.
LEMMA TurnRecord ==
    ASSUME NEW r \in Session, NEW t \in Utterances
    PROVE  /\ RecordOK(r) => RecordOK(AfterTurn(r, t))
           /\ AfterTurn(r, t).nextGen = r.nextGen + 1
           /\ AfterTurn(r, t).activeGen = r.nextGen
           /\ AfterTurn(r, t).transcripts = Exchange(r.transcripts, t)
<1> DEFINE q == AfterTurn(r, t)
           h == r.transcripts
           n == r.nextGen
<1>1. /\ q.state = "thinking"
      /\ q.activeGen = n
      /\ q.nextGen = n + 1
      /\ q.transcripts = Exchange(h, t)
  BY DEF AfterTurn, Session
<1>2. h \in Seq(Entry) /\ n \in Nat /\ n >= 1 /\ Len(h) \in Nat
  BY MaxGenerationAssumption DEF Session
<1> HIDE DEF q
<1>3. ASSUME RecordOK(r) PROVE RecordOK(q)
  <2>1. Len(h) = 2 * (n - 1)
    BY <1>3 DEF RecordOK
  <2>2. /\ Len(q.transcripts) = 2 * n
        /\ \A i \in 1..(2 * (n - 1)) : q.transcripts[i] = h[i]
        /\ q.transcripts[2 * n - 1] = [speaker |-> "user", text |-> t]
        /\ q.transcripts[2 * n] = [speaker |-> "assistant", text |-> t]
    <3>1. Len(h) + 1 = 2 * n - 1 /\ Len(h) + 2 = 2 * n
      BY <1>2, <2>1
    <3>2. /\ Len(Exchange(h, t)) = Len(h) + 2
          /\ \A i \in 1..Len(h) : Exchange(h, t)[i] = h[i]
          /\ Exchange(h, t)[Len(h) + 1] = [speaker |-> "user", text |-> t]
          /\ Exchange(h, t)[Len(h) + 2] = [speaker |-> "assistant", text |-> t]
      BY <1>2, ExchangeAppends
    <3>3. QED
      BY <1>1, <2>1, <3>1, <3>2
  <2>3. ASSUME NEW k \in 1..n
        PROVE  /\ q.transcripts[2 * k - 1].speaker = "user"
               /\ q.transcripts[2 * k].speaker = "assistant"
               /\ q.transcripts[2 * k].text = q.transcripts[2 * k - 1].text
    <3>1. CASE k = n
      <4>1. /\ q.transcripts[2 * k - 1] = [speaker |-> "user", text |-> t]
            /\ q.transcripts[2 * k] = [speaker |-> "assistant", text |-> t]
        BY <2>2, <3>1
      <4>2. QED
        BY <4>1
    <3>2. CASE k \in 1..(n - 1)
      <4>1. /\ 2 * k - 1 \in 1..(2 * (n - 1))
            /\ 2 * k \in 1..(2 * (n - 1))
        BY <1>2, <3>2
      <4>2. /\ q.transcripts[2 * k - 1] = h[2 * k - 1]
            /\ q.transcripts[2 * k] = h[2 * k]
        BY <4>1, <2>2
      <4>3. QED
        BY <4>2, <1>3, <3>2 DEF RecordOK
    <3>3. QED
      BY <1>2, <3>1, <3>2
  <2>4. /\ q.state # "idle" /\ q.state # "listening" /\ q.activeGen # NoGen
        /\ q.activeGen = q.nextGen - 1
    BY <1>1, <1>2 DEF NoGen
  <2>5. /\ Len(q.transcripts) = 2 * (q.nextGen - 1)
        /\ 1..(q.nextGen - 1) = 1..n
    BY <1>1, <1>2, <2>2
  <2>6. QED
    BY <2>3, <2>4, <2>5 DEF RecordOK
<1>4. QED
  BY <1>1, <1>3 DEF q

\* Every event of a reply carries the session and the generation of the turn.
LEMMA ReplyEvents ==
    ASSUME NEW s, NEW g
    PROVE  \A i \in DOMAIN Reply(s, g) :
               Reply(s, g)[i].session = s /\ Reply(s, g)[i].gen = g
<1>1. DOMAIN Reply(s, g) = 1..4
  BY DEF Reply
<1>2. \A ty : Event(ty, s, g).session = s /\ Event(ty, s, g).gen = g
  BY DEF Event
<1>3. /\ Reply(s, g)[1] = Event("ASSISTANT_SPEAKING", s, g)
      /\ Reply(s, g)[2] = Event("AUDIO_READY", s, g)
      /\ Reply(s, g)[3] = Event("METRICS_UPDATE", s, g)
      /\ Reply(s, g)[4] = Event("ASSISTANT_STOPPED", s, g)
  BY DEF Reply
<1>4. QED
  BY <1>1, <1>2, <1>3

\* A turn adds a reply under a generation nobody holds yet.
LEMMA TurnPreserves == IInv /\ SMTypeOK' /\ TurnStep => IInv'
<1> SUFFICES ASSUME IInv, SMTypeOK', TurnStep PROVE IInv'
  OBVIOUS
<1>1. PICK c \in Callers, s \in Sessions, t \in Utterances \ {NoText} :
          HandlePipeline(c, s, t)
  BY DEF TurnStep
<1> DEFINE n == session[s].nextGen
<1>2. /\ session[s] \in Session
      /\ session' = [session EXCEPT ![s] = AfterTurn(session[s], t)]
      /\ result' = [result EXCEPT ![c] = Reply(s, n)]
  BY <1>1 DEF HandlePipeline, Return, IInv, SMTypeOK
<1>3. /\ session'[s] = AfterTurn(session[s], t)
      /\ \A x \in Sessions : x # s => session'[x] = session[x]
      /\ result'[c] = Reply(s, n)
      /\ \A d \in Callers : d # c => result'[d] = result[d]
  BY <1>2 DEF IInv, SMTypeOK
<1>4. \A x \in Sessions : RecordOK(session'[x])
  BY <1>2, <1>3, TurnRecord DEF IInv
<1>5. /\ session'[s].nextGen = n + 1
      /\ n \in Nat
  BY <1>2, <1>3, TurnRecord, MaxGenerationAssumption DEF Session
<1>6. \A d \in Callers : \A i \in DOMAIN result[d] :
          /\ result[d][i].gen \in Nat
          /\ result[d][i].gen # NoGen =>
                 /\ result[d][i].session \in Sessions
                 /\ result[d][i].gen < session[result[d][i].session].nextGen
  <2>1. \A d \in Callers : \A i \in DOMAIN result[d] : result[d][i] \in ServerEvent
    BY DEF IInv, SMTypeOK
  <2>2. \A e \in ServerEvent : e.gen \in Nat
    BY MaxGenerationAssumption DEF ServerEvent, Generations
  <2>3. QED
    BY <2>1, <2>2 DEF IInv, RepliesIssued
<1>7. RepliesIssued'
  <2> SUFFICES ASSUME NEW d \in Callers, NEW i \in DOMAIN result'[d],
                      result'[d][i].gen # NoGen
               PROVE  /\ result'[d][i].session \in Sessions
                      /\ result'[d][i].gen < session'[result'[d][i].session].nextGen
    BY DEF RepliesIssued
  <2>1. CASE d = c
    BY <2>1, <1>3, <1>5, ReplyEvents
  <2>2. CASE d # c
    <3> DEFINE e == result[d][i]
    <3>1. result'[d][i] = e /\ i \in DOMAIN result[d]
      BY <2>2, <1>3
    <3>2. e.gen < session[e.session].nextGen /\ e.session \in Sessions /\ e.gen \in Nat
      BY <3>1, <1>6
    <3>3. e.gen < session'[e.session].nextGen
      <4>1. CASE e.session = s
        BY <4>1, <3>2, <1>5
      <4>2. CASE e.session # s
        BY <4>2, <3>2, <1>3
      <4>3. QED
        BY <4>1, <4>2
    <3>4. QED
      BY <3>1, <3>2, <3>3
  <2>3. QED
    BY <2>1, <2>2
<1>8. RepliesHaveOwnGeneration'
  <2> SUFFICES ASSUME NEW a \in Callers, NEW b \in Callers,
                      NEW i \in DOMAIN result'[a], NEW j \in DOMAIN result'[b],
                      a # b, result'[a][i].session = result'[b][j].session,
                      result'[a][i].gen # NoGen
               PROVE  result'[a][i].gen # result'[b][j].gen
    BY DEF RepliesHaveOwnGeneration
  <2>1. CASE a = c
    <3>1. result'[a][i].gen = n /\ result'[a][i].session = s
      BY <2>1, <1>3, ReplyEvents
    <3>2. result'[b][j] = result[b][j] /\ j \in DOMAIN result[b]
      BY <2>1, <1>3
    <3>3. result[b][j].gen # NoGen => result[b][j].gen < n
      BY <3>1, <3>2, <1>6
    <3>4. QED
      BY <3>1, <3>2, <3>3, <1>5, <1>6 DEF NoGen
  <2>2. CASE b = c
    <3>1. result'[b][j].gen = n /\ result'[b][j].session = s
      BY <2>2, <1>3, ReplyEvents
    <3>2. result'[a][i] = result[a][i] /\ i \in DOMAIN result[a]
      BY <2>2, <1>3
    <3>3. result[a][i].gen < n
      BY <3>1, <3>2, <1>6
    <3>4. QED
      BY <3>1, <3>2, <3>3, <1>5
  <2>3. CASE a # c /\ b # c
    BY <2>3, <1>3 DEF IInv, RepliesHaveOwnGeneration
  <2>4. QED
    BY <2>1, <2>2, <2>3
<1>9. QED
  BY <1>4, <1>7, <1>8 DEF IInv

\* A quiet step changes no counter and hands out no generation.
LEMMA QuietPreserves == IInv /\ SMTypeOK' /\ QuietStep => IInv'
<1> SUFFICES ASSUME IInv, SMTypeOK', QuietStep PROVE IInv'
  OBVIOUS
<1>1. \A x \in Sessions : session[x] \in Session /\ RecordOK(session[x])
  BY DEF IInv, SMTypeOK
<1>2. \A x \in Sessions :
          RecordOK(session'[x]) /\ session'[x].nextGen = session[x].nextGen
  <2>1. CASE UNCHANGED session
    BY <2>1, <1>1
  <2>2. CASE \E s \in Sessions : \E r \in QuietUpdates(session[s]) :
                 session' = [session EXCEPT ![s] = r]
    <3>0. PICK s \in Sessions : \E r \in QuietUpdates(session[s]) :
              session' = [session EXCEPT ![s] = r]
      BY <2>2
    <3>1. PICK r \in QuietUpdates(session[s]) : session' = [session EXCEPT ![s] = r]
      BY <3>0
    <3>2. RecordOK(r) /\ r.nextGen = session[s].nextGen
      BY <1>1, QuietRecord
    <3>3. session'[s] = r /\ \A x \in Sessions : x # s => session'[x] = session[x]
      BY <3>1 DEF IInv, SMTypeOK
    <3>4. QED
      BY <3>2, <3>3, <1>1
  <2>3. QED
    BY <2>1, <2>2 DEF QuietStep
<1>3. \A d \in Callers : \A i \in DOMAIN result'[d] :
          \/ i \in DOMAIN result[d] /\ result'[d][i] = result[d][i]
          \/ result'[d][i].gen = NoGen
  BY DEF QuietStep, QuietResult, Return, IInv, SMTypeOK
<1>4. RepliesIssued'
  <2> SUFFICES ASSUME NEW d \in Callers, NEW i \in DOMAIN result'[d],
                      result'[d][i].gen # NoGen
               PROVE  /\ result'[d][i].session \in Sessions
                      /\ result'[d][i].gen < session'[result'[d][i].session].nextGen
    BY DEF RepliesIssued
  <2>1. i \in DOMAIN result[d] /\ result'[d][i] = result[d][i]
    BY <1>3
  <2>2. QED
    BY <2>1, <1>2 DEF IInv, RepliesIssued
<1>5. RepliesHaveOwnGeneration'
  BY <1>3 DEF RepliesHaveOwnGeneration, IInv
<1>6. QED
  BY <1>2, <1>4, <1>5 DEF IInv

\* A manager without sessions satisfies the invariant.
LEMMA IInvInit == SMInit => IInv
<1> SUFFICES ASSUME SMInit PROVE IInv
  OBVIOUS
<1>1. SMTypeOK
  <2>1. Fresh \in Session
    BY MaxGenerationAssumption DEF Fresh, Session, States, Generations, NoGen
  <2>2. QED
    BY <2>1 DEF SMInit, SMTypeOK
<1>2. RecordOK(Fresh)
  BY DEF RecordOK, Fresh, NoGen
<1>3. QED
  BY <1>1, <1>2 DEF SMInit, IInv, RepliesIssued, RepliesHaveOwnGeneration

\* No call and no disconnection disturbs it.
LEMMA IInvStep == IInv /\ [SMNext]_smVars => IInv'
<1> SUFFICES ASSUME IInv, [SMNext]_smVars PROVE IInv'
  OBVIOUS
<1>1. SMTypeOK'
  BY TypePreserved DEF IInv
<1>2. CASE SMNext
  BY <1>1, <1>2, StepShape, TurnPreserves, QuietPreserves
<1>3. CASE UNCHANGED smVars
  BY <1>1, <1>3
     DEF smVars, IInv, RecordOK, RepliesIssued, RepliesHaveOwnGeneration
<1>4. QED
  BY <1>2, <1>3

\* The invariant is inductive.
THEOREM InductiveInvariant == SMSpec => []IInv
BY IInvInit, IInvStep, PTL DEF SMSpec

\* The state, the activity, the current generation and the counter of every
\* session agree at all times.
THEOREM StateConsistent == SMSpec => []ConversationStateConsistent
<1>1. IInv => ConversationStateConsistent
  BY DEF IInv, RecordOK, ConversationStateConsistent
<1>2. QED
  BY <1>1, InductiveInvariant, PTL

\* The history of every session is a sequence of complete turns.
THEOREM HistoryPairsUp == SMSpec => []TranscriptsPairUp
<1>1. IInv => TranscriptsPairUp
  BY DEF IInv, RecordOK, TranscriptsPairUp
<1>2. QED
  BY <1>1, InductiveInvariant, PTL

\* However many connections talk about a session, no two of them ever hold
\* replies with the same generation id.
THEOREM OwnGenerations == SMSpec => []RepliesHaveOwnGeneration
<1>1. IInv => RepliesHaveOwnGeneration
  BY DEF IInv
<1>2. QED
  BY <1>1, InductiveInvariant, PTL

-----------------------------------------------------------------------------
(* The action property and the refinement, from the same invariant. *)

\* What a step does to every record: its counter never goes back and its
\* current generation is kept, dropped or the next one.
LEMMA NothingRevived ==
    ASSUME SMTypeOK, SMNext
    PROVE  \A s \in Sessions :
               /\ session'[s].nextGen >= session[s].nextGen
               /\ session'[s].activeGen \in
                      {NoGen, session[s].activeGen, session[s].nextGen}
<1>1. \A s \in Sessions : session[s] \in Session /\ session[s].nextGen \in Nat
  BY MaxGenerationAssumption DEF SMTypeOK, Session
<1>2. CASE QuietStep
  <2>1. CASE UNCHANGED session
    BY <2>1, <1>1
  <2>2. ASSUME NEW s \in Sessions, NEW r \in QuietUpdates(session[s]),
               session' = [session EXCEPT ![s] = r]
        PROVE  \A x \in Sessions :
                   /\ session'[x].nextGen >= session[x].nextGen
                   /\ session'[x].activeGen \in {NoGen, session[x].activeGen}
    <3>1. /\ r.nextGen = session[s].nextGen
          /\ r.activeGen \in {NoGen, session[s].activeGen}
      BY <1>1, QuietRecord
    <3>2. session'[s] = r /\ \A x \in Sessions : x # s => session'[x] = session[x]
      BY <2>2 DEF SMTypeOK
    <3>3. QED
      BY <3>1, <3>2, <1>1
  <2>3. QED
    BY <1>2, <2>1, <2>2 DEF QuietStep
<1>3. ASSUME NEW c \in Callers, NEW s \in Sessions,
             NEW t \in Utterances \ {NoText}, HandlePipeline(c, s, t)
      PROVE  \A x \in Sessions :
                 /\ session'[x].nextGen >= session[x].nextGen
                 /\ session'[x].activeGen \in
                        {NoGen, session[x].activeGen, session[x].nextGen}
  <2>1. /\ session'[s] = AfterTurn(session[s], t)
        /\ \A x \in Sessions : x # s => session'[x] = session[x]
    BY <1>3 DEF HandlePipeline, SMTypeOK
  <2>2. /\ session'[s].nextGen = session[s].nextGen + 1
        /\ session'[s].activeGen = session[s].nextGen
    BY <2>1, <1>1, TurnRecord
  <2>3. QED
    BY <2>1, <2>2, <1>1
<1>4. QED
  BY <1>2, <1>3, StepShape DEF TurnStep

\* A generation that stopped being current never becomes current again.
THEOREM GenerationsNotRevived == SMSpec => NoGenerationRevived
<1>1. SMTypeOK /\ [SMNext]_smVars =>
        [\A s \in Sessions :
            /\ session'[s].nextGen >= session[s].nextGen
            /\ session'[s].activeGen \in
                   {NoGen, session[s].activeGen, session[s].nextGen}]_smVars
  BY NothingRevived
<1>2. QED
  BY <1>1, TypeCorrect, PTL DEF SMSpec, NoGenerationRevived

\* One turn of the records is one turn of the abstract conversation.
LEMMA UserTurnsAppend ==
    ASSUME NEW r \in Session, RecordOK(r), NEW t \in Utterances
    PROVE  /\ UserTurns(AfterTurn(r, t)) = Append(UserTurns(r), t)
           /\ Len(UserTurns(r)) = r.nextGen - 1
<1> DEFINE n == r.nextGen
           h == r.transcripts
           q == AfterTurn(r, t)
<1>1. n \in Nat /\ n >= 1 /\ h \in Seq(Entry) /\ Len(h) = 2 * (n - 1)
  BY MaxGenerationAssumption DEF Session, RecordOK
<1>2. q.nextGen = n + 1 /\ q.transcripts = Exchange(h, t)
  BY TurnRecord
<1>3. UserTurns(r) = [k \in 1..(n - 1) |-> h[2 * k - 1].text]
  BY DEF UserTurns
<1>4. UserTurns(q) = [k \in 1..n |-> Exchange(h, t)[2 * k - 1].text]
  <2>1. UserTurns(q) =
            [k \in 1..(q.nextGen - 1) |-> q.transcripts[2 * k - 1].text]
    BY DEF UserTurns
  <2>2. 1..(q.nextGen - 1) = 1..n
    BY <1>1, <1>2
  <2>3. QED
    BY <2>1, <2>2, <1>2
<1>5. \A k \in 1..(n - 1) : Exchange(h, t)[2 * k - 1] = h[2 * k - 1]
  <2>1. \A k \in 1..(n - 1) : 2 * k - 1 \in 1..Len(h)
    BY <1>1
  <2>2. QED
    BY <2>1, <1>1, ExchangeAppends
<1>6. Exchange(h, t)[2 * n - 1].text = t
  <2>1. 2 * n - 1 = Len(h) + 1
    BY <1>1
  <2>2. Exchange(h, t)[Len(h) + 1] = [speaker |-> "user", text |-> t]
    BY <1>1, ExchangeAppends
  <2>3. QED
    BY <2>1, <2>2
<1>7. /\ UserTurns(r) \in Seq(Utterances)
      /\ Len(UserTurns(r)) = n - 1
  <2>1. \A k \in 1..(n - 1) : h[2 * k - 1] \in Entry
    <3>1. \A k \in 1..(n - 1) : 2 * k - 1 \in 1..Len(h)
      BY <1>1
    <3>2. QED
      BY <3>1, <1>1
  <2>2. \A e \in Entry : e.text \in Utterances
    BY DEF Entry
  <2>3. \A k \in 1..(n - 1) : h[2 * k - 1].text \in Utterances
    BY <2>1, <2>2
  <2>4. QED
    <3> HIDE DEF h, n
    <3>1. n - 1 \in Nat
      BY <1>1
    <3>2. QED
      BY <2>3, <3>1, <1>3
<1> HIDE DEF n, h, q
<1>8. UserTurns(q) = Append(UserTurns(r), t)
  <2>1. /\ Len(Append(UserTurns(r), t)) = n
        /\ DOMAIN Append(UserTurns(r), t) = 1..n
        /\ Append(UserTurns(r), t)[n] = t
        /\ \A k \in 1..(n - 1) : Append(UserTurns(r), t)[k] = UserTurns(r)[k]
    BY <1>1, <1>7
  <2>2. ASSUME NEW k \in 1..n
        PROVE  UserTurns(q)[k] = Append(UserTurns(r), t)[k]
    <3>1. CASE k \in 1..(n - 1)
      <4>1. k \in 1..n
        BY <3>1, <1>1
      <4>2. UserTurns(q)[k] = h[2 * k - 1].text
        BY <3>1, <4>1, <1>4, <1>5
      <4>3. UserTurns(r)[k] = h[2 * k - 1].text
        BY <3>1, <1>3
      <4>4. QED
        BY <3>1, <4>2, <4>3, <2>1
    <3>2. CASE k = n
      BY <3>2, <1>1, <1>4, <1>6, <2>1
    <3>3. k \in 1..(n - 1) \/ k = n
      BY <1>1
    <3>4. QED
      BY <3>1, <3>2, <3>3
  <2>3. UserTurns(q) \in Seq(Utterances) /\ Len(UserTurns(q)) = n
    <3>1. \A k \in 1..n : UserTurns(q)[k] \in Utterances
      BY <2>1, <2>2, <1>1, <1>7
    <3>2. QED
      BY <3>1, <1>1, <1>4
  <2>4. Append(UserTurns(r), t) \in Seq(Utterances)
    BY <1>7
  <2>5. QED
    BY <2>1, <2>2, <2>3, <2>4, SeqEqual
<1>9. QED
  BY <1>7, <1>8 DEF n, q

\* Every step of the backend is a step of the abstract conversation, or one
\* the conversation does not see.
LEMMA StepRefines == IInv /\ [SMNext]_smVars => [Abstract!Next]_(Abstract!convVars)
<1> SUFFICES ASSUME IInv, [SMNext]_smVars
             PROVE  [Abstract!Next]_(Abstract!convVars)
  OBVIOUS
<1> DEFINE turns == [s \in Sessions |-> UserTurns(session[s])]
           current == [s \in Sessions |-> session[s].activeGen]
<1>1. \A s \in Sessions : session[s] \in Session /\ RecordOK(session[s])
  BY DEF IInv, SMTypeOK
<1>2. ASSUME UNCHANGED session PROVE turns' = turns /\ current' = current
  BY <1>2
<1>3. ASSUME NEW s \in Sessions, NEW r \in QuietUpdates(session[s]),
             session' = [session EXCEPT ![s] = r]
      PROVE  /\ turns' = turns
             /\ \/ current' = current
                \/ current' = [current EXCEPT ![s] = 0]
  <2>1. /\ r.nextGen = session[s].nextGen
        /\ r.transcripts = session[s].transcripts
        /\ r.activeGen \in {NoGen, session[s].activeGen}
    BY <1>1, QuietRecord
  <2>2. session'[s] = r /\ \A x \in Sessions : x # s => session'[x] = session[x]
    BY <1>3 DEF IInv, SMTypeOK
  <2>3. UserTurns(r) = UserTurns(session[s])
    BY <2>1 DEF UserTurns
  <2>4. \A x \in Sessions : UserTurns(session'[x]) = UserTurns(session[x])
    BY <2>2, <2>3
  <2>5. CASE r.activeGen = session[s].activeGen
    BY <2>2, <2>4, <2>5
  <2>6. CASE r.activeGen = NoGen
    BY <2>2, <2>4, <2>6 DEF NoGen
  <2>7. QED
    BY <2>1, <2>5, <2>6
<1>4. ASSUME NEW c \in Callers, NEW s \in Sessions,
             NEW t \in Utterances \ {NoText}, HandlePipeline(c, s, t)
      PROVE  /\ turns' = [turns EXCEPT ![s] = Append(@, t)]
             /\ current' = [current EXCEPT ![s] = Len(turns[s]) + 1]
  <2>1. /\ session'[s] = AfterTurn(session[s], t)
        /\ \A x \in Sessions : x # s => session'[x] = session[x]
    BY <1>4 DEF HandlePipeline, IInv, SMTypeOK
  <2>2. /\ UserTurns(session'[s]) = Append(UserTurns(session[s]), t)
        /\ Len(UserTurns(session[s])) = session[s].nextGen - 1
    BY <1>1, <2>1, UserTurnsAppend
  <2>3. session'[s].activeGen = session[s].nextGen
    BY <1>1, <2>1, TurnRecord
  <2>4. session[s].nextGen \in Nat
    BY <1>1, MaxGenerationAssumption DEF Session
  <2>5. turns' = [turns EXCEPT ![s] = Append(@, t)]
    BY <2>1, <2>2
  <2>6. session'[s].activeGen = Len(turns[s]) + 1
    BY <2>2, <2>3, <2>4
  <2>7. current' = [current EXCEPT ![s] = Len(turns[s]) + 1]
    BY <2>1, <2>6
  <2>8. QED
    BY <2>5, <2>7
<1>5. CASE UNCHANGED smVars
  BY <1>5, <1>2 DEF smVars, Abstract!convVars
<1>6. CASE QuietStep
  <2>1. CASE UNCHANGED session
    BY <2>1, <1>2 DEF Abstract!convVars
  <2>2. ASSUME NEW s \in Sessions, NEW r \in QuietUpdates(session[s]),
               session' = [session EXCEPT ![s] = r]
        PROVE  [Abstract!Next]_(Abstract!convVars)
    BY <2>2, <1>3 DEF Abstract!convVars, Abstract!Next, Abstract!Retire
  <2>3. QED
    BY <1>6, <2>1, <2>2 DEF QuietStep
<1>7. CASE TurnStep
  <2>1. PICK c \in Callers, s \in Sessions, t \in Utterances \ {NoText} :
            HandlePipeline(c, s, t)
    BY <1>7 DEF TurnStep
  <2>2. Abstract!Ask(s, t)
    BY <2>1, <1>4 DEF Abstract!Ask
  <2>3. QED
    BY <2>2 DEF Abstract!Next
<1>8. QED
  BY <1>5, <1>6, <1>7, StepShape

\* Before the first turn the abstract conversation has not begun.
LEMMA InitRefines == SMInit => Abstract!Init
<1>1. UserTurns(Fresh) = <<>>
  <2>1. 1..(Fresh.nextGen - 1) = {}
    BY DEF Fresh
  <2>2. QED
    BY <2>1 DEF UserTurns
<1>2. Fresh.activeGen = 0
  BY DEF Fresh, NoGen
<1>3. SMInit => \A s \in Sessions : session[s] = Fresh
  BY DEF SMInit
<1>4. QED
  BY <1>1, <1>2, <1>3 DEF Abstract!Init

\* The backend implements the abstract conversation: turns are never lost or
\* renumbered, and only the last turn's generation is ever current.
THEOREM Refinement == SMSpec => ImplementsConversation
BY InitRefines, StepRefines, InductiveInvariant, PTL
   DEF SMSpec, ImplementsConversation, Abstract!Spec

=============================================================================
