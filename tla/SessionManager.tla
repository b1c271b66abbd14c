---------------------------- MODULE SessionManager ----------------------------
(***************************************************************************)
(* The conversation sessions of the voice-chat backend                     *)
(* (backend/internal/server/session_manager.go).                           *)
(*                                                                         *)
(* One SessionManager is shared by the goroutines that serve the WebSocket *)
(* connections (the callers).  SessionManager.Handle runs under one mutex, *)
(* so each call is one step; what it returns stays with its caller, which  *)
(* uses it after the mutex is released, while other callers go on.         *)
(*                                                                         *)
(* Abstractions.  A generation id "gen-N" is the number N and "" is 0.  The *)
(* map of sessions is the set of its keys (known) and the record of each   *)
(* session.  An assistant transcript, "(reply)" + t, keeps t, the text it  *)
(* answers.  An error returned by Handle is the ERROR event that the       *)
(* connection handler makes of it; its wording is left out, as are         *)
(* timestamps, metrics and audio bytes.                                    *)
(***************************************************************************)
EXTENDS Integers, Sequences

CONSTANTS
    Sessions,       \* session ids clients may name
    NoSession,      \* the empty session id
    Callers,        \* goroutines that call Handle, one per connection
    Texts,          \* non-empty typed texts
    NoText,         \* the empty text
    VoiceText,      \* stubTranscriptText, what every utterance is heard as
    MaxGeneration   \* bound: generations issued per session

ASSUME MaxGenerationAssumption == MaxGeneration \in Nat
ASSUME VoiceTextAssumption == VoiceText # NoText

VARIABLES
    known,          \* keys of SessionManager.sessions
    session,        \* the Session record of each id (Fresh while not known)
    result          \* what the last call of each caller returned

smVars == <<known, session, result>>

NoGen == 0
Generations == 0..MaxGeneration
States == {"", "idle", "listening", "thinking"}
Utterances == Texts \union {NoText, VoiceText}
Entry == [speaker : {"user", "assistant"}, text : Utterances]
Session == [state : States, active : BOOLEAN, connected : BOOLEAN,
            activeGen : Generations, nextGen : 1..(MaxGeneration + 1),
            transcripts : Seq(Entry)]

EventTypes == {"ASSISTANT_SPEAKING", "AUDIO_READY", "METRICS_UPDATE",
               "ASSISTANT_STOPPED", "PONG", "ERROR"}
ServerEvent == [type : EventTypes, session : Sessions \union {NoSession},
                gen : Generations]

\* Mutant of Fresh: the zero value, without NextGeneration.
FreshFromZero == [state |-> "", active |-> FALSE, connected |-> FALSE,
                  activeGen |-> NoGen, nextGen |-> 0, transcripts |-> <<>>]

\* &Session{ID: ..., NextGeneration: 1}
Fresh == [state |-> "", active |-> FALSE, connected |-> FALSE,
          activeGen |-> NoGen, nextGen |-> 1, transcripts |-> <<>>]

SMInit ==
    /\ known = {}
    /\ session = [s \in Sessions |-> Fresh]
    /\ result = [c \in Callers |-> <<>>]

-----------------------------------------------------------------------------
(* Helpers *)

Event(type, s, g) == [type |-> type, session |-> s, gen |-> g]

Return(c, events) == result' = [result EXCEPT ![c] = events]

Refuse(c, s) ==
    /\ Return(c, <<Event("ERROR", s, NoGen)>>)
    /\ UNCHANGED <<known, session>>

\* requireActiveSession: the session exists and is active.
RequireActive(s) == s \in known /\ session[s].active

\* stubLLM: the most recent user text of the history.
StubLLM(history) ==
    LET users == {i \in DOMAIN history : history[i].speaker = "user"}
    IN  IF users = {} THEN NoText
        ELSE history[CHOOSE i \in users : \A j \in users : j <= i].text

\* Mutant of Exchange: the reply is asked for before the user's words are kept.
ExchangeUnheard(history, text) ==
    history \o <<[speaker |-> "user", text |-> text],
                 [speaker |-> "assistant", text |-> StubLLM(history)]>>

\* Both transcripts of one turn, in the order handlePipeline appends them.
Exchange(history, text) ==
    LET asked == Append(history, [speaker |-> "user", text |-> text])
    IN  Append(asked, [speaker |-> "assistant", text |-> StubLLM(asked)])

\* The events of one reply, all with the generation they belong to.
Reply(s, g) == << Event("ASSISTANT_SPEAKING", s, g), Event("AUDIO_READY", s, g),
                  Event("METRICS_UPDATE", s, g), Event("ASSISTANT_STOPPED", s, g) >>

\* handlePipeline: the session record after one turn.
AfterTurn(r, text) ==
    [r EXCEPT !.state = "thinking", !.activeGen = r.nextGen,
              !.nextGen = r.nextGen + 1, !.transcripts = Exchange(@, text)]

\* handlePipeline, bounded by MaxGeneration.
HandlePipeline(c, s, text) ==
    /\ session[s].nextGen <= MaxGeneration
    /\ session' = [session EXCEPT ![s] = AfterTurn(@, text)]
    /\ Return(c, Reply(s, session[s].nextGen))

-----------------------------------------------------------------------------
(* SessionManager.Handle, one action per event type *)

\* Mutant of StartSession: the generation in progress stays current.
StartKeepsGeneration(c, s) ==
    /\ known' = known \union {s}
    /\ session' = [session EXCEPT ![s] =
           [@ EXCEPT !.active = TRUE, !.connected = TRUE, !.state = "idle"]]
    /\ Return(c, <<>>)

\* Mutant of StartSession: an existing session is replaced by a new one.
StartForgets(c, s) ==
    /\ known' = known \union {s}
    /\ session' = [session EXCEPT ![s] =
           [Fresh EXCEPT !.active = TRUE, !.connected = TRUE, !.state = "idle"]]
    /\ Return(c, <<>>)

StartSession(c, s) ==
    /\ known' = known \union {s}
    /\ session' = [session EXCEPT ![s] =
           [@ EXCEPT !.active = TRUE, !.connected = TRUE,
                     !.state = "idle", !.activeGen = NoGen]]
    /\ Return(c, <<>>)

StopSession(c, s) ==
    \/ /\ s \in known
       /\ session' = [session EXCEPT ![s] =
              [@ EXCEPT !.active = FALSE, !.state = "idle", !.activeGen = NoGen]]
       /\ Return(c, <<>>)
       /\ UNCHANGED known
    \/ s \notin known /\ Refuse(c, s)

UserSpeechStart(c, s) ==
    \/ /\ RequireActive(s)
       /\ session' = [session EXCEPT ![s] = [@ EXCEPT !.state = "listening"]]
       /\ Return(c, <<>>)
       /\ UNCHANGED known
    \/ ~RequireActive(s) /\ Refuse(c, s)

UserSpeechEnd(c, s) ==
    \/ RequireActive(s) /\ HandlePipeline(c, s, VoiceText) /\ UNCHANGED known
    \/ ~RequireActive(s) /\ Refuse(c, s)

TextInput(c, s, text) ==
    \/ text = NoText /\ Refuse(c, s)
    \/ /\ text # NoText
       /\ known' = known \union {s}
       /\ HandlePipeline(c, s, text)

CancelResponse(c, s, g) ==
    \/ /\ RequireActive(s)
       /\ g # NoGen
       /\ g = session[s].activeGen
       /\ session' = [session EXCEPT ![s] =
              [@ EXCEPT !.activeGen = NoGen, !.state = "listening"]]
       /\ Return(c, <<>>)
       /\ UNCHANGED known
    \/ /\ ~RequireActive(s) \/ g = NoGen \/ g # session[s].activeGen
       /\ Refuse(c, s)

AudioChunk(c, s) ==
    \/ RequireActive(s) /\ Return(c, <<>>) /\ UNCHANGED <<known, session>>
    \/ ~RequireActive(s) /\ Refuse(c, s)

Ping(c, s) ==
    \/ /\ s \in known
       /\ Return(c, <<Event("PONG", s, NoGen)>>)
       /\ UNCHANGED <<known, session>>
    \/ s \notin known /\ Refuse(c, s)

\* Any other event type: "unsupported event type".
Unsupported(c, s) == Refuse(c, s)

\* An event without a session id is refused before the mutex is taken.
MissingSessionId(c) == Refuse(c, NoSession)

\* MarkDisconnected, called when a connection's read fails.
MarkDisconnected(s) ==
    /\ s \in known
    /\ session' = [session EXCEPT ![s] = [@ EXCEPT !.connected = FALSE]]
    /\ UNCHANGED <<known, result>>

Handle(c, s) ==
    \/ StartSession(c, s)
    \/ StopSession(c, s)
    \/ UserSpeechStart(c, s)
    \/ UserSpeechEnd(c, s)
    \/ \E text \in Texts \union {NoText} : TextInput(c, s, text)
    \/ \E g \in Generations : CancelResponse(c, s, g)
    \/ AudioChunk(c, s)
    \/ Ping(c, s)
    \/ Unsupported(c, s)

SMNext ==
    \/ \E s \in Sessions : MarkDisconnected(s) \/ \E c \in Callers : Handle(c, s)
    \/ \E c \in Callers : MissingSessionId(c)

SMSpec == SMInit /\ [][SMNext]_smVars

-----------------------------------------------------------------------------
(* Properties *)

\* Every variable has the type of its Go declaration.
SMTypeOK ==
    /\ known \subseteq Sessions
    /\ session \in [Sessions -> Session]
    /\ result \in [Callers -> Seq(ServerEvent)]

\* The conversation state and the other fields never disagree, whatever order
\* START, STOP, speech, text and CANCEL events of several connections arrive
\* in: thinking means that the newest generation is the current one, an idle
\* session has no current generation, only an active session listens.
ConversationStateConsistent ==
    \A s \in Sessions :
        LET r == session[s] IN
        /\ r.state = "thinking" => r.activeGen # NoGen
        /\ r.activeGen # NoGen => r.activeGen = r.nextGen - 1
        /\ r.state = "idle" => r.activeGen = NoGen
        /\ r.state = "listening" => r.active

\* Every generation left exactly one user and one assistant transcript, in
\* that order, and the assistant answered that user text; no restart of the
\* session loses or mixes turns (the conversation history the LLM is given).
TranscriptsPairUp ==
    \A s \in Sessions :
        LET r == session[s] IN
        /\ Len(r.transcripts) = 2 * (r.nextGen - 1)
        /\ \A k \in 1..(r.nextGen - 1) :
               /\ r.transcripts[2 * k - 1].speaker = "user"
               /\ r.transcripts[2 * k].speaker = "assistant"
               /\ r.transcripts[2 * k].text = r.transcripts[2 * k - 1].text

\* Two connections never hold replies of one session with the same generation
\* id, although a connection keeps its reply after the mutex is released.
RepliesHaveOwnGeneration ==
    \A c, d \in Callers :
        \A i \in DOMAIN result[c], j \in DOMAIN result[d] :
            LET e == result[c][i]
                f == result[d][j]
            IN  c # d /\ e.session = f.session /\ e.gen # NoGen => e.gen # f.gen

\* A generation that was cancelled, stopped or superseded never becomes the
\* current one again, so a late CANCEL_RESPONSE for it stays refused.
NoGenerationRevived ==
    [][\A s \in Sessions :
          /\ session'[s].nextGen >= session[s].nextGen
          /\ session'[s].activeGen \in
                 {NoGen, session[s].activeGen, session[s].nextGen}]_smVars

-----------------------------------------------------------------------------
(* Refinement: the turns are the user transcripts. *)

UserTurns(r) == [k \in 1..(r.nextGen - 1) |-> r.transcripts[2 * k - 1].text]

Abstract == INSTANCE Conversation WITH
    Sayings <- Utterances \ {NoText},
    turns <- [s \in Sessions |-> UserTurns(session[s])],
    current <- [s \in Sessions |-> session[s].activeGen]

\* Every call of Handle is a turn, a retirement or invisible in the abstract
\* conversation; in particular START_SESSION on an existing session neither
\* forgets its turns nor reuses their generation ids.
ImplementsConversation == Abstract!Spec

=============================================================================
