-------------------------------- MODULE ChatLog --------------------------------
(***************************************************************************)
(* What the page shows of a conversation: the chat log and the UI state of *)
(* the App (frontend/src/App.tsx), composed with the backend's sessions    *)
(* (SessionManager) over one WebSocket, which carries both directions in   *)
(* order and can be lost.  A question typed or spoken while an earlier one *)
(* is still on its way adds to the log before the earlier reply does.      *)
(*                                                                         *)
(* Abstractions.  Questions are numbered in the order in which they are    *)
(* asked.  A message keeps the question it was added for, the question     *)
(* whose words or answer its text is, and the one whose audio it offers; 0 *)
(* is none, and stands for the App's own wordings.  The backend handles a  *)
(* request and writes its whole reply in one step, since WSHandler shows   *)
(* that a connection carries each reply whole and in order.  While the     *)
(* connection is down, toServer is the queue of WSClient.                  *)
(***************************************************************************)
EXTENDS SessionManager, SequencesExt

CONSTANTS
    Page,           \* the session of this page
    Conn,           \* its connection
    MaxQuestions,   \* bound: questions asked
    MaxToggles,     \* bound: times the user starts, stops, retries or ends safely,
                    \* and stray events, together
    MaxFaults       \* bound: connections lost, backends started again, and events
                    \* from a backend that keeps to no order, together

ASSUME PageAssumption == Page \in Sessions /\ Conn \in Callers
\* handleSendText sends no text that is empty once trimmed.
ASSUME TextsAssumption == NoText \notin Texts
ASSUME ChatBounds ==
    MaxQuestions \in Nat /\ MaxToggles \in Nat /\ MaxFaults \in Nat

VARIABLES
    messages,       \* the chat log
    uiState,        \* the status shown
    voiceActive,    \* whether the voice input is on
    errorState,     \* whether the error dialog is shown
    sessionActive,  \* WSClient.sessionActive
    capture,        \* what the latest capture can still report
    outside,        \* the questions spoken while no session was active
    online,         \* whether the connection is open
    toServer,       \* requests sent and not yet handled
    toClient,       \* events written and not yet received
    count           \* how often each bounded thing happened

voiceVars == <<voiceActive, sessionActive, capture, outside>>
pageVars == <<messages, uiState, errorState, voiceVars>>
wires == <<online, toServer, toClient>>
chatVars == <<smVars, pageVars, wires, count>>

Questions == 0..MaxQuestions
Message == [speaker : {"user", "assistant"}, question : Questions,
            phase : {"none", "pending", "ready"}, placeholder : BOOLEAN,
            gen : Generations, stale : BOOLEAN,
            text : Questions, audio : Questions]
UIStates == {"idle", "listening", "thinking", "speaking"}
\* The latest capture hears the microphone, no longer does but can still report
\* the end of the utterance it was in, or reports nothing.
CaptureStates == {"live", "silent", "none"}

Request(type, n) == [type |-> type, question |-> n]
On(type, g, n, stale) == [type |-> type, gen |-> g, answers |-> n, stale |-> stale]

ChatInit ==
    /\ SMInit
    /\ messages = <<>> /\ uiState = "idle" /\ errorState = FALSE
    /\ voiceActive = FALSE /\ sessionActive = FALSE
    /\ capture = "none" /\ outside = {}
    /\ online = FALSE /\ toServer = <<>> /\ toClient = <<>>
    /\ count = [question |-> 0, toggle |-> 0, loss |-> 0, restart |-> 0, stray |-> 0]

-----------------------------------------------------------------------------
(* The chat log after each event *)

User(n) == [speaker |-> "user", question |-> n, phase |-> "none",
            placeholder |-> FALSE, gen |-> NoGen, stale |-> FALSE,
            text |-> n, audio |-> 0]
VoicePlaceholder(n) == [User(n) EXCEPT !.placeholder = TRUE, !.text = 0]
PendingAssistant(n) ==
    [User(n) EXCEPT !.speaker = "assistant", !.phase = "pending", !.text = 0]

\* The pending message added last, or 0.
LastPending(log) == SelectLastInSeq(log, LAMBDA m : m.phase = "pending")
OfGeneration(m, g) == m.speaker = "assistant" /\ g # NoGen /\ m.gen = g

\* Mutant of AfterSpeaking: each reply gets a message of its own.
AfterSpeakingAppends(log, e) == Append(log, [PendingAssistant(0) EXCEPT !.gen = e.gen])

AfterSpeaking(log, e) ==
    LET k == LastPending(log)
    IN  IF k = 0 THEN Append(log, [PendingAssistant(0) EXCEPT !.gen = e.gen])
                 ELSE [log EXCEPT ![k].gen = e.gen]

\* Mutant of Superseded: audio is offered whatever became of its reply.
NeverSuperseded(log, e) == FALSE

\* The reply was already shown as stale.
Superseded(log, e) ==
    \E i \in DOMAIN log : OfGeneration(log[i], e.gen) /\ log[i].stale

\* Audio of a reply that was already shown as stale is dropped; otherwise it
\* goes to its generation's messages, else to the last pending, else below all.
AfterAudio(log, e) ==
    LET offered(m) == [m EXCEPT !.phase = "ready", !.audio = e.answers]
        mine(m) == OfGeneration(m, e.gen)
        k == LastPending(log)
        g == IF e.gen = NoGen /\ k # 0 THEN log[k].gen ELSE e.gen
    IN  IF Superseded(log, e) THEN log
        ELSE IF \E i \in DOMAIN log : mine(log[i])
        THEN [i \in DOMAIN log |-> IF mine(log[i]) THEN offered(log[i]) ELSE log[i]]
        ELSE IF k = 0
        THEN Append(log, [offered(PendingAssistant(0)) EXCEPT !.gen = e.gen])
        ELSE [log EXCEPT ![k] = [offered(log[k]) EXCEPT !.gen = g]]

\* A text goes to the first message of its generation, else to the last
\* pending, else below all; a stale text takes the audio away.
AfterText(log, e) ==
    LET told(m) == [m EXCEPT !.phase = "ready", !.text = e.answers, !.gen = e.gen,
                             !.stale = e.stale, !.audio = IF e.stale THEN 0 ELSE @]
        own == SelectInSeq(log, LAMBDA m : OfGeneration(m, e.gen))
        k == IF own # 0 THEN own ELSE LastPending(log)
    IN  IF k = 0 THEN Append(log, told(PendingAssistant(0)))
                 ELSE [log EXCEPT ![k] = told(@)]

\* A transcript takes the place of the last voice placeholder, if there is one.
AfterTranscript(log, e) ==
    LET k == SelectLastInSeq(log, LAMBDA m : m.placeholder)
    IN  IF k = 0 THEN Append(log, [User(0) EXCEPT !.text = e.answers])
        ELSE [log EXCEPT ![k].text = e.answers, ![k].placeholder = FALSE]

\* onEvent
OnEvent(e) ==
    /\ messages' = CASE e.type = "ASSISTANT_SPEAKING" -> AfterSpeaking(messages, e)
                     [] e.type = "AUDIO_READY" -> AfterAudio(messages, e)
                     [] e.type = "ASSISTANT_TEXT" -> AfterText(messages, e)
                     [] e.type = "FINAL_TRANSCRIPT" -> AfterTranscript(messages, e)
                     [] OTHER -> messages
    /\ uiState' = CASE e.type = "ASSISTANT_SPEAKING" -> "speaking"
                    [] e.type \in {"ASSISTANT_STOPPED", "ERROR"} -> "idle"
                    [] e.type = "FINAL_TRANSCRIPT" -> "thinking"
                    [] e.type = "PARTIAL_TRANSCRIPT" -> "listening"
                    [] OTHER -> uiState
    /\ errorState' = (errorState \/ e.type = "ERROR")
    /\ UNCHANGED voiceVars

-----------------------------------------------------------------------------
(* The user *)

Counted(what, bound) ==
    count[what] < bound /\ count' = [count EXCEPT ![what] = @ + 1]
Toggled ==
    /\ count.toggle + count.stray < MaxToggles
    /\ count' = [count EXCEPT !.toggle = @ + 1]
Fault(what) ==
    /\ count.loss + count.restart + count.stray < MaxFaults
    /\ count' = [count EXCEPT ![what] = @ + 1]

Ask(request, added) ==
    /\ Counted("question", MaxQuestions)
    /\ toServer' = Append(toServer, Request(request, count.question + 1))
    /\ messages' = messages \o added
    /\ UNCHANGED <<smVars, uiState, errorState, voiceActive, sessionActive, online, toClient>>

\* handleSendText
SendText ==
    /\ ~voiceActive
    /\ LET n == count.question + 1
       IN  Ask("TEXT_INPUT", <<User(n), PendingAssistant(n)>>)
    /\ UNCHANGED <<capture, outside>>

\* capture.onSpeechEnd, which asks for a client and for nothing else.
\* USER_SPEECH_START changes nothing shown here.
SpeechEnds ==
    /\ capture \in {"live", "silent"}
    /\ LET n == count.question + 1
       IN  /\ Ask("USER_SPEECH_END", <<VoicePlaceholder(n)>>)
           /\ outside' = IF sessionActive THEN outside ELSE outside \union {n}
    /\ capture' = IF capture = "live" THEN "live" ELSE "none"

\* startSession and stopSession of the client, whose session id is set.
StartsSession ==
    /\ sessionActive' = TRUE
    /\ toServer' = Append(toServer, Request("START_SESSION", 0))
StopsSession ==
    /\ sessionActive' = FALSE
    /\ toServer' = Append(toServer, Request("STOP_SESSION", 0))

\* The capture, or its microphone, is stopped: what its port holds still comes.
Silenced == IF capture = "live" THEN "silent" ELSE capture

\* handleStart once the microphone is granted, as one step.
StartVoice ==
    /\ ~voiceActive
    /\ Toggled
    /\ \/ voiceActive' = TRUE /\ uiState' = "listening" /\ capture' = "live"
       \/ UNCHANGED voiceActive /\ uiState' = "idle" /\ capture' = Silenced
    /\ StartsSession
    /\ UNCHANGED <<smVars, messages, errorState, outside, online, toClient>>

\* handleStop
StopVoice ==
    /\ voiceActive
    /\ Toggled
    /\ voiceActive' = FALSE /\ uiState' = "idle" /\ capture' = Silenced
    /\ StopsSession
    /\ UNCHANGED <<smVars, messages, errorState, outside, online, toClient>>

\* handleAudioCaptureError on an error message of the worklet: the capture and
\* the session go on.
WorkletError ==
    /\ capture \in {"live", "silent"}
    /\ voiceActive' = FALSE /\ uiState' = "idle"
    /\ UNCHANGED <<smVars, messages, errorState, sessionActive, capture, outside,
                   wires, count>>

Retry ==
    /\ errorState
    /\ Toggled
    /\ errorState' = FALSE
    /\ IF voiceActive THEN StartsSession ELSE UNCHANGED <<sessionActive, toServer>>
    /\ UNCHANGED <<smVars, messages, uiState, voiceActive, capture, outside,
                   online, toClient>>

\* handleSafeEnd: the capture stays wired to a microphone that is stopped.
SafeEnd ==
    /\ errorState
    /\ Toggled
    /\ errorState' = FALSE
    /\ voiceActive' = FALSE /\ uiState' = "idle" /\ capture' = Silenced
    /\ StopsSession
    /\ UNCHANGED <<smVars, messages, outside, online, toClient>>

-----------------------------------------------------------------------------
(* The connection and the backend *)

HandleRequest(q) ==
    \/ q.type = "START_SESSION" /\ StartSession(Conn, Page)
    \/ q.type = "STOP_SESSION" /\ StopSession(Conn, Page)
    \/ q.type = "USER_SPEECH_END" /\ UserSpeechEnd(Conn, Page)
    \/ q.type = "TEXT_INPUT" /\ \E text \in Texts : TextInput(Conn, Page, text)

BackendHandles ==
    /\ online /\ toServer # <<>>
    /\ LET q == Head(toServer)
       IN  /\ HandleRequest(q)
           /\ toClient' = toClient \o
                  [i \in DOMAIN result'[Conn] |->
                      On(result'[Conn][i].type, result'[Conn][i].gen, q.question, FALSE)]
    /\ toServer' = Tail(toServer)
    /\ UNCHANGED <<pageVars, online, count>>

Receive ==
    /\ toClient # <<>>
    /\ OnEvent(Head(toClient))
    /\ toClient' = Tail(toClient)
    /\ UNCHANGED <<smVars, online, toServer, count>>

\* What is on the wire is lost, the log and the status stay as they are.  The
\* socket may report an error before it closes.
LoseWire ==
    /\ online
    /\ online' = FALSE /\ toServer' = <<>> /\ toClient' = <<>>
    /\ errorState' \in {errorState, TRUE}
    /\ UNCHANGED <<messages, uiState, voiceVars>>

ConnectionLost ==
    /\ Fault("loss")
    /\ LoseWire
    /\ IF Page \in known THEN MarkDisconnected(Page) ELSE UNCHANGED smVars

\* NewSessionManager: the sessions and their generation counters are gone.
BackendRestarts ==
    /\ Fault("restart")
    /\ LoseWire
    /\ known' = {}
    /\ session' = [s \in Sessions |-> Fresh]
    /\ result' = [c \in Callers |-> <<>>]

\* An attempt to connect fails with an error.
AttemptFails ==
    /\ ~online
    /\ errorState' = TRUE
    /\ UNCHANGED <<smVars, messages, uiState, voiceVars, wires, count>>

\* The socket opens: ensureSessionStartQueued, then the queue goes out.
Opens ==
    /\ ~online
    /\ online' = TRUE
    /\ toServer' =
           IF sessionActive /\ \A i \in DOMAIN toServer : toServer[i].type # "START_SESSION"
           THEN <<Request("START_SESSION", 0)>> \o toServer ELSE toServer
    /\ UNCHANGED <<smVars, pageVars, toClient, count>>

\* Any event of the protocol, in any order: what the App must withstand, and
\* the only source of the events this backend does not send yet.
StrayEvent ==
    /\ count.toggle + count.stray < MaxToggles
    /\ Fault("stray")
    /\ \E type \in {"ASSISTANT_SPEAKING", "AUDIO_READY", "ASSISTANT_TEXT",
                    "PARTIAL_TRANSCRIPT", "FINAL_TRANSCRIPT", "ASSISTANT_STOPPED",
                    "ERROR"} :
       \E g \in Generations, stale \in BOOLEAN :
           /\ g = NoGen => type = "AUDIO_READY"
           /\ stale => type = "ASSISTANT_TEXT"
           /\ OnEvent(On(type, g, count.question, stale))
    /\ UNCHANGED <<smVars, wires>>

ChatNext ==
    \/ SendText \/ SpeechEnds \/ StartVoice \/ StopVoice
    \/ WorkletError \/ Retry \/ SafeEnd
    \/ BackendHandles \/ Receive \/ StrayEvent
    \/ ConnectionLost \/ BackendRestarts \/ AttemptFails \/ Opens

ChatSpec == ChatInit /\ [][ChatNext]_chatVars

-----------------------------------------------------------------------------
(* Properties *)

\* Every variable has the type of its declaration.
ChatTypeOK ==
    /\ SMTypeOK
    /\ messages \in Seq(Message)
    /\ uiState \in UIStates
    /\ voiceActive \in BOOLEAN /\ errorState \in BOOLEAN
    /\ sessionActive \in BOOLEAN /\ online \in BOOLEAN
    /\ capture \in CaptureStates /\ outside \subseteq Questions
    /\ toServer \in Seq([type : {"START_SESSION", "STOP_SESSION",
                                 "USER_SPEECH_END", "TEXT_INPUT"},
                         question : Questions])
    /\ toClient \in Seq([type : EventTypes, gen : Generations,
                         answers : Questions, stale : BOOLEAN])

Asked == 1..count.question
Quiet == toServer = <<>> /\ toClient = <<>>

\* Nothing was lost so far, and nobody but the backend sent events.
Reliable == count.loss = 0 /\ count.restart = 0 /\ count.stray = 0

\* When every request was handled and every event received, no message is left
\* waiting, the status is not left at "speaking", and the audio of each question
\* typed, or spoken while the client had a session, is offered by exactly one
\* message, however questions and replies overlapped and whatever failed.
EveryReplyOffered ==
    Reliable /\ Quiet =>
        /\ uiState # "speaking"
        /\ \A i \in DOMAIN messages : messages[i].phase # "pending"
        /\ \A n \in Asked \ outside :
               \E i \in DOMAIN messages :
                   /\ messages[i].audio = n
                   /\ \A j \in DOMAIN messages : messages[j].audio = n => j = i

\* While one backend lives, and whatever is lost with connections, a generation
\* id names one message, although messages that lost theirs wait for ever.
GenerationNamesOneMessage ==
    count.restart = 0 /\ count.stray = 0 =>
        \A i, j \in DOMAIN messages :
            messages[i].gen # NoGen /\ messages[i].gen = messages[j].gen => i = j

\* While one backend lives, audio that a message offers is not exchanged for
\* other audio by a later event.
AudioStaysPut ==
    [][count.restart = 0 /\ count'.stray = 0 =>
           \A i \in DOMAIN messages :
               messages[i].audio # 0 => messages'[i].audio = messages[i].audio]_chatVars

\* "Stale replies: show the text only, do not play the audio", in whatever order
\* the text and the audio of a reply and of other replies arrive.
StaleHasNoAudio ==
    \A i \in DOMAIN messages : messages[i].stale => messages[i].audio = 0

-----------------------------------------------------------------------------
(* What the documents say and the code does not do *)

\* "The user's words and the assistant's replies are shown in the order of
\* time": further down the log there are answers to later questions.
RepliesChronological ==
    \A i, j \in DOMAIN messages :
        i < j /\ messages[i].audio # 0 /\ messages[j].audio # 0
            => messages[i].audio < messages[j].audio

\* "Continue the conversation session when reconnecting": what was said while
\* the session was on is not refused because the connection was lost.
UtterancesHeard ==
    \A i \in DOMAIN toClient :
        toClient[i].type = "ERROR" => toClient[i].answers \in outside \union {0}

\* Every question shown in the log gets its answer: one that a stopped capture
\* still reports is refused, and its placeholder stays.
EveryQuestionAnswered ==
    Reliable /\ Quiet =>
        \A n \in Asked : \E i \in DOMAIN messages : messages[i].audio = n

=============================================================================
