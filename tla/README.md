# A verification project for offline-voice-chat

These TLA+ modules model the concurrent core of the offline voice chat: the Go
backend that keeps the conversations, and the browser page that talks to it.
TLC checks them on small instances. TLAPS proves every safety property that those
runs check for every instance: of the sessions and their handlers, of the client, of
client and backend together, of the voice input and its audio, of the chat log and of
the page's status.
Paths are relative to the repository.

## 1. The system

A page records the user's voice or takes typed text, sends it over one
WebSocket to the backend, and shows and offers the replies. The backend keeps
the conversation sessions; its speech and language services are still stubs.

| Component | Source | State | Operations |
| --- | --- | --- | --- |
| Session manager | `backend/internal/server/session_manager.go` | map of sessions: state, active, connected, active generation, next generation, transcripts | `Handle` (one case per client event), `MarkDisconnected`, the stub pipeline |
| WebSocket handler | `.../ws_handler.go`, `events.go`, `ws.go` | per connection: last session, the audio chunk that waits for its binary frame and its 200 ms timer | handshake, read loop, `startPending`, `clearPending`, timer callback, writes |
| Boundary policy | `.../boundary.go` | the allowed ranges | `AllowsIP`, `ScopeForIP`, `remoteIP` |
| Server configuration | `.../config.go`, `server.go` | `audioChunkMs` | `LoadServerConfig`, `NewMux` |
| WebSocket client | `frontend/src/lib/wsClient.ts` | socket, state, queue, reconnect timer, `closedByUser`, session id and whether it is active | `connect`, `disconnect`, the send methods, socket events, the timer |
| Shared client manager | `frontend/src/lib/wsClientManager.ts` | shared client and its handlers, reference count, 100 ms grace timer | `acquireWSClient`, `releaseWSClient` |
| Voice input control | `frontend/src/App.tsx`, `audioCapture.ts` | button, error dialog, microphone stream, current `AudioCapture` | `handleStart`, `handleStop`, `handleRetry`, `handleSafeEnd`, `AudioCapture.start/stop` |
| Voice activity detection and chunking | `frontend/src/lib/vadWorklet.ts`, `audioCapture.ts` | frame counters, message port, samples that fill no chunk yet | `process`, `port.onmessage`, `handleAudioFrame` |
| Chat log and UI state | `frontend/src/App.tsx` | messages, status | `onEvent`, `handleSendText`, voice placeholders |
| Audio settings of the page | `frontend/src/App.tsx` | `audioChunkMs`, whether CONFIG came, notice, warning timer | `onConnectionChange`, CONFIG, `scheduleConfigWarning` |
| Boundary and error display of the page | `frontend/src/App.tsx` | boundary, error state, and the banner they share with notices | BOUNDARY_STATUS, ERROR, `onError`, `handleRetry`, `handleSafeEnd` |

Not modelled: rendering and styles, clipboard and playback buttons (no state
that other parts depend on); the mock services (stateless HTTP stubs that the
backend does not call); `cmd/server`, containers and build files.

How the parts interact. The App acquires the shared WSClient and registers
callbacks for events, errors and the connection's state. WSClient sends JSON
events over one WebSocket and queues them while it is closed; audio chunks are a
metadata event and a binary frame. On the backend each connection has a handler
goroutine, and all of them call one SessionManager, which is serialised by a
mutex; what `Handle` returns is written after the mutex is released. A chunk's
timer runs in a goroutine of its own and shares a small mutex with the handler.
In the browser everything runs in one thread, except the audio worklet, which is
joined to the page by a message port.

What is hard, and what must hold in spite of it:

| Behaviour | Correct when |
| --- | --- |
| several connections use one session | state, active generation and history agree; turns are neither lost nor mixed; generation ids are unique and never become current again |
| events are written after the lock is released | replies reach their connection whole and carry ids of their own |
| a chunk's timer races the handler | metadata and binary frames pair up one to one; a timer gives up only its own chunk |
| sockets close late, fail, and are replaced | queued events go out once and in order; the session is announced on every connection; a lost connection is followed by another attempt |
| client and backend learn separately that a connection is gone; the backend forgets everything | whenever nothing is on the way both ends agree about the session; utterances of an active session are accepted; an active session reaches the backend in the end |
| mounts and unmounts race a grace timer | a mounted component is never cut off, one that is gone is never called; an unused client is disconnected in the end |
| the user acts between the awaits of a start | there is one active capture; stopping releases the microphone; voice that is on has its session and hears a microphone; what hears a microphone has its session |
| questions and replies overlap; a stopped capture still reports; connections and the backend go away | each reply settles one message, its audio is offered once and never exchanged, a stale one offers none |
| the page lags behind the worklet | utterances follow the definition, each is reported once, and their samples are neither lost nor mixed |
| an address lies at the edge of an allowed range, or is written as IPv6 | it is served only when RFC 1918 or localhost holds it, and nothing of a served page shows on another |
| CONFIG is late, or comes over another socket than the one that was lost | the page uses the backend's value exactly when it says so, and says so when it does not |

PROJECT.json lists each hazard at the line where it bites, with the properties
that would catch it.

## 2. The modules

```
Conversation  <-- implemented by --  SessionManager
                                      ^     ^     ^
                              WSHandler     |     ChatLog
                                        (INSTANCE)
WSClientManager --> WSClient  <--------  EndToEnd

PageStatus --> AudioConfig, Boundary      VoiceInput      AudioFrames

WSHandler_proofs, ChatLog_proofs   --> SessionManager_proofs
EndToEnd_proofs                    --> WSClient_proofs --> WSClientManager
VoiceInput_proofs    AudioFrames_proofs    PageStatus_proofs
(MC... : instances for TLC)
```

Arrows are EXTENDS unless labelled; each module named `..._proofs` extends the module
it is about, with what it says of it in section 4. WSClient_proofs is about the client
and about its manager, and EndToEnd_proofs also has an INSTANCE of
SessionManager_proofs. PROJECT.json's `map` gives the source lines
of every definition. Operators whose comment begins "Mutant of" are
wrong versions of the definition that follows them: putting one in its place
must make TLC refute the property that PROJECT.json names for it, which
shows that the property depends on that piece of code.

**Conversation** is what the backend promises: a conversation is the sequence of
the user's turns, turn *n* is answered under generation *n*, and at most the
generation of the last turn is current. It has only `Ask` and `Retire`.

**SessionManager** has one action per case of `Handle` and one for
`MarkDisconnected`. `Handle` holds the mutex throughout, so a call is one step.
What it returns stays in `result` of its caller, because the handler uses it
after the mutex is released. A generation id `gen-N` is the number N; an
assistant's text is the user's text it answers, which `stubLLM` has to find in
the history. An error is the ERROR event the handler makes of it. Under the
mapping *turns = user transcripts, current = active generation* it implements
Conversation.

**WSHandler** composes SessionManager with one goroutine per connection (`pc` is
where it is in `ServeHTTP`) and the timers. A critical section of the `pending`
mutex is one step, so the check of `hasPending` (part of reading a frame) and
`clearPending` are two; `TimerFires` is the start of a callback, which
`timer.Stop` cannot take back, and `GiveUp` its critical section. Events are
written one by one. A read may fail or yield any frame; a failed write is a
write, as the code ignores its error. `AllowsIP`, which Boundary models, is the
constant `LocalCallers` here.

**WSClient** has one action per method, socket event and timer callback, since
JavaScript runs each to its end. A socket is not atomic: `close()` only starts
the closing handshake and its close event comes when it likes, also after the
client has another socket. The open listener flushes over `this.socket`, which
need not be the socket that opened. An event is its type, its session and its
number in the order of the App's calls. Its constants are assumed to be what they
stand for: `null` is no session id, and the types of the App's other events are not
those of `startSession` and `stopSession`.

**WSClientManager** composes WSClient with the reference count, the grace
timer and the component whose handlers the client calls. The page uses one URL, so
the shared client is never replaced. Components
call the client's methods while they are mounted; only the grace timer calls
`disconnect()`.

**EndToEnd** joins WSClient to an INSTANCE of SessionManager, one goroutine per
socket. A socket carries the client's events in order; the goroutine handles them
as late as it likes (`read` counts them), even after the client has moved to
another socket, and what it has not read when its end of the connection goes is
lost. Three ways lead there: the goroutine sees the client's end close
(`ReadFails`), the connection breaks at the backend first (`ConnectionDrops`, after
which the client goes on sending into nothing until `PeerGone`), or the backend is
started again (`ServerRestarts`). `promised` records the utterances of an active
session that the user did not take back by stopping before they were sent;
`orderly` records whether each connection began after the earlier ones had ended
at the backend.

**VoiceInput** models each call of `handleStart` with the AudioCapture it creates.
The code between two awaits that wait for the browser is one step; the browser
grants or refuses the microphone, settles the playback and loads the module or
fails to, in any order among several starts. A capture that hears a live microphone may
report at any time; one that was stopped, or whose microphone was, may still report
what its port and its worklet hold, up to `MaxLate` times (`Reports`), since
`port.onmessage` stays set. `overlapped` records whether the
user ever acted while a start was waiting, `hasty` whether that was ever anything but
another press of the start button, `troubled` whether a capture ever failed or
reported an error. `Unmount` is the cleanup of the App's effects. The page's `getUserMedia` answers
a capture with the stream the App has, if it has one.

**ChatLog** composes the chat log with SessionManager over one connection that
carries both directions in order and can be lost; the backend may be started
again, which empties its memory. A message remembers which question it was added
for and whose answer and audio it shows, so that a swap can be seen. Of the voice input
it has what reaches the log or the session: starts, stops, the worklet's errors, retries
and safe ends, and a capture that can still report the end of an utterance after it was
stopped (`capture`); `outside` holds the questions that were reported while the client had
no session. A request is
handled and answered in one step: `RepliesWrittenWhole` of WSHandler is what
allows that. The backend does not send every event of the protocol yet
(texts, transcripts); `StrayEvent` delivers any event of it at any time.

**AudioFrames** models the worklet's counters on loud and quiet frames, the port
(ordered, arbitrarily late, still delivering after `stop()`) and the chunk buffer,
with samples numbered so that loss and mixing can be seen. `SpeechAfter` defines
an utterance from the frames alone.

**AudioConfig** models `LoadServerConfig` with NewMux's fall back, the CONFIG event,
the warning timer, and the value an AudioCapture gets, beside as much of WSClient as
decides what the App is told: several sockets may be there at a time, and the message,
open and close callbacks of each reach the App. **Boundary** models the
policy as functions of an address's sixteen bytes, as package net represents it, so that
IPv4-mapped and IPv6 addresses are what the library makes of them; its reference
definition (`InBoundary`) lists the first and last addresses of RFC 1918 and 127.0.0.0/8,
as `design.md:558` does, without ::1. **PageStatus**
puts both together for a page at some address: the handshake that accepts or
refuses it, the two first events in their order, the error state, and the banner in
which a notice hides the error and its two buttons.

## 3. The runs

Twelve configurations: seven that TLC finishes without an error and five that
show the code disagreeing with a document or a comment.

| Run | Instance | What it shows |
| --- | --- | --- |
| WSHandler | 2 sessions, 2 connections, 2 frames on each, every type of frame for either session or without one, 3 generations | records stay consistent, histories pair up, ids are unique and never revived; SessionManager, called by the handlers, implements Conversation; the timer race, one-to-one pairing, whole replies |
| WSClientManager | 2 components, 2 `connect` (by a mount or by Retry), 2 failures, 2 events, 1 chunk (6 sockets) | order and single delivery over all sockets, announcement, reconnection, the queue drains; the grace timer never cuts a mounted component off, one that is gone is never called; an unused client is disconnected; with a single `connect` one live socket, an honest state and a final `disconnect` |
| EndToEnd | 1 `connect`, 2 failures (failed or broken connections, restarts), 4 events, speech and text | while connections do not overlap at the backend: both ends agree about the session, an active one is connected, its utterances are accepted and it reaches the backend |
| VoiceInput | 3 starts, overlapping or not, 1 late report of each capture | one active capture, voice implies session; for a patient user microphones are released, voice hears one, and what hears one has its session |
| ChatLog | 3 questions, 2 starts, stops, retries, safe ends or stray events, 1 loss, restart or stray event | every reply is offered once and its status ends, generations name one message, audio stays put, stale means silent |
| AudioFrames | 11 frames of 2 samples, thresholds 2 and 3, chunks of 3 samples, 3 messages in the port | detection and reports match the definition, chunks are contiguous |
| PageStatus | 12 addresses inside and outside the ranges and of IPv6; files 50, 51, broken; environment 19, 40, absent; 2 sockets at a time, any number of reconnections | only pages of the documented ranges and of ::1 are served; the page is honest about the value; a missing CONFIG does not stay unnoticed |
| WSClientRetry | 2 `connect`, 1 failure | violated: two live sockets |
| EndToEndContinued | 1 `connect`, 2 failures, 3 events | violated: an utterance is refused after a reconnection |
| VoiceInputDouble | 2 starts | violated: a microphone stays open |
| ChatLogOrder | 2 questions | violated: replies under each other's questions |
| PageStatusIPv6 | as PageStatus | violated: a page at ::1 is served |

Why the bounds are enough. Two callers are enough for every pairwise race on a
session, two sessions for one record mistaken for another, and three generations for
superseding, cancelling and a stale id; the
theorems remove these bounds. Two frames give a chunk followed by its binary
frame, by another chunk or by any request, with the timer of the first at any
point between, and let one connection overtake, stop or restart the session of
the other. All connections of this run are inside the boundary; refused ones are in
PageStatus. Six sockets give two failures, a second `connect` racing
the reconnect timer, two disconnections and a late close event together; two
events are enough to see one overtake the other. In EndToEnd two failures lose an
event and then the backend's memory, or the memory twice, and four events are a
start, a stop and a start with an utterance between any of them; with two calls of
`connect()` and fewer failures or events TLC finds the same properties to hold. Three starts give a failed or stopped one, a newer
one and one that still waits. Three questions give two replies overlapping a
third; one loss, restart or stray event may fall between any two other
steps, and two of the user's actions are a start with a stop, a retry or a safe end
behind it (a stray event, which interrupts at every point with every event of the
protocol, takes the place of one of the two). One late report is enough for an utterance that begins or ends after
the stop. Eleven frames give two complete utterances with a pause shorter than the
threshold, and a chunk length that does not divide a frame exercises the remainder.
The configured values are those at both edges, beside them and within, and the
addresses those at both sides of edges of each kind; the theorem `PolicyExact` covers
the others. Two sockets at a time
are one that is lost and one whose CONFIG is still to come.

Deadlock is not checked in runs whose system may really stop: connections close,
users run out of bounded actions, and microphones are silent.

### Fairness

Safety needs none, and liveness is stated where the scheduling is the platform's:

- WSClientManager (`QueueDrains`): every socket opens, fails or finishes its closing
  handshake, and the reconnect timer fires. Browsers guarantee both. Nothing
  makes a connection succeed: that it does in the end follows from the bound on
  failures, that is, from the network recovering.
- WSClientManager (`UnusedDisconnects`): the grace timer fires.
- EndToEnd (`SessionReachesServer`): the browser settles a socket that connects, one
  way or the other, finishes a closing handshake and runs the timer; a goroutine whose
  connection has something to read, or has ended, runs, which is Go's scheduler;
  and each end of a connection learns in the end that the other is gone, by a close
  frame, a reset or a time-out of TCP. Nothing makes an open connection fail or an
  attempt to connect succeed.
- PageStatus (`ConfigOrNotice`): the warning timer fires. CONFIG may never come.

No fairness is assumed of users, clients or the network. That a pending chunk is
given up in the end is stated as a safety property (`PendingHasTimer`: its own timer
runs, or its callback waits for the mutex). That answers of the browser arrive
(a permission dialog may stay open for ever) is not assumed at all.

### Disagreements

The five runs that are violated are the findings of PROJECT.json:

1. After a reconnection the session can be continued (`requirements.md:95`), and
   `ensureSessionStartQueued` puts START_SESSION at the head of the queue for that,
   but not if one is queued already, wherever it stands. Pressing Retry while
   offline starts the session again *behind* an utterance that waits in the queue; a
   backend that has restarted meanwhile gets the utterance first and refuses it.
   As long as connections do not overlap at the backend, `UtterancesAccepted` shows
   that this is the only way.
2. `connect()` starts a connection "only while not connected" (`wsClient.ts:124`).
   It looks at the socket and not at the reconnect timer, so pressing Retry while a
   reconnect is planned opens a socket and the timer opens another. A later
   `disconnect()` then closes one of them only.
3. No audio is taken in while the voice input is stopped (`requirements.md:25`).
   Nothing keeps `handleStart` from running twice at once: a button pressed twice
   before the permission is granted asks for two streams, the second
   replaces the first in `micStreamRef`, and a stop, made when both starts are done,
   leaves the first one open. `SettledStopReleasesMic` is about such a user only, who does
   nothing but press the start button again while a start waits.
4. The chat shows words and replies in the order of time (`ui/ui-spec.md:43`).
   ASSISTANT_SPEAKING gives its generation to the *last* pending message, so
   two questions in flight get each other's replies.
5. IPv6 is not allowed (`design.md:558`; `requirements.md:111` and `:114` say RFC 1918 and
   127.0.0.0/8). `AllowsIP` asks `net.IP.IsLoopback` first, which ::1 is as well, and
   serves a page there. `OnlyLocalServed` and `PolicyExact` show that ::1 is the only
   address outside the documented ranges.

Most modules end with a section of what the documents say, or one might expect,
and the code does not do. TLC refutes the other formulas of those sections too; they have no run of
their own, and are put into the module's passing configuration to see the behaviour:

| Formula | What happens |
| --- | --- |
| `OldAudioNotSent` (WSHandler) | "the newest generation is kept and the audio of older replies is not sent" (`design.md:464`): the write loop does not look at the session again after `Handle` returned, so AUDIO_READY of a reply that was superseded or stopped over another connection still goes out |
| `ClosedMeansDisconnected` (WSHandler) | a malformed frame closes the connection without `MarkDisconnected`; the session stays connected |
| `LiveMeansConnected` (WSHandler) | the late read error of an old connection marks a session that a new one has started |
| `LateEventsHarmless` (EndToEnd) | a STOP_SESSION that the old connection delivers late ends the session started again over the new one |
| `StopReachesServer` (EndToEnd) | a STOP_SESSION sent on a dying socket is lost and never repeated; the session stays active at the backend |
| `SessionStartsWhileVoiceOn` (VoiceInput) | a start that was stopped while it waited starts the session all the same |
| `NoSpeechAfterStop` (VoiceInput) | "while stopped the sending is suspended" (`tasks.md:94`): `port.onmessage` stays set, so the beginning or the end of an utterance that the port or the worklet of a stopped capture still holds is reported, and sent, to a stopped session, also for a patient user |
| `VoiceHearsMicrophone` (VoiceInput) | after a failed start the App keeps the reference to the dead stream; the next start hears nothing |
| `UnmountReleasesMic` (VoiceInput) | a start that waits while the page goes away opens a microphone that nobody stops |
| `UtterancesHeard` (ChatLog) | an utterance queued before a stop reaches a restarted backend without START_SESSION and is refused |
| `EveryQuestionAnswered` (ChatLog) | the end of an utterance that a stopped or still wired capture reports adds a placeholder to the log and goes to a stopped session, which refuses it; the question is never answered although nothing was lost |
| `QuietAfterStop` (AudioFrames) | messages left in the port are reported after `stop()` |
| `CaptureUsesConfig` (AudioConfig) | CONFIG that arrives during the awaits of a start does not reach its capture |
| `ResetWhileConnecting` (AudioConfig) | after the loss of one socket has reset the settings, CONFIG of another one arrives and stays while the client connects again |
| `EnvironmentOverrides` (AudioConfig) | with a broken file the environment is not looked at |
| `ErrorEndsWithReconnection` (PageStatus) | the error of a lost connection stays on the page after the client has reconnected by itself, until the user presses one of its buttons |

`GenerationNamesOneMessage` and `AudioStaysPut` hold while one backend lives. Without
the condition on restarts TLC refutes both: a backend that is started again
issues gen-1 again, while the page keeps its session id and its log.

## 4. What is proved

The theorems assume only what the modules' ASSUMEs say: bounds are natural numbers, a
page and its connection are among the sessions and callers, local callers among the
callers, thresholds, frames and rates are positive, an absent id or text is none of
those there are. Where the page's single session
id is needed, the theorem says so (`OnePage`).

### The conversations

`SessionManager_proofs` proves, for any sets of sessions, callers and texts and
any bound on generations:

| Theorem | Statement |
| --- | --- |
| `TypeCorrect` | `SMSpec => []SMTypeOK` |
| `InductiveInvariant` | `SMSpec => []IInv` |
| `StateConsistent` | `SMSpec => []ConversationStateConsistent` |
| `HistoryPairsUp` | `SMSpec => []TranscriptsPairUp` |
| `OwnGenerations` | `SMSpec => []RepliesHaveOwnGeneration` |
| `GenerationsNotRevived` | `SMSpec => NoGenerationRevived` |
| `Refinement` | `SMSpec => ImplementsConversation` |

The assumptions are that `MaxGeneration` is a natural number and that the text
every utterance is heard as is not the empty one (`stubTranscriptText` is a
constant of the source).

The argument. `StepShape` reduces the ten actions to two kinds of step: a *turn*
(`handlePipeline`), and a *quiet* one, which returns no generation and leaves one
of five forms of a record or none changed. Everything else is proved about these.
`RepliesHaveOwnGeneration` is not inductive: a caller might hold the id that
the next turn is about to issue. `IInv` therefore adds `RepliesIssued`, that every
generation still held by a caller is below the session's counter. The consistency
of a record and the pairing of its transcripts are put together in `RecordOK`, since
the length of the history, 2(n - 1), is what places the next pair.
`ExchangeAppends` shows that `stubLLM` finds the text just asked, and
`UserTurnsAppend` that a turn appends one user turn to the mapped history; with
them a turn is `Ask` and a quiet step is `Retire` or a stutter.

### The boundary and the page's status

`PageStatus_proofs` proves, for every address and any settings:

| Theorem | Statement |
| --- | --- |
| `PolicyExact` | `AllowsIP(ip) <=> InBoundary(ip) \/ ip = Loopback6` for every address and one that does not parse |
| `LocalOnly` | `PageSpec => []OnlyLocalServed` |
| `SettingsHonest` | `PageSpec => []ConfigHonest` |

The only assumption is that a page's address is sixteen bytes or did not parse.
`MaskedByte` says what a mask does to one byte; with it `AllowedRanges` and
`ReferenceRanges` bring the masks and the first and last addresses to the same
conditions on two bytes. `OnlyLocalServed` is not inductive, as it does not speak of
events on their way; `PInv` adds them and says that whatever the page has it has
because the policy allowed its address. Only `Accepted` serves, and it asks the policy.
`ConfigHonest` needs one fact more, that a CONFIG on its way belongs to a socket that is
open: it arrives only while the client has another socket than those it connects. With
several sockets at a time no more than that is true (`ResetWhileConnecting`).

### The WebSocket handler

`WSHandler_proofs` proves, for any number of connections, frames and sessions:

| Theorem | Statement |
| --- | --- |
| `ChunkInvariant` | `Spec => []ChunkInv` |
| `ChunksTimeOut` | `Spec => []PendingHasTimer` |
| `ChunksPairUp` | `Spec => []PendingChunkIsNewest` |
| `TimeoutIsOwn` | `Spec => TimeoutGivesUpOwnChunk` |
| `HandlerInvariant` | `Spec => []HInv` |
| `WholeReplies` | `Spec => []RepliesWrittenWhole` |
| `SessionsStayConsistent` | the three safety properties of SessionManager, in the composition |
| `HandlerRefinement` | `Spec => ImplementsConversation` |

Two arguments that do not need each other. `ChunkInv` is about one connection's
chunk. The properties say when a timer runs, but nothing of callbacks that were
already started when `timer.Stop` came too late; `TokensNameChunks` says that each of
them belongs to an older chunk, or carries the sequence of the last one while no other
timer runs. That is why what the callback compares is enough.
`WriteInv` is about replies: what a connection still has to write is a whole rest of
what `Handle` returned, and what it wrote last is what comes before that rest. A step
of the composition is a step of SessionManager, or takes one event off a caller's
result (`SessionStep`); the second kind keeps `IInv` and is a stutter of Conversation.

### The client and its manager

`WSClient_proofs` proves, for any sockets, events and session ids:

| Theorem | Statement |
| --- | --- |
| `ClientInvariant`, `ClientTypeCorrect` | `WSSpec => []ClientInv`, `WSSpec => []WSTypeOK` |
| `EventsKeepOrder` | `WSSpec => []NothingLostOrReordered` |
| `AlwaysReconnects` | `WSSpec => []ReconnectPlanned` |
| `OneLiveSocket`, `StateTold`, `DisconnectIsFinal` | `WSSpec => []` of `ReconnectsOneAtATime`, `StateHonest`, `DisconnectStops` |
| `SessionAnnounced` | `OnePage => (WSSpec => []ActiveSessionAnnounced)` |

`SocketInv` is what the others rest on: the client never keeps a settled socket,
keeps none and no timer after `disconnect()`, and has an empty queue while its socket
is open. The last is why nothing is overtaken: an event that is sent at once
finds nothing queued before it. `Complete` says of the log of what was sent and
queued what `NothingLostOrReordered` says; appending the next number keeps it
(`LogAppend`), and so does a START_SESSION of the client's own between what
was sent and what was queued (`LogInsert`). `OneConnection` strengthens the
properties of a single `connect()`: a socket that is not settled is the client's or
is closing after `disconnect()`, and the timer runs only when all sockets are
settled. `OnePage` says that there is one session id, as the page creates it once
(`App.tsx:228`); with two, an event for the other session may be the first on a socket.

All of this is proved for `ClientStep`, which allows every step of WSClient and a few
more. Hence it holds in the compositions as soon as their steps are shown to be among
them. The last section of the module does that for the manager: `SharedClientWorks` (the
client's properties but the announcement while components come and go), `SharedSessionAnnounced`, and
`ComponentsStayConnected`: `ManagerSpec => []MountedStaysConnected`, which becomes
inductive together with the finiteness of the set of mounted components, as does
`OnlyMountedAreCalled` (`GoneAreNotCalled`). In
`EndToEnd_proofs`, `ClientBesideBackend` and `AnnouncedToBackend` do the same for the
client beside the backend. `ReconnectsOneAtATime`, `StateHonest` and `DisconnectStops`
speak of a client that connected once (`ConnectedOnce`); finding 2 shows why.

### Client and backend together

`EndToEnd_proofs` proves, for any number of sockets, of failures, restarts and events:

| Theorem | Statement |
| --- | --- |
| `EndInvariant` | `OnePage => (Spec => []EndInv)` |
| `BothEndsAgree` | `OnePage => (Spec => []SessionsAgree)` |
| `ConnectedIsHonest` | `OnePage => (Spec => []ConnectedHonest)` |
| `AcceptedUtterances` | `OnePage => (Spec => []UtterancesAccepted)` |
| `ClientBesideBackend` | `Spec => []` of the client's own properties but the announcement |
| `AnnouncedToBackend` | `OnePage => (Spec => []ActiveSessionAnnounced)` |

`SessionsAgree`, the second part of `ConnectedHonest` and `UtterancesAccepted` are
guarded by `orderly`: each connection began after the earlier ones had ended at the
backend. Without it a late event or a late read error of an older connection breaks each
of them (`LateEventsHarmless`, `LiveMeansConnected` in section 3). Beside it, a lost
STOP_SESSION is the one exception that `SessionsAgree` makes, and a START_SESSION that the
App sent again behind the utterance the one of `UtterancesAccepted`.

The properties speak of quiet moments; what makes them true is what is on the way
before. `EndInv` therefore follows a *segment* of a socket or of the queue, the
events behind the n-th up to the m-th: `ActiveAfter` tells whether the session will be active
once it has been handled, given whether it was before. Its parts are: what
the connection in use has still to deliver leaves an active session active, and
connects it (`ActiveInv`); what it and then the queue deliver leaves a stopped session
stopped, if no STOP_SESSION was lost (`StoppedInv`); each promised utterance finds the session active
at its own place, or has a later START_SESSION of the App behind it
(`Awaited`); a queue does not end a session that is active, has the client's own
START_SESSION at its head only, and has its promised utterances behind a start
once one was put there (`QueueInv`). The lemmas about segments say what an event more
at either end does to them; with these `CallEffect` (what each case of `Handle` does to
the one session) shows that handling an event leaves every forecast as it was
(`ReadConn`). `orderly` is what lets one connection decide: with two at once, what
the older one still delivers may come between, which is how `LateEventsHarmless` of
section 3 fails. A lost STOP_SESSION is the only way for a stopped session to stay
active: whatever else a connection takes with it, an unread rest without a stop makes
nothing inactive, so what was inactive behind it was so before. The backend's types come from `SessionManager_proofs`.

### The voice input

`VoiceInput_proofs` proves, for any number of starts:

| Theorem | Statement |
| --- | --- |
| `Invariant`, `TypeCorrect` | `Spec => []IInv`, `Spec => []TypeOK` |
| `OneCapture` | `Spec => []OneActiveCapture` |
| `VoiceOnHonest` | `Spec => []VoiceOnWorks` |
| `MicReleased` | `Spec => []PatientStopReleasesMic` |
| `HeardInSessions` | `Spec => []HeardInSession` |

`OneActiveCapture` is inductive with the types; the others need to know which
streams exist. `StreamsFresh` says that a stream nobody has asked for yet is nowhere
to be found, `PatientUser` that, as long as the user never acted while a start
waited, one start waits at a time, the only live microphone is the App's, and a wired capture that
hears it has a session, and `UndisturbedStart` where a start that met no error has got to.
`HeardInSession` promises a session to captures that hear a microphone, and no more is
true: what a stopped capture still reports comes when there is none (`NoSpeechAfterStop`).

### The chat log

`ChatLog_proofs` proves, for any number of questions, losses, restarts and stray events:

| Theorem | Statement |
| --- | --- |
| `ChatInvariant`, `ChatTypeCorrect` | `ChatSpec => []ChatInv`, `ChatSpec => []ChatTypeOK` |
| `StaleStaysSilent` | `ChatSpec => []StaleHasNoAudio` |
| `GenerationsApart` | `ChatSpec => []GenerationNamesOneMessage` |
| `OfferedAudioStays` | `ChatSpec => AudioStaysPut` |

Every event changes or adds one message at most (`Puts`), found by SequencesExt's
searches, of which the module proves what they return. `MessageOK` is what makes
`StaleHasNoAudio` inductive, in whatever order events come: a message that waits for its
reply is not stale and offers nothing. `Named` relates the log to the wire while one
backend lives and no stray event came: generations arrive in increasing order and below
the counter, an announced one is above all that the log names, and so is one
whose audio is on its way above those whose audio the log offers. Hence an event never
names a message that another has, and never exchanges audio. The properties excuse restarts
and stray events in the same way.

That every question gets its reply needs an account of all places at once, while
nothing is lost and only the backend sends events (`Reliable`, as the property says):

| Theorem | Statement |
| --- | --- |
| `AnsweringInvariant` | `ChatSpec => [](ChatInv /\ (Reliable => Answering))` |
| `RepliesOffered` | `ChatSpec => []EveryReplyOffered` |
| `RefusalsAreLate` | while `Reliable`, an ERROR on the wire answers a question of `outside`, or none |

What a capture reports while the client has no session (`outside`) is refused, and its
placeholder stays; `EveryReplyOffered` is about all other questions, and has to hold
although refused ones stand between them.

`Answering` has six parts. An utterance on the wire finds the session open exactly when it
is none of `outside` (`Welcome`), however starts, stops and safe ends follow each other,
hence nothing else is refused (`Sorted`). Each question asked in a session is in one
place: still on its way
to the backend, or its reply is on its way back, or the log has it (`Flow`). A reply on
the wire is whole, from the event that announces it to the one that ends it
(`Whole`). The status "speaking" has its ASSISTANT_STOPPED behind it. The sixth is a
count. A message that waits for a reply cannot be tied to the reply it will get, since
ASSISTANT_SPEAKING takes the *last* one that waits (finding 4), so `Balanced` compares
numbers: no more messages wait than questions are due. When both wires are
empty nothing is due, hence none waits. `TextsAssumption`, that the empty text is none
of the texts, is what `handleSendText` ensures (`App.tsx:748-751`).

### The audio

`AudioFrames_proofs` proves, for any thresholds, frame size, sample rate, chunk length,
number of frames and lag of the port:

| Theorem | Statement |
| --- | --- |
| `AudioInvariant` | `Spec => [](AudioTypeOK /\ VadInv /\ CutInv)` |
| `UtterancesByDefinition` | `Spec => []VadMatchesDefinition` |
| `ChunksWhole` | `Spec => []ChunksContiguous` |

`VadInv` is about the decision. Each counter is the length of the run of frames that the
history ends in (`CountsRun`), so it reaches its threshold just when the last frames
are such a run (`CountDecides`); and the definition of speech, which looks at the whole
history, follows from its value one frame earlier and from the runs that end now
(`SpeechByFrame`). What comes later never changes it (`SpeechKept`). Reports are counted
over what was delivered and what waits in the port: the number is odd just while
an utterance goes on, so each one is of the type whose turn it is
(`Alternate`), and delivering moves it from one place to the other.

`CutInv` is about the samples. `ChunksContiguous` is not inductive: it does not know what
is in the port. `PortInTurn` says of each message what came right before it, where the
place before the first message is the capture itself: an audio frame follows the
frame before it or the report of a beginning, and a beginning follows an end. So the
frame that is delivered next continues what the capture has taken in (`Reached`), or opens
an utterance while it holds nothing back. A capture that was stopped has taken in less,
but takes in nothing any more. `CutRight` then says that cutting such samples keeps
the chunks in order; it rests on `Division` and `DivisionUnique`, which place the
samples of each frame and of each chunk.

### What is only model-checked

Every invariant and action property of a passing run is proved. What is left:

- All liveness (`QueueDrains`, `UnusedDisconnects`, `SessionReachesServer`,
  `ConfigOrNotice`): TLAPS does not prove it under fairness.
- Every formula of section 3 that TLC refutes.

What recursive definitions compute for every input would be out of reach too; no module
here declares any.

## 5. Abstractions and limits

- Audio bytes, sample values, PCM conversion, timestamps, metrics' contents,
  wordings and logs are left out. Generation ids are numbers without a width: the
  counter is a 64-bit `int`, and no session gets near its end.
- The 200 ms, 1 s and 100 ms timers may fire at any time after they were set.
- How an address is parsed, the origin check and the upgrade are the library's.
- In EndToEnd audio chunks and what flows back are left out: they change neither the
  client's nor the backend's view of the session. The page has one session id for its
  life (`App.tsx`), hence one in the instances. It never sends a malformed frame, so
  that way for a connection to end is in WSHandler only.
- `conn.Read` returns whole frames in order, as TCP and the library provide.
- Errors thrown by `setSinkId`, playback of audio URLs, and the clipboard stay
  within one event handler and are not modelled.
- Sessions are never removed by the code; nothing bounds them and nothing is
  checked about their number.

## 6. Plan

Done, in this order: SessionManager with Conversation and its proofs; WSHandler;
WSClient and WSClientManager; VoiceInput; ChatLog; AudioFrames; AudioConfig;
EndToEnd; Boundary and PageStatus with their proofs.

Then the proofs: WSHandler, WSClient with WSClientManager, VoiceInput, ChatLog,
PageStatus, EndToEnd and AudioFrames, as section 4 describes them.

What could come next:

1. EndToEnd: that the STOP_SESSION that was lost is the *last* one the App sent. The
   invariant would have to order events over all sockets.
2. More than one page in EndToEnd, with session ids of their own.
3. A bound for the sessions, once the code removes them.
