------------------------------ MODULE VoiceInput ------------------------------
(***************************************************************************)
(* Starting and stopping the voice input: the handlers of the App and the  *)
(* AudioCapture they create (frontend/src/App.tsx,                         *)
(* frontend/src/lib/audioCapture.ts), beside the browser, which answers    *)
(* each request for the microphone, the playback or the worklet module     *)
(* when it likes.                                                          *)
(*                                                                         *)
(* handleStart is asynchronous: between its awaits the user may press the  *)
(* button again, stop, or end after an error.  Each call of handleStart is *)
(* a start n with the capture n it creates; its code between two awaits    *)
(* that wait for the browser is one step.                                  *)
(*                                                                         *)
(* Abstractions.  A microphone stream is a number, live until its tracks   *)
(* are stopped.  Of the WSClient only sessionActive is kept; the frames    *)
(* and the VAD are in other modules, here a capture that hears a live      *)
(* microphone may begin and end an utterance at any time, and one that no  *)
(* longer does reports what its port and its worklet still hold.           *)
(***************************************************************************)
EXTENDS Integers

CONSTANTS
    MaxStarts,      \* bound: calls of handleStart
    MaxLate         \* bound: reports of one capture that no longer hears

ASSUME VoiceAssumption == MaxStarts \in Nat /\ MaxLate \in Nat

VARIABLES
    voiceActive,    \* the state the button shows
    errorState,     \* whether the error dialog is shown
    sessionActive,  \* WSClient.sessionActive
    micStream,      \* micStreamRef.current, or NoStream
    liveStreams,    \* streams whose tracks are not stopped
    captureRef,     \* audioCaptureRef.current, or NoCapture
    active,         \* AudioCapture.active of each capture
    stream,         \* AudioCapture.stream of each capture
    phase,          \* what the start of each capture waits for, and how it ended
    task,           \* what each handleStart waits for
    speaking,       \* whether each capture reported the start of an utterance
    late,           \* the reports each capture made when it no longer heard
    mounted,        \* whether the App is on the page
    overlapped,     \* whether the user ever acted while a start was waiting
    hasty,          \* whether that was ever anything but another start
    troubled        \* whether a capture ever failed or reported an error

captureVars == <<active, stream, phase>>
reported == <<speaking, late>>
history == <<overlapped, hasty, troubled>>
vars == <<voiceActive, errorState, sessionActive, micStream, liveStreams,
          captureRef, active, stream, phase, task, speaking, late, mounted, history>>

Starts == 1..MaxStarts
NoCapture == 0
NoStream == 0
\* The stream start n gets for the permission, and the one its capture gets.
PermissionStream(n) == n
CaptureStream(n) == MaxStarts + n
Streams == 1..(2 * MaxStarts)

Init ==
    /\ voiceActive = FALSE /\ errorState = FALSE /\ sessionActive = FALSE
    /\ micStream = NoStream /\ liveStreams = {}
    /\ captureRef = NoCapture
    /\ active = [n \in Starts |-> FALSE]
    /\ stream = [n \in Starts |-> NoStream]
    /\ phase = [n \in Starts |-> "new"]
    /\ task = [n \in Starts |-> "none"]
    /\ speaking = [n \in Starts |-> FALSE]
    /\ late = [n \in Starts |-> 0]
    /\ mounted = TRUE
    /\ overlapped = FALSE /\ hasty = FALSE /\ troubled = FALSE

-----------------------------------------------------------------------------
(* Helpers *)

Waiting == \E n \in Starts : task[n] \in {"permission", "playback", "capture"}
\* The user acts on a page that is there.
UserActs ==
    /\ mounted
    /\ overlapped' = (overlapped \/ Waiting)
    /\ UNCHANGED troubled
\* Anything but a start.
UserEnds == UserActs /\ hasty' = (hasty \/ Waiting)

\* AudioCapture.stop: nothing unless active; a start that waits goes on waiting.
StopCapture(n) ==
    IF n # NoCapture /\ active[n]
    THEN /\ active' = [active EXCEPT ![n] = FALSE]
         /\ stream' = [stream EXCEPT ![n] = NoStream]
    ELSE UNCHANGED <<active, stream>>

\* The streams that stopping capture n stops.
StreamOf(n) == IF n # NoCapture /\ active[n] THEN {stream[n]} ELSE {}

-----------------------------------------------------------------------------
(* handleStart *)

\* handleVoiceToggle while inactive: handleStart up to its first real wait.
ClickStart(n) ==
    /\ UserActs /\ UNCHANGED hasty
    /\ ~voiceActive
    /\ task[n] = "none"
    /\ \A m \in Starts : m < n => task[m] # "none"
    /\ task' = [task EXCEPT ![n] = IF micStream = NoStream THEN "permission"
                                                           ELSE "playback"]
    /\ UNCHANGED <<voiceActive, errorState, sessionActive, micStream, liveStreams,
                   captureRef, captureVars, reported, mounted>>

PermissionGranted(n) ==
    /\ task[n] = "permission"
    /\ micStream' = PermissionStream(n)
    /\ liveStreams' = liveStreams \union {PermissionStream(n)}
    /\ task' = [task EXCEPT ![n] = "playback"]
    /\ UNCHANGED <<voiceActive, errorState, sessionActive, captureRef,
                   captureVars, reported>>

PermissionDenied(n) ==
    /\ task[n] = "permission"
    /\ voiceActive' = FALSE
    /\ task' = [task EXCEPT ![n] = "done"]
    /\ UNCHANGED <<errorState, sessionActive, micStream, liveStreams, captureRef,
                   captureVars, reported>>

\* Mutant of PlaybackSettles: the capture of an earlier start is not stopped.
NewCaptureKeepsOld(n) ==
    /\ task[n] = "playback"
    /\ voiceActive' = TRUE
    /\ captureRef' = n
    /\ active' = [active EXCEPT ![n] = TRUE]
    /\ stream' = [stream EXCEPT ![n] = micStream]
    /\ phase' = [phase EXCEPT ![n] = IF micStream = NoStream THEN "media"
                                                             ELSE "module"]
    /\ task' = [task EXCEPT ![n] = "capture"]
    /\ UNCHANGED <<errorState, sessionActive, micStream, liveStreams, reported>>

\* ensureAudioPlayback settled, either way: the capture of an earlier start is
\* stopped, a new one takes its place and asks for the microphone, which the
\* App's getUserMedia answers with the stream it has, if it has one.
PlaybackSettles(n) ==
    /\ task[n] = "playback"
    /\ voiceActive' = TRUE
    /\ liveStreams' = liveStreams \ StreamOf(captureRef)
    /\ captureRef' = n
    /\ LET old == captureRef
           stopped == [m \in Starts |-> IF m = old THEN FALSE ELSE active[m]]
           freed == [m \in Starts |-> IF m = old /\ active[m] THEN NoStream
                                                              ELSE stream[m]]
       IN  /\ active' = [stopped EXCEPT ![n] = TRUE]
           /\ stream' = [freed EXCEPT ![n] = micStream]
    /\ phase' = [phase EXCEPT ![n] = IF micStream = NoStream THEN "media"
                                                             ELSE "module"]
    /\ task' = [task EXCEPT ![n] = "capture"]
    /\ UNCHANGED <<errorState, sessionActive, micStream, reported>>

\* Mutant of FinishStart: the await never ends.
FinishNever(n) == UNCHANGED <<sessionActive, task>>

\* The last step of handleStart, however capture.start() ended: startSession.
FinishStart(n) ==
    /\ sessionActive' = TRUE
    /\ task' = [task EXCEPT ![n] = "done"]

-----------------------------------------------------------------------------
(* AudioCapture.start *)

\* The microphone arrives, even at a capture that was stopped meanwhile.
MediaGranted(n) ==
    /\ phase[n] = "media"
    /\ micStream' = CaptureStream(n)
    /\ liveStreams' = liveStreams \union {CaptureStream(n)}
    /\ stream' = [stream EXCEPT ![n] = CaptureStream(n)]
    /\ phase' = [phase EXCEPT ![n] = "module"]
    /\ UNCHANGED <<voiceActive, errorState, sessionActive, captureRef, active,
                   task, reported>>

\* The catch block: onError, which is handleAudioCaptureError, then stop().
CaptureFails(n) ==
    /\ voiceActive' = FALSE
    /\ liveStreams' = liveStreams \ StreamOf(n)
    /\ StopCapture(n)
    /\ phase' = [phase EXCEPT ![n] = "failed"]
    /\ FinishStart(n)
    /\ troubled' = TRUE
    /\ UNCHANGED <<errorState, micStream, captureRef, reported>>

MediaDenied(n) == phase[n] = "media" /\ CaptureFails(n)

\* addModule rejects, or there is no AudioWorklet, or a stop() meanwhile has
\* taken the stream and the context away and the next line throws.
ModuleFails(n) == phase[n] = "module" /\ CaptureFails(n)

\* The worklet node is created and connected.
ModuleLoads(n) ==
    /\ phase[n] = "module"
    /\ stream[n] # NoStream
    /\ phase' = [phase EXCEPT ![n] = "wired"]
    /\ FinishStart(n)
    /\ UNCHANGED <<voiceActive, errorState, micStream, liveStreams, captureRef,
                   active, stream, reported>>

-----------------------------------------------------------------------------
(* The other handlers *)

\* Mutants of StopMicrophone: no track is stopped, or the stream is not forgotten.
KeepReference(alsoStopped) ==
    /\ liveStreams' = liveStreams \ ({micStream} \union alsoStopped)
    /\ UNCHANGED micStream
ForgetMicrophone(alsoStopped) == micStream' = NoStream /\ UNCHANGED liveStreams

\* The tracks of micStreamRef are stopped and it is forgotten.
StopMicrophone(alsoStopped) ==
    /\ liveStreams' = liveStreams \ ({micStream} \union alsoStopped)
    /\ micStream' = NoStream

\* handleVoiceToggle while active: handleStop.
ClickStop ==
    /\ UserEnds
    /\ voiceActive
    /\ StopCapture(captureRef)
    /\ captureRef' = NoCapture
    /\ StopMicrophone(StreamOf(captureRef))
    /\ sessionActive' = FALSE
    /\ voiceActive' = FALSE
    /\ UNCHANGED <<errorState, phase, task, reported, mounted>>

\* An ERROR event, or an error of the socket.
ErrorArrives ==
    /\ errorState' = TRUE
    /\ UNCHANGED <<voiceActive, sessionActive, micStream, liveStreams, captureRef,
                   captureVars, task, reported>>

Retry ==
    /\ UserEnds
    /\ errorState
    /\ errorState' = FALSE
    /\ sessionActive' = (voiceActive \/ sessionActive)
    /\ UNCHANGED <<voiceActive, micStream, liveStreams, captureRef, captureVars,
                   task, reported, mounted>>

\* handleSafeEnd: the microphone and the session, but not the capture.
SafeEnd ==
    /\ UserEnds
    /\ errorState
    /\ errorState' = FALSE
    /\ StopMicrophone({})
    /\ sessionActive' = FALSE
    /\ voiceActive' = FALSE
    /\ UNCHANGED <<captureRef, captureVars, task, reported, mounted>>

\* The effects' cleanups: the client and the capture are let go and the stream
\* is stopped; the session is not.  A start that waits goes on.
Unmount ==
    /\ UserEnds
    /\ mounted' = FALSE
    /\ StopCapture(captureRef)
    /\ captureRef' = NoCapture
    /\ StopMicrophone(StreamOf(captureRef))
    /\ UNCHANGED <<voiceActive, errorState, sessionActive, phase, task, reported>>

-----------------------------------------------------------------------------
(* What a wired capture reports *)

Hears(n) == phase[n] = "wired" /\ stream[n] \in liveStreams

\* The port keeps its onmessage, so that a capture that was stopped, or whose
\* microphone was, still reports what its port and its worklet hold.  Without a
\* client, after the unmount, the App's callbacks return at once.
Reports(n) ==
    /\ mounted /\ phase[n] = "wired"
    /\ \/ Hears(n) /\ UNCHANGED late
       \/ ~Hears(n) /\ late[n] < MaxLate /\ late' = [late EXCEPT ![n] = @ + 1]

SpeechStart(n) ==
    /\ Reports(n)
    /\ ~speaking[n]
    /\ speaking' = [speaking EXCEPT ![n] = TRUE]
    /\ UNCHANGED <<voiceActive, errorState, sessionActive, micStream, liveStreams,
                   captureRef, captureVars, task, troubled>>

SpeechEnd(n) ==
    /\ Reports(n)
    /\ speaking[n]
    /\ speaking' = [speaking EXCEPT ![n] = FALSE]
    /\ UNCHANGED <<voiceActive, errorState, sessionActive, micStream, liveStreams,
                   captureRef, captureVars, task, troubled>>

\* An error message of the worklet: handleAudioCaptureError alone.
WorkletError(n) ==
    /\ Reports(n)
    /\ voiceActive' = FALSE
    /\ troubled' = TRUE
    /\ UNCHANGED <<errorState, sessionActive, micStream, liveStreams, captureRef,
                   captureVars, task, speaking>>

Browser(n) ==
    /\ \/ /\ \/ PermissionGranted(n) \/ PermissionDenied(n) \/ PlaybackSettles(n)
             \/ MediaGranted(n) \/ ModuleLoads(n)
          /\ UNCHANGED troubled
       \/ MediaDenied(n) \/ ModuleFails(n)
    /\ UNCHANGED <<mounted, overlapped, hasty>>

Reported(n) ==
    /\ SpeechStart(n) \/ SpeechEnd(n) \/ WorkletError(n)
    /\ UNCHANGED <<mounted, overlapped, hasty>>

Next ==
    \/ \E n \in Starts : ClickStart(n) \/ Browser(n) \/ Reported(n)
    \/ ClickStop \/ Retry \/ SafeEnd \/ Unmount
    \/ mounted /\ ErrorArrives /\ UNCHANGED <<mounted, history>>

Spec == Init /\ [][Next]_vars

-----------------------------------------------------------------------------
(* Properties *)

\* Every variable has the type of its declaration, and a start waits for its
\* capture exactly while that capture waits for the browser.
TypeOK ==
    /\ voiceActive \in BOOLEAN /\ errorState \in BOOLEAN /\ sessionActive \in BOOLEAN
    /\ micStream \in Streams \union {NoStream}
    /\ liveStreams \subseteq Streams
    /\ captureRef \in Starts \union {NoCapture}
    /\ active \in [Starts -> BOOLEAN]
    /\ stream \in [Starts -> Streams \union {NoStream}]
    /\ phase \in [Starts -> {"new", "media", "module", "wired", "failed"}]
    /\ task \in [Starts -> {"none", "permission", "playback", "capture", "done"}]
    /\ speaking \in [Starts -> BOOLEAN] /\ late \in [Starts -> 0..MaxLate]
    /\ mounted \in BOOLEAN
    /\ overlapped \in BOOLEAN /\ hasty \in BOOLEAN /\ troubled \in BOOLEAN
    /\ \A n \in Starts : task[n] = "capture" <=> phase[n] \in {"media", "module"}

\* However starts, stops and answers of the browser interleave, the only
\* capture that can be active is the one the App still refers to and will stop.
OneActiveCapture == \A n \in Starts : active[n] => captureRef = n

CaptureHears == captureRef # NoCapture /\ stream[captureRef] \in liveStreams

\* When no start is waiting and the button says that voice is on, the session
\* was started and not stopped since, and the capture hears a live microphone,
\* however often voice was on before, unless a start was disturbed or failed.
VoiceOnWorks ==
    mounted /\ voiceActive /\ ~Waiting =>
        /\ sessionActive
        /\ ~overlapped /\ ~troubled => CaptureHears

\* Once the App refers to no capture and no start is waiting, every microphone
\* is released.
StopReleasesMic == captureRef = NoCapture /\ ~Waiting => liveStreams = {}

\* For a user who lets each start finish, no microphone is open after
\* handleStop or after the page is gone, whatever failed before.
PatientStopReleasesMic == ~overlapped => StopReleasesMic

\* For such a user a capture that is wired to an open microphone has a session,
\* so that all it reports while it hears is accepted, although errors and the
\* safe end leave captures wired, and old microphones are used again.
HeardInSession == ~overlapped => \A n \in Starts : Hears(n) => sessionActive

-----------------------------------------------------------------------------
(* What the documents say and the code does not do *)

\* "No voice input is taken in while it is stopped": whoever does nothing but
\* press the start button again while a start waits, and stops when all starts
\* are done, has released every microphone.
SettledStopReleasesMic == ~hasty => StopReleasesMic

\* "While stopped the sending is suspended": once the session is stopped no
\* beginning and no end of an utterance is reported, so none is sent.
NoSpeechAfterStop ==
    [][\A n \in Starts : speaking'[n] # speaking[n] => sessionActive]_vars

\* A stop is final: a session is started only while voice is on.
SessionStartsWhileVoiceOn ==
    [][~sessionActive /\ sessionActive' => voiceActive']_vars

\* The page that is gone holds no microphone: a start that waited opens one.
UnmountReleasesMic == ~mounted /\ ~Waiting => liveStreams = {}

\* When voice is on and no start is waiting, the capture hears the microphone.
VoiceHearsMicrophone == voiceActive /\ ~Waiting => CaptureHears

=============================================================================
