--------------------------- MODULE VoiceInput_proofs ---------------------------
(***************************************************************************)
(* Proofs about VoiceInput: that its properties hold for every number of   *)
(* starts.                                                                 *)
(***************************************************************************)
EXTENDS VoiceInput, TLAPS

Waits == {"permission", "playback", "capture"}

\* The button says that voice is on only with a session, once no start waits.
SessionBehindButton == voiceActive /\ ~Waiting => sessionActive

\* A stream is unknown until the request that yields it is granted.
Unseen(s) == s \notin liveStreams /\ s # micStream /\ \A m \in Starts : stream[m] # s
StreamsFresh ==
    \A n \in Starts :
        /\ task[n] \in {"none", "permission"} => Unseen(PermissionStream(n))
        /\ phase[n] \in {"new", "media"} => Unseen(CaptureStream(n))
        /\ task[n] \in {"none", "permission", "playback"} => phase[n] = "new"

\* While the user lets each start finish, one start waits at a time, and the
\* App refers to the one live microphone and to the capture being started.
PatientUser ==
    /\ \A m, n \in Starts : task[m] \in Waits /\ task[n] \in Waits => m = n
    /\ \A n \in Starts : task[n] = "permission" \/ phase[n] = "media" =>
           micStream = NoStream
    /\ \A n \in Starts : task[n] = "capture" => captureRef = n
    /\ liveStreams \subseteq {micStream}
    /\ captureRef = NoCapture /\ ~Waiting => liveStreams = {}
    /\ \A n \in Starts : Hears(n) => sessionActive

\* While, besides, no capture failed, the microphone is open from the grant on.
UndisturbedStart ==
    /\ mounted /\ ~Waiting /\ ~voiceActive => micStream = NoStream
    /\ mounted /\ ~Waiting /\ voiceActive => CaptureHears
    /\ \A n \in Starts : task[n] = "playback" =>
           micStream \in liveStreams /\ \A m \in Starts : stream[m] # micStream
    /\ \A n \in Starts : task[n] = "capture" =>
           /\ voiceActive
           /\ phase[n] = "module"
           /\ stream[n] \in liveStreams

IInv ==
    /\ TypeOK
    /\ OneActiveCapture
    /\ SessionBehindButton
    /\ StreamsFresh
    /\ ~overlapped => PatientUser
    /\ ~overlapped /\ ~troubled => UndisturbedStart

-----------------------------------------------------------------------------

LEMMA StreamFacts ==
    /\ MaxStarts \in Nat /\ MaxLate \in Nat /\ NoStream \notin Streams /\ NoCapture \notin Starts
    /\ \A n \in Starts : PermissionStream(n) \in Streams /\ CaptureStream(n) \in Streams
    /\ \A m, n \in Starts :
           /\ PermissionStream(n) # CaptureStream(m)
           /\ m # n => /\ PermissionStream(n) # PermissionStream(m)
                       /\ CaptureStream(n) # CaptureStream(m)
BY VoiceAssumption DEF Starts, Streams, NoStream, NoCapture, PermissionStream, CaptureStream

\* What stopping a capture does to the captures and to their streams.
LEMMA StopTypes ==
    ASSUME TypeOK, NEW c \in Starts \union {NoCapture}, StopCapture(c)
    PROVE  /\ active' \in [Starts -> BOOLEAN]
           /\ stream' \in [Starts -> Streams \union {NoStream}]
BY StreamFacts DEF TypeOK, StopCapture

LEMMA StoppedCapture ==
    ASSUME TypeOK, NEW c \in Starts \union {NoCapture}, StopCapture(c)
    PROVE  \A m \in Starts : active'[m] => active[m] /\ m # c
BY StreamFacts DEF TypeOK, StopCapture

LEMMA StoppedStream ==
    ASSUME TypeOK, NEW c \in Starts \union {NoCapture}, StopCapture(c)
    PROVE  \A m \in Starts : stream'[m] = stream[m] \/ stream'[m] = NoStream
BY StreamFacts DEF TypeOK, StopCapture

LEMMA OthersKeepStream ==
    ASSUME TypeOK, NEW c \in Starts \union {NoCapture}, StopCapture(c)
    PROVE  \A m \in Starts : m # c => stream'[m] = stream[m]
BY StreamFacts DEF TypeOK, StopCapture

LEMMA InitOK == Init => IInv
<1> SUFFICES ASSUME Init PROVE IInv
  OBVIOUS
<1>1. TypeOK
  <2>1. 0 \in 0..MaxLate
    BY StreamFacts
  <2>2. late \in [Starts -> 0..MaxLate]
    BY <2>1 DEF Init
  <2>3. QED
    BY <2>2, StreamFacts DEF Init, TypeOK
<1>2. StreamsFresh
  BY StreamFacts DEF Init, StreamsFresh, Unseen
<1>3. PatientUser /\ UndisturbedStart
  BY DEF Init, PatientUser, UndisturbedStart, Hears, Waits
<1>4. OneActiveCapture /\ SessionBehindButton
  <2>1. \A n \in Starts : ~active[n]
    BY DEF Init
  <2>2. ~voiceActive
    BY DEF Init
  <2>3. QED
    BY <2>1, <2>2, Zenon DEF OneActiveCapture, SessionBehindButton
<1>5. QED
  BY <1>1, <1>2, <1>3, <1>4 DEF IInv

LEMMA TypeStep == TypeOK /\ [Next]_vars => TypeOK'
<1> SUFFICES ASSUME TypeOK, [Next]_vars PROVE TypeOK'
  OBVIOUS
<1> USE StreamFacts DEF TypeOK, history, captureVars, reported
<1>1. ASSUME NEW n \in Starts, ClickStart(n) PROVE TypeOK'
  BY <1>1 DEF ClickStart, UserActs
<1>2. ASSUME NEW n \in Starts, Browser(n) PROVE TypeOK'
  <2>0. /\ mounted' \in BOOLEAN /\ overlapped' \in BOOLEAN /\ hasty' \in BOOLEAN
    BY <1>2 DEF Browser
  <2>1. CASE PermissionGranted(n) /\ UNCHANGED troubled
    BY <2>0, <2>1 DEF PermissionGranted
  <2>2. CASE PermissionDenied(n) /\ UNCHANGED troubled
    BY <2>0, <2>2 DEF PermissionDenied
  <2>3. CASE PlaybackSettles(n) /\ UNCHANGED troubled
    BY <2>0, <2>3 DEF PlaybackSettles
  <2>4. CASE MediaGranted(n) /\ UNCHANGED troubled
    BY <2>0, <2>4 DEF MediaGranted
  <2>5. CASE ModuleLoads(n) /\ UNCHANGED troubled
    BY <2>0, <2>5 DEF ModuleLoads, FinishStart
  <2>6. CASE phase[n] \in {"media", "module"} /\ CaptureFails(n)
    BY <2>0, <2>6, StopTypes DEF CaptureFails, FinishStart
  <2>7. QED
    BY <1>2, <2>1, <2>2, <2>3, <2>4, <2>5, <2>6 DEF Browser, MediaDenied, ModuleFails
<1>3. ASSUME NEW n \in Starts, Reported(n) PROVE TypeOK'
  <2>1. late' \in [Starts -> 0..MaxLate]
    <3>1. UNCHANGED late \/ (late[n] < MaxLate /\ late' = [late EXCEPT ![n] = @ + 1])
      BY <1>3 DEF Reported, SpeechStart, SpeechEnd, WorkletError, Reports
    <3>2. late[n] < MaxLate => late[n] + 1 \in 0..MaxLate
      OBVIOUS
    <3>3. QED
      BY <3>1, <3>2
  <2>2. QED
    BY <1>3, <2>1 DEF Reported, SpeechStart, SpeechEnd, WorkletError
<1>4. CASE ClickStop
  BY <1>4, StopTypes DEF ClickStop, UserActs, UserEnds, StopMicrophone
<1>5. CASE Retry
  BY <1>5 DEF Retry, UserActs, UserEnds
<1>6. CASE SafeEnd
  BY <1>6 DEF SafeEnd, UserActs, UserEnds, StopMicrophone
<1>7. CASE Unmount
  BY <1>7, StopTypes DEF Unmount, UserActs, UserEnds, StopMicrophone
<1>8. CASE ErrorArrives /\ UNCHANGED <<mounted, history>>
  BY <1>8 DEF ErrorArrives
<1>9. CASE UNCHANGED vars
  BY <1>9 DEF vars
<1>10. QED
  BY <1>1, <1>2, <1>3, <1>4, <1>5, <1>6, <1>7, <1>8, <1>9 DEF Next

\* A capture is active only while the App refers to it.
LEMMA ActiveStep == TypeOK /\ OneActiveCapture /\ [Next]_vars => OneActiveCapture'
<1> SUFFICES ASSUME TypeOK, OneActiveCapture, [Next]_vars PROVE OneActiveCapture'
  OBVIOUS
<1>0. /\ active \in [Starts -> BOOLEAN] /\ stream \in [Starts -> Streams \union {NoStream}]
      /\ captureRef \in Starts \union {NoCapture}
  BY DEF TypeOK
<1>a. /\ phase \in [Starts -> {"new", "media", "module", "wired", "failed"}]
      /\ task \in [Starts -> {"none", "permission", "playback", "capture", "done"}]
      /\ \A n \in Starts : task[n] = "capture" <=> phase[n] \in {"media", "module"}
  BY DEF TypeOK
<1> USE DEF history, captureVars, reported, OneActiveCapture
<1>1. ASSUME NEW n \in Starts, ClickStart(n) PROVE OneActiveCapture'
  BY <1>0, <1>a, StreamFacts, <1>1 DEF ClickStart, UserActs
<1>2. ASSUME NEW n \in Starts, Browser(n) PROVE OneActiveCapture'
  <2>1. CASE PermissionGranted(n) /\ UNCHANGED troubled
    BY <1>0, <1>a, StreamFacts, <2>1 DEF PermissionGranted
  <2>2. CASE PermissionDenied(n) /\ UNCHANGED troubled
    BY <1>0, <1>a, StreamFacts, <2>2 DEF PermissionDenied
  <2>3. CASE PlaybackSettles(n) /\ UNCHANGED troubled
    BY <1>0, <1>a, StreamFacts, <2>3 DEF PlaybackSettles
  <2>4. CASE MediaGranted(n) /\ UNCHANGED troubled
    BY <1>0, <1>a, StreamFacts, <2>4 DEF MediaGranted
  <2>5. CASE ModuleLoads(n) /\ UNCHANGED troubled
    BY <1>0, <1>a, StreamFacts, <2>5 DEF ModuleLoads, FinishStart
  <2>6. CASE phase[n] \in {"media", "module"} /\ CaptureFails(n)
    <3>1. /\ n \in Starts \union {NoCapture} /\ StopCapture(n)
          /\ captureRef' = captureRef /\ micStream' = micStream
      BY <1>0, <1>a, StreamFacts, <2>6 DEF CaptureFails
    <3>2. \A m \in Starts : active'[m] => active[m] /\ m # n
      BY <3>1, StoppedCapture
    <3>3. QED
      BY <3>1, <3>2, Zenon
  <2>7. QED
    BY <1>0, <1>a, StreamFacts, <1>2, <2>1, <2>2, <2>3, <2>4, <2>5, <2>6 DEF Browser, MediaDenied, ModuleFails
<1>3. ASSUME NEW n \in Starts, Reported(n) PROVE OneActiveCapture'
  BY <1>0, <1>a, StreamFacts, <1>3 DEF Reported, SpeechStart, SpeechEnd, WorkletError, Reports, reported
<1>4. CASE ClickStop
  <2>1. captureRef \in Starts \union {NoCapture} /\ StopCapture(captureRef)
    BY <1>0, <1>a, StreamFacts, <1>4 DEF ClickStop
  <2>2. \A m \in Starts : active'[m] => active[m] /\ m # captureRef
    BY <2>1, StoppedCapture
  <2>3. QED
    BY <1>0, <1>a, StreamFacts, <2>2, Zenon
<1>5. CASE Retry
  BY <1>0, <1>a, StreamFacts, <1>5 DEF Retry, UserActs, UserEnds
<1>6. CASE SafeEnd
  BY <1>0, <1>a, StreamFacts, <1>6 DEF SafeEnd, UserActs, UserEnds, StopMicrophone
<1>7. CASE Unmount
  <2>1. captureRef \in Starts \union {NoCapture} /\ StopCapture(captureRef)
    BY <1>0, <1>a, StreamFacts, <1>7 DEF Unmount
  <2>2. \A m \in Starts : active'[m] => active[m] /\ m # captureRef
    BY <2>1, StoppedCapture
  <2>3. QED
    BY <1>0, <1>a, StreamFacts, <2>2, Zenon
<1>8. CASE ErrorArrives /\ UNCHANGED <<mounted, history>>
  BY <1>0, <1>a, StreamFacts, <1>8 DEF ErrorArrives
<1>9. CASE UNCHANGED vars
  BY <1>0, <1>a, StreamFacts, <1>9 DEF vars
<1>10. QED
  BY <1>0, <1>a, StreamFacts, <1>1, <1>2, <1>3, <1>4, <1>5, <1>6, <1>7, <1>8, <1>9 DEF Next

\* A start that is the last to finish leaves a session, or voice off.
LEMMA SessionStep == TypeOK /\ SessionBehindButton /\ [Next]_vars => SessionBehindButton'
<1> SUFFICES ASSUME TypeOK, SessionBehindButton, [Next]_vars PROVE SessionBehindButton'
  OBVIOUS
<1>0. /\ active \in [Starts -> BOOLEAN] /\ stream \in [Starts -> Streams \union {NoStream}]
      /\ captureRef \in Starts \union {NoCapture}
  BY DEF TypeOK
<1>a. /\ phase \in [Starts -> {"new", "media", "module", "wired", "failed"}]
      /\ task \in [Starts -> {"none", "permission", "playback", "capture", "done"}]
      /\ \A n \in Starts : task[n] = "capture" <=> phase[n] \in {"media", "module"}
  BY DEF TypeOK
<1> USE DEF history, captureVars, reported, SessionBehindButton, Waiting
<1>1. ASSUME NEW n \in Starts, ClickStart(n) PROVE SessionBehindButton'
  BY <1>0, <1>a, StreamFacts, <1>1 DEF ClickStart, UserActs
<1>2. ASSUME NEW n \in Starts, Browser(n) PROVE SessionBehindButton'
  <2>1. CASE PermissionGranted(n) /\ UNCHANGED troubled
    BY <1>0, <1>a, StreamFacts, <2>1 DEF PermissionGranted
  <2>2. CASE PermissionDenied(n) /\ UNCHANGED troubled
    BY <1>0, <1>a, StreamFacts, <2>2 DEF PermissionDenied
  <2>3. CASE PlaybackSettles(n) /\ UNCHANGED troubled
    BY <1>0, <1>a, StreamFacts, <2>3 DEF PlaybackSettles
  <2>4. CASE MediaGranted(n) /\ UNCHANGED troubled
    BY <1>0, <1>a, StreamFacts, <2>4 DEF MediaGranted
  <2>5. CASE ModuleLoads(n) /\ UNCHANGED troubled
    BY <1>0, <1>a, StreamFacts, <2>5 DEF ModuleLoads, FinishStart
  <2>6. CASE phase[n] \in {"media", "module"} /\ CaptureFails(n)
    <3>1. /\ n \in Starts \union {NoCapture} /\ StopCapture(n)
          /\ captureRef' = captureRef /\ micStream' = micStream
      BY <1>0, <1>a, StreamFacts, <2>6 DEF CaptureFails
    <3>2. QED
      BY <1>0, <1>a, StreamFacts, <2>6, <3>1 DEF CaptureFails, FinishStart
  <2>7. QED
    BY <1>0, <1>a, StreamFacts, <1>2, <2>1, <2>2, <2>3, <2>4, <2>5, <2>6 DEF Browser, MediaDenied, ModuleFails
<1>3. ASSUME NEW n \in Starts, Reported(n) PROVE SessionBehindButton'
  BY <1>0, <1>a, StreamFacts, <1>3 DEF Reported, SpeechStart, SpeechEnd, WorkletError, Reports, reported
<1>4. CASE ClickStop
  <2>1. captureRef \in Starts \union {NoCapture} /\ StopCapture(captureRef)
    BY <1>0, <1>a, StreamFacts, <1>4 DEF ClickStop
  <2>2. QED
    BY <1>0, <1>a, StreamFacts, <1>4, <2>1 DEF ClickStop, UserActs, UserEnds, StopMicrophone
<1>5. CASE Retry
  BY <1>0, <1>a, StreamFacts, <1>5 DEF Retry, UserActs, UserEnds
<1>6. CASE SafeEnd
  BY <1>0, <1>a, StreamFacts, <1>6 DEF SafeEnd, UserActs, UserEnds, StopMicrophone
<1>7. CASE Unmount
  <2>1. captureRef \in Starts \union {NoCapture} /\ StopCapture(captureRef)
    BY <1>0, <1>a, StreamFacts, <1>7 DEF Unmount
  <2>2. QED
    BY <1>0, <1>a, StreamFacts, <1>7, <2>1 DEF Unmount, UserActs, UserEnds, StopMicrophone
<1>8. CASE ErrorArrives /\ UNCHANGED <<mounted, history>>
  BY <1>0, <1>a, StreamFacts, <1>8 DEF ErrorArrives
<1>9. CASE UNCHANGED vars
  BY <1>0, <1>a, StreamFacts, <1>9 DEF vars
<1>10. QED
  BY <1>0, <1>a, StreamFacts, <1>1, <1>2, <1>3, <1>4, <1>5, <1>6, <1>7, <1>8, <1>9 DEF Next

\* Only a grant makes its stream known.
LEMMA FreshStep == TypeOK /\ OneActiveCapture /\ StreamsFresh /\ [Next]_vars => StreamsFresh'
<1> SUFFICES ASSUME TypeOK, OneActiveCapture, StreamsFresh, [Next]_vars PROVE StreamsFresh'
  OBVIOUS
<1>0. /\ active \in [Starts -> BOOLEAN] /\ stream \in [Starts -> Streams \union {NoStream}]
      /\ captureRef \in Starts \union {NoCapture}
  BY DEF TypeOK
<1>a. /\ phase \in [Starts -> {"new", "media", "module", "wired", "failed"}]
      /\ task \in [Starts -> {"none", "permission", "playback", "capture", "done"}]
      /\ \A n \in Starts : task[n] = "capture" <=> phase[n] \in {"media", "module"}
  BY DEF TypeOK
<1> USE DEF history, captureVars, reported, StreamsFresh, Unseen
<1>1. ASSUME NEW n \in Starts, ClickStart(n) PROVE StreamsFresh'
  BY <1>0, <1>a, StreamFacts, <1>1 DEF ClickStart, UserActs
<1>2. ASSUME NEW n \in Starts, Browser(n) PROVE StreamsFresh'
  <2>1. CASE PermissionGranted(n) /\ UNCHANGED troubled
    BY <1>0, <1>a, StreamFacts, <2>1 DEF PermissionGranted
  <2>2. CASE PermissionDenied(n) /\ UNCHANGED troubled
    BY <1>0, <1>a, StreamFacts, <2>2 DEF PermissionDenied
  <2>3. CASE PlaybackSettles(n) /\ UNCHANGED troubled
    BY <1>0, <1>a, StreamFacts, <2>3 DEF PlaybackSettles
  <2>4. CASE MediaGranted(n) /\ UNCHANGED troubled
    BY <1>0, <1>a, StreamFacts, <2>4 DEF MediaGranted
  <2>5. CASE ModuleLoads(n) /\ UNCHANGED troubled
    BY <1>0, <1>a, StreamFacts, <2>5 DEF ModuleLoads, FinishStart
  <2>6. CASE phase[n] \in {"media", "module"} /\ CaptureFails(n)
    <3>1. /\ n \in Starts \union {NoCapture} /\ StopCapture(n)
          /\ captureRef' = captureRef /\ micStream' = micStream
      BY <1>0, <1>a, StreamFacts, <2>6 DEF CaptureFails
    <3>2. \A m \in Starts : stream'[m] = stream[m] \/ stream'[m] = NoStream
      BY <3>1, StoppedStream
    <3>3. liveStreams' \subseteq liveStreams
      BY <2>6 DEF CaptureFails
    <3>4. /\ phase' = [phase EXCEPT ![n] = "failed"] /\ task' = [task EXCEPT ![n] = "done"]
      BY <2>6 DEF CaptureFails, FinishStart
    <3>5. QED
      BY <1>a, StreamFacts, <3>1, <3>2, <3>3, <3>4
  <2>7. QED
    BY <1>0, <1>a, StreamFacts, <1>2, <2>1, <2>2, <2>3, <2>4, <2>5, <2>6 DEF Browser, MediaDenied, ModuleFails
<1>3. ASSUME NEW n \in Starts, Reported(n) PROVE StreamsFresh'
  BY <1>0, <1>a, StreamFacts, <1>3 DEF Reported, SpeechStart, SpeechEnd, WorkletError, Reports, reported
<1>4. CASE ClickStop
  <2>1. captureRef \in Starts \union {NoCapture} /\ StopCapture(captureRef)
    BY <1>0, <1>a, StreamFacts, <1>4 DEF ClickStop
  <2>2. \A m \in Starts : stream'[m] = stream[m] \/ stream'[m] = NoStream
    BY <2>1, StoppedStream
  <2>3. /\ liveStreams' \subseteq liveStreams /\ micStream' = NoStream
        /\ UNCHANGED <<phase, task>>
    BY <1>4 DEF ClickStop, StopMicrophone
  <2>4. QED
    BY StreamFacts, <2>2, <2>3
<1>5. CASE Retry
  BY <1>0, <1>a, StreamFacts, <1>5 DEF Retry, UserActs, UserEnds
<1>6. CASE SafeEnd
  BY <1>0, <1>a, StreamFacts, <1>6 DEF SafeEnd, UserActs, UserEnds, StopMicrophone
<1>7. CASE Unmount
  <2>1. captureRef \in Starts \union {NoCapture} /\ StopCapture(captureRef)
    BY <1>0, <1>a, StreamFacts, <1>7 DEF Unmount
  <2>2. \A m \in Starts : stream'[m] = stream[m] \/ stream'[m] = NoStream
    BY <2>1, StoppedStream
  <2>3. /\ liveStreams' \subseteq liveStreams /\ micStream' = NoStream
        /\ UNCHANGED <<phase, task>>
    BY <1>7 DEF Unmount, StopMicrophone
  <2>4. QED
    BY StreamFacts, <2>2, <2>3
<1>8. CASE ErrorArrives /\ UNCHANGED <<mounted, history>>
  BY <1>0, <1>a, StreamFacts, <1>8 DEF ErrorArrives
<1>9. CASE UNCHANGED vars
  BY <1>0, <1>a, StreamFacts, <1>9 DEF vars
<1>10. QED
  BY <1>0, <1>a, StreamFacts, <1>1, <1>2, <1>3, <1>4, <1>5, <1>6, <1>7, <1>8, <1>9 DEF Next

\* A patient user acts only while no start waits.
LEMMA PatientActs == UserActs /\ ~overlapped' => ~overlapped /\ ~Waiting
BY Zenon DEF UserActs

LEMMA StaysPatient == [Next]_vars /\ ~overlapped' => ~overlapped
<1> SUFFICES ASSUME [Next]_vars, ~overlapped' PROVE ~overlapped
  OBVIOUS
<1>1. \/ UserActs \/ overlapped' = overlapped
  BY DEF Next, Browser, Reported, ErrorArrives, vars, history, ClickStart,
         ClickStop, Retry, SafeEnd, Unmount, UserEnds
<1>2. QED
  BY <1>1, PatientActs

LEMMA PatientStep == IInv /\ [Next]_vars => (~overlapped' => PatientUser')
<1> SUFFICES ASSUME IInv, [Next]_vars, ~overlapped' PROVE PatientUser'
  OBVIOUS
<1>0. /\ stream \in [Starts -> Streams \union {NoStream}]
      /\ captureRef \in Starts \union {NoCapture} /\ micStream \in Streams \union {NoStream}
      /\ liveStreams \subseteq Streams
      /\ phase \in [Starts -> {"new", "media", "module", "wired", "failed"}]
      /\ task \in [Starts -> {"none", "permission", "playback", "capture", "done"}]
      /\ \A n \in Starts : task[n] = "capture" <=> phase[n] \in {"media", "module"}
  BY DEF IInv, TypeOK
<1>a. ~overlapped /\ PatientUser /\ StreamsFresh
  BY StaysPatient DEF IInv
<1> USE StreamFacts DEF history, captureVars, reported, Hears, PatientUser, Waits, Waiting
<1>1. ASSUME NEW n \in Starts, ClickStart(n) PROVE PatientUser'
  <2>1. ~Waiting
    BY <1>1, PatientActs DEF ClickStart
  <2>2. QED
    BY <1>0, <1>a, <1>1, <2>1 DEF ClickStart
<1>2. ASSUME NEW n \in Starts, Browser(n) PROVE PatientUser'
  <2>1. CASE PermissionGranted(n) /\ UNCHANGED troubled
    BY <1>0, <1>a, <2>1 DEF PermissionGranted, StreamsFresh, Unseen
  <2>2. CASE PermissionDenied(n) /\ UNCHANGED troubled
    BY <1>0, <1>a, <2>2 DEF PermissionDenied
  <2>3. CASE PlaybackSettles(n) /\ UNCHANGED troubled
    BY <1>0, <1>a, <2>3 DEF PlaybackSettles, StreamsFresh
  <2>4. CASE MediaGranted(n) /\ UNCHANGED troubled
    BY <1>0, <1>a, <2>4 DEF MediaGranted, StreamsFresh, Unseen
  <2>5. CASE ModuleLoads(n) /\ UNCHANGED troubled
    BY <1>0, <1>a, <2>5 DEF ModuleLoads, FinishStart
  <2>6. CASE phase[n] \in {"media", "module"} /\ CaptureFails(n)
    BY <1>0, <1>a, <2>6 DEF CaptureFails, FinishStart
  <2>7. QED
    BY <1>2, <2>1, <2>2, <2>3, <2>4, <2>5, <2>6 DEF Browser, MediaDenied, ModuleFails
<1>3. ASSUME NEW n \in Starts, Reported(n) PROVE PatientUser'
  BY <1>0, <1>a, <1>3 DEF Reported, SpeechStart, SpeechEnd, WorkletError, Reports, reported
<1>4. CASE ClickStop
  BY <1>0, <1>a, <1>4 DEF ClickStop, UserActs, UserEnds, StopMicrophone
<1>5. CASE Retry
  BY <1>0, <1>a, <1>5 DEF Retry, UserActs, UserEnds
<1>6. CASE SafeEnd
  BY <1>0, <1>a, <1>6 DEF SafeEnd, UserActs, UserEnds, StopMicrophone
<1>7. CASE Unmount
  BY <1>0, <1>a, <1>7 DEF Unmount, UserActs, UserEnds, StopMicrophone
<1>8. CASE ErrorArrives /\ UNCHANGED <<mounted, history>>
  BY <1>0, <1>a, <1>8 DEF ErrorArrives
<1>9. CASE UNCHANGED vars
  BY <1>0, <1>a, <1>9 DEF vars
<1>10. QED
  BY <1>1, <1>2, <1>3, <1>4, <1>5, <1>6, <1>7, <1>8, <1>9 DEF Next

LEMMA StaysUntroubled == [Next]_vars /\ ~troubled' => ~troubled
<1> SUFFICES ASSUME [Next]_vars, ~troubled' PROVE ~troubled
  OBVIOUS
<1>1. troubled' = TRUE \/ troubled' = troubled
  BY DEF Next, Browser, Reported, ErrorArrives, vars, history, ClickStart, UserActs, UserEnds,
         ClickStop, Retry, SafeEnd, Unmount, MediaDenied, ModuleFails, CaptureFails,
         SpeechStart, SpeechEnd, WorkletError
<1>2. QED
  BY <1>1

LEMMA UndisturbedStep ==
    IInv /\ [Next]_vars => (~overlapped' /\ ~troubled' => UndisturbedStart')
<1> SUFFICES ASSUME IInv, [Next]_vars, ~overlapped', ~troubled' PROVE UndisturbedStart'
  OBVIOUS
<1>0. /\ stream \in [Starts -> Streams \union {NoStream}]
      /\ captureRef \in Starts \union {NoCapture} /\ micStream \in Streams \union {NoStream}
      /\ liveStreams \subseteq Streams
      /\ phase \in [Starts -> {"new", "media", "module", "wired", "failed"}]
      /\ task \in [Starts -> {"none", "permission", "playback", "capture", "done"}]
      /\ \A n \in Starts : task[n] = "capture" <=> phase[n] \in {"media", "module"}
  BY DEF IInv, TypeOK
<1>a. /\ ~overlapped /\ ~troubled
      /\ PatientUser /\ UndisturbedStart /\ StreamsFresh
  BY StaysPatient, StaysUntroubled DEF IInv
<1> USE StreamFacts DEF history, captureVars, reported, Hears, PatientUser, UndisturbedStart, CaptureHears, Waits, Waiting
<1>1. ASSUME NEW n \in Starts, ClickStart(n) PROVE UndisturbedStart'
  <2>1. ~Waiting
    BY <1>1, PatientActs DEF ClickStart
  <2>2. micStream = NoStream
    BY <1>a, <1>1, <2>1 DEF ClickStart, UserActs
  <2>3. task' = [task EXCEPT ![n] = "permission"]
    BY <1>1, <2>2 DEF ClickStart
  <2>4. UNCHANGED <<stream, phase, liveStreams, micStream>>
    BY <1>1 DEF ClickStart
  <2>5. task'[n] = "permission" /\ \A m \in Starts : task'[m] \notin {"playback", "capture"}
    BY <1>0, <2>1, <2>3
  <2>6. QED
    BY <2>5
<1>2. ASSUME NEW n \in Starts, Browser(n) PROVE UndisturbedStart'
  <2>1. CASE PermissionGranted(n) /\ UNCHANGED troubled
    BY <1>0, <1>a, <2>1 DEF PermissionGranted, StreamsFresh, Unseen
  <2>2. CASE PermissionDenied(n) /\ UNCHANGED troubled
    BY <1>0, <1>a, <2>2 DEF PermissionDenied
  <2>3. CASE PlaybackSettles(n) /\ UNCHANGED troubled
    <3>1. /\ task[n] = "playback" /\ micStream \in liveStreams
          /\ \A m \in Starts : stream[m] # micStream
          /\ \A m \in Starts \ {n} : task[m] \notin Waits
      BY <1>a, <2>3 DEF PlaybackSettles
    <3>2. task' = [task EXCEPT ![n] = "capture"] /\ voiceActive' = TRUE
      BY <2>3 DEF PlaybackSettles
    <3>3. task'[n] = "capture" /\ \A m \in Starts \ {n} : task'[m] \notin Waits
      BY <1>0, <3>1, <3>2
    <3>4. micStream # NoStream /\ micStream' = micStream
      BY <1>0, <3>1, <2>3, StreamFacts DEF PlaybackSettles
    <3>5. phase'[n] = "module" /\ stream'[n] = micStream
      BY <1>0, <3>4, <2>3 DEF PlaybackSettles
    <3>6. micStream \in liveStreams'
      BY <1>0, <3>1, <3>4, <2>3, StreamFacts DEF PlaybackSettles, StreamOf
    <3>7. QED
      BY <3>2, <3>3, <3>5, <3>6
  <2>4. CASE MediaGranted(n) /\ UNCHANGED troubled
    BY <1>0, <1>a, <2>4 DEF MediaGranted, StreamsFresh, Unseen
  <2>5. CASE ModuleLoads(n) /\ UNCHANGED troubled
    BY <1>0, <1>a, <2>5 DEF ModuleLoads, FinishStart
  <2>6. CASE phase[n] \in {"media", "module"} /\ CaptureFails(n)
    BY <1>0, <1>a, <2>6 DEF CaptureFails, FinishStart
  <2>7. QED
    BY <1>2, <2>1, <2>2, <2>3, <2>4, <2>5, <2>6 DEF Browser, MediaDenied, ModuleFails
<1>3. ASSUME NEW n \in Starts, Reported(n) PROVE UndisturbedStart'
  BY <1>0, <1>a, <1>3 DEF Reported, SpeechStart, SpeechEnd, WorkletError, Reports, reported
<1>4. CASE ClickStop
  BY <1>0, <1>a, <1>4 DEF ClickStop, UserActs, UserEnds, StopMicrophone
<1>5. CASE Retry
  BY <1>0, <1>a, <1>5 DEF Retry, UserActs, UserEnds
<1>6. CASE SafeEnd
  BY <1>0, <1>a, <1>6 DEF SafeEnd, UserActs, UserEnds, StopMicrophone
<1>7. CASE Unmount
  BY <1>0, <1>a, <1>7 DEF Unmount, UserActs, UserEnds, StopMicrophone
<1>8. CASE ErrorArrives /\ UNCHANGED <<mounted, history>>
  BY <1>0, <1>a, <1>8 DEF ErrorArrives
<1>9. CASE UNCHANGED vars
  BY <1>0, <1>a, <1>9 DEF vars
<1>10. QED
  BY <1>1, <1>2, <1>3, <1>4, <1>5, <1>6, <1>7, <1>8, <1>9 DEF Next

\* The five parts of the invariant together.
LEMMA InvariantStep == IInv /\ [Next]_vars => IInv'
BY TypeStep, ActiveStep, SessionStep, FreshStep, PatientStep, UndisturbedStep DEF IInv

\* The voice input always satisfies IInv: which streams and captures exist at each
\* await of handleStart and AudioCapture.start.
THEOREM Invariant == Spec => []IInv
BY InitOK, InvariantStep, PTL DEF Spec

\* Every variable keeps its type, and handleStart waits for the capture exactly
\* while the capture waits for the browser, for every number of starts.
THEOREM TypeCorrect == Spec => []TypeOK
<1>1. IInv => TypeOK
  BY DEF IInv
<1>2. QED
  BY <1>1, Invariant, PTL

\* A capture that the App has lost sight of is never active.
THEOREM OneCapture == Spec => []OneActiveCapture
<1>1. IInv => OneActiveCapture
  BY DEF IInv
<1>2. QED
  BY <1>1, Invariant, PTL

\* A button that says voice is on tells the truth about the session and, after
\* undisturbed starts, about the microphone.
THEOREM VoiceOnHonest == Spec => []VoiceOnWorks
<1>1. IInv => VoiceOnWorks
  BY DEF IInv, SessionBehindButton, UndisturbedStart, VoiceOnWorks
<1>2. QED
  BY <1>1, Invariant, PTL

\* For the user who lets each start finish, stopping releases the microphone.
THEOREM MicReleased == Spec => []PatientStopReleasesMic
<1>1. IInv => PatientStopReleasesMic
  BY DEF IInv, PatientUser, PatientStopReleasesMic, StopReleasesMic
<1>2. QED
  BY <1>1, Invariant, PTL

\* For that user whatever a capture reports while it hears finds its session,
\* whether or not the App still refers to that capture.
THEOREM HeardInSessions == Spec => []HeardInSession
<1>1. IInv => HeardInSession
  BY DEF IInv, PatientUser, HeardInSession
<1>2. QED
  BY <1>1, Invariant, PTL

=============================================================================
