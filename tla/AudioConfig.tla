------------------------------ MODULE AudioConfig ------------------------------
(***************************************************************************)
(* The length of an audio chunk, from the backend's configuration          *)
(* (backend/internal/server/config.go) over the CONFIG event to the App    *)
(* (frontend/src/App.tsx), which keeps a default until the event arrives,  *)
(* warns when it does not arrive in time, and hands the value to each      *)
(* AudioCapture it creates.                                                *)
(*                                                                         *)
(* The page is one task at a time; the events of the sockets, the timers   *)
(* and the awaits of handleStart interleave.  The callbacks of every       *)
(* socket that is still there reach the App, also those of one the client  *)
(* has replaced (frontend/src/lib/wsClient.ts).  handleStart works with    *)
(* the value of the render in which the button was pressed.                *)
(*                                                                         *)
(* Abstractions.  The page stays mounted, so disconnect() is not called.   *)
(* Of the client there is what decides about its state; its queue and its  *)
(* session are in WSClient.  A socket that is gone makes room for another. *)
(***************************************************************************)
EXTENDS Integers

CONSTANTS
    FileSettings,   \* what the file can say: numbers, Absent or Broken
    EnvSettings,    \* what the environment can say: numbers, Absent or Broken
    Absent,         \* no file, an empty one, or one without the setting; no variable
    Broken,         \* a file that cannot be read or parsed; not a number
    Sockets,        \* bound: one for each socket that is there at a time
    NoSocket,       \* null
    MaxStarts       \* bound: presses of the start button

ASSUME MaxStartsAssumption == MaxStarts \in Nat
ASSUME NoSocketAssumption == NoSocket \notin Sockets

VARIABLES
    file, env,              \* what the backend was configured with
    ready,                  \* readyState of each socket, "none" without one
    socket,                 \* this.socket, or NoSocket
    connection,             \* this.state, as the App was told
    reconnectTimer,
    configSent,             \* sockets over which CONFIG is on its way
    configReceived,         \* configReceivedRef
    audioChunkMs,           \* the App's state
    notice,                 \* kind of the notice shown
    warningTimer,           \* configWarningTimerRef
    pressed,                \* audioChunkMs in the render of each waiting start
    capture                 \* chunkDurationMs of the last AudioCapture, or 0

setup == <<file, env>>
client == <<socket, connection, reconnectTimer>>
settings == <<configReceived, audioChunkMs, notice, warningTimer>>
voice == <<pressed, capture>>
vars == <<setup, ready, client, configSent, settings, voice>>

Default == 20
InRange(ms) == ms >= 20 /\ ms <= 50
\* Mutant of Valid: numbers out of range are taken.
AnyNumber(setting) == setting \notin {Absent, Broken}
Valid(setting) == setting \notin {Absent, Broken} /\ InRange(setting)

\* LoadServerConfig and what NewMux makes of its error: a broken file gives the
\* default and the environment is not looked at any more.
LoadServerConfig(f, e) ==
    IF f = Broken THEN Default
    ELSE IF Valid(e) THEN e
    ELSE IF Valid(f) THEN f ELSE Default

\* normalizeAudioChunkMs of the App
NormalizeAudioChunkMs(ms) == IF InRange(ms) THEN ms ELSE Default

Init ==
    /\ file \in FileSettings /\ env \in EnvSettings
    /\ ready = [k \in Sockets |-> "none"] /\ socket = NoSocket
    /\ connection = "idle" /\ reconnectTimer = FALSE
    /\ configSent = {}
    /\ configReceived = FALSE /\ audioChunkMs = Default
    /\ notice = "none" /\ warningTimer = FALSE
    /\ pressed = [n \in 1..MaxStarts |-> 0]
    /\ capture = 0

-----------------------------------------------------------------------------
(* What the App does when it is told of a connection: onConnectionChange *)

\* resetConfigState, on "connecting" and "reconnecting"
ResetConfigState ==
    /\ configReceived' = FALSE
    /\ audioChunkMs' = Default
    /\ notice' = IF notice = "config" THEN "none" ELSE notice
    /\ warningTimer' = FALSE

\* The warning is scheduled on "open" and cleared on "closed".
SetWarningTimer(runs) ==
    /\ warningTimer' = runs
    /\ UNCHANGED <<configReceived, audioChunkMs, notice>>

\* setState: the App is told of a change only.
SetState(new) ==
    /\ connection' = new
    /\ \/ new = connection /\ UNCHANGED settings
       \/ new # connection /\ new \in {"connecting", "reconnecting"} /\ ResetConfigState
       \/ new # connection /\ new \in {"open", "closed"} /\ SetWarningTimer(new = "open")

-----------------------------------------------------------------------------
(* The client and its sockets *)

OpenSocket ==
    /\ SetState(IF connection = "open" THEN "reconnecting" ELSE "connecting")
    /\ \E k \in Sockets :
           /\ ready[k] = "none"
           /\ ready' = [ready EXCEPT ![k] = "connecting"]
           /\ socket' = k

Live(k) == k # NoSocket /\ ready[k] \in {"connecting", "open"}

\* connect()
Connect ==
    \/ Live(socket) /\ UNCHANGED vars
    \/ /\ ~Live(socket)
       /\ OpenSocket
       /\ UNCHANGED <<setup, reconnectTimer, configSent, voice>>

ReconnectTimerFires ==
    /\ reconnectTimer
    /\ reconnectTimer' = FALSE
    /\ OpenSocket
    /\ UNCHANGED <<setup, configSent, voice>>

\* The socket opens and the backend writes CONFIG.
Open(k) ==
    /\ ready[k] = "connecting"
    /\ ready' = [ready EXCEPT ![k] = "open"]
    /\ SetState("open")
    /\ configSent' = configSent \union {k}
    /\ UNCHANGED <<setup, socket, reconnectTimer, voice>>

\* An open socket begins to close: what is still on its way is lost.
Fails(k) ==
    /\ ready[k] = "open"
    /\ ready' = [ready EXCEPT ![k] = "closing"]
    /\ configSent' = configSent \ {k}
    /\ UNCHANGED <<setup, client, settings, voice>>

\* The close event, of a socket that could not connect or has closed: "closed",
\* and then "reconnecting" unless a reconnection is planned already.
Closes(k) ==
    /\ ready[k] \in {"connecting", "closing"}
    /\ ready' = [ready EXCEPT ![k] = "none"]
    /\ socket' = NoSocket
    /\ reconnectTimer' = TRUE
    /\ \/ reconnectTimer /\ SetState("closed")
       \/ ~reconnectTimer /\ connection' = "reconnecting" /\ ResetConfigState
    /\ UNCHANGED <<setup, configSent, voice>>

-----------------------------------------------------------------------------
(* CONFIG and the warning *)

\* CONFIG, over any socket that is still open.
ConfigArrives(k) ==
    /\ k \in configSent
    /\ configSent' = configSent \ {k}
    /\ configReceived' = TRUE
    /\ audioChunkMs' = NormalizeAudioChunkMs(LoadServerConfig(file, env))
    /\ notice' = IF notice = "config" THEN "none" ELSE notice
    /\ UNCHANGED <<setup, ready, client, warningTimer, voice>>

\* Mutant of Warned: the warning is only logged.
NotWarned == notice
Warned == IF configReceived \/ notice = "other" THEN notice ELSE "config"

\* scheduleConfigWarning's callback: another notice is not covered.
WarningTimerFires ==
    /\ warningTimer
    /\ warningTimer' = FALSE
    /\ notice' = Warned
    /\ UNCHANGED <<setup, ready, client, configSent, configReceived, audioChunkMs, voice>>

\* Any other setNotice, and setNotice(null).
OtherNotice ==
    /\ notice' \in {"other", "none"}
    /\ UNCHANGED <<setup, ready, client, configSent, configReceived, audioChunkMs,
                   warningTimer, voice>>

-----------------------------------------------------------------------------
(* The voice input *)

\* handleStart is entered with the value of the current render ...
PressStart(n) ==
    /\ pressed[n] = 0
    /\ \A m \in 1..(n - 1) : pressed[m] # 0
    /\ pressed' = [pressed EXCEPT ![n] = audioChunkMs]
    /\ UNCHANGED <<setup, ready, client, configSent, settings, capture>>

\* ... and creates the AudioCapture after its awaits.
CreateAudioCapture(n) ==
    /\ pressed[n] > 0
    /\ capture' = pressed[n]
    /\ pressed' = [pressed EXCEPT ![n] = -1]
    /\ UNCHANGED <<setup, ready, client, configSent, settings>>

Next ==
    \/ Connect \/ ReconnectTimerFires
    \/ \E k \in Sockets : Open(k) \/ Fails(k) \/ Closes(k) \/ ConfigArrives(k)
    \/ WarningTimerFires \/ OtherNotice
    \/ \E n \in 1..MaxStarts : PressStart(n) \/ CreateAudioCapture(n)

Spec == Init /\ [][Next]_vars

-----------------------------------------------------------------------------
(* Properties *)

\* The App works with the value the backend loaded exactly when it says so: a
\* received value is the backend's, the warning means that the default is used,
\* and while the client connects and has no other socket left the App has fallen
\* back to the default, however many sockets there were and in whatever order
\* they ended.
ConfigHonest ==
    /\ configReceived => audioChunkMs = LoadServerConfig(file, env)
    /\ ~configReceived => audioChunkMs = Default
    /\ notice = "config" => ~configReceived
    /\ /\ connection \in {"connecting", "reconnecting"}
       /\ \A k \in Sockets : ready[k] \in {"none", "connecting"}
       => ~configReceived

\* A new connection over which no CONFIG comes does not stay unnoticed: the user
\* is told something, or the connection goes away, or CONFIG comes after all,
\* even if earlier connections were lost while their warning was pending.
ConfigOrNotice ==
    connection = "open" /\ warningTimer
        ~> configReceived \/ notice # "none" \/ connection # "open"

-----------------------------------------------------------------------------
(* What the documents say and the code does not do *)

\* "The audio settings are synchronised on the client": an AudioCapture is
\* created with the value the App has.
CaptureUsesConfig == [][pressed' # pressed /\ capture' # capture
                            => capture' = audioChunkMs]_vars

\* No value of an earlier connection is in use while the client connects: the
\* CONFIG of another socket that is still open arrives after the reset.
ResetWhileConnecting ==
    connection \in {"connecting", "reconnecting"} => ~configReceived

\* "audioChunkMs is given in the configuration file and can be overridden by an
\* environment variable".
EnvironmentOverrides == Valid(env) => LoadServerConfig(file, env) = env

=============================================================================
