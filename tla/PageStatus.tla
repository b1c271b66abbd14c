------------------------------- MODULE PageStatus -------------------------------
(***************************************************************************)
(* The connection of a page at some address to the backend, as far as the  *)
(* page shows it: the boundary check of the handshake and its two first    *)
(* events (backend/internal/server/ws_handler.go), the boundary, settings  *)
(* and error state of the App and the banner in which they compete         *)
(* (frontend/src/App.tsx), composed with AudioConfig and Boundary.         *)
(***************************************************************************)
EXTENDS AudioConfig, Boundary

CONSTANT Remotes    \* addresses the page may be at

ASSUME RemotesAssumption == Remotes \subseteq Addresses \union {Nil}

VARIABLES
    remote,         \* address of the page
    statusSent,     \* sockets over which BOUNDARY_STATUS is on its way
    boundary,       \* scope the App shows, or "none"
    errorState      \* code of the error the App shows, or "none"

statusVars == <<remote, statusSent, boundary, errorState>>
pageVars == <<vars, statusVars>>

PageInit ==
    /\ Init
    /\ remote \in Remotes /\ statusSent = {}
    /\ boundary = "none" /\ errorState = "none"

\* The mount effect connects; later the client reconnects by itself.
PageConnects ==
    /\ \/ connection = "idle" /\ Connect
       \/ ReconnectTimerFires
    /\ UNCHANGED statusVars

\* The handshake with an address inside the boundary; BOUNDARY_STATUS and
\* CONFIG are written.
Accepted(k) ==
    /\ AllowsIP(remote)
    /\ Open(k)
    /\ statusSent' = statusSent \union {k}
    /\ UNCHANGED <<remote, boundary, errorState>>

\* "forbidden", or nobody listens: an error event and a close event.
Refused(k) ==
    /\ ready[k] = "connecting"
    /\ Closes(k)
    /\ errorState' = "CHANNEL_DISCONNECTED"
    /\ UNCHANGED <<remote, statusSent, boundary>>

\* An open connection breaks, with what is on its way ...
ConnectionLost(k) ==
    /\ Fails(k)
    /\ statusSent' = statusSent \ {k}
    /\ UNCHANGED <<remote, boundary, errorState>>

\* ... and the page is told, with an error event or without.
ConnectionCloses(k) ==
    /\ ready[k] = "closing"
    /\ Closes(k)
    /\ errorState' \in {errorState, "CHANNEL_DISCONNECTED"}
    /\ UNCHANGED <<remote, statusSent, boundary>>

-----------------------------------------------------------------------------
(* Events of the backend, in the order they were written *)

BoundaryStatusArrives(k) ==
    /\ k \in statusSent
    /\ statusSent' = statusSent \ {k}
    /\ boundary' = ScopeForIP(remote)
    /\ UNCHANGED <<vars, remote, errorState>>

ConfigFollows(k) == k \notin statusSent /\ ConfigArrives(k) /\ UNCHANGED statusVars

ErrorArrives(k) ==
    /\ ready[k] = "open" /\ k \notin statusSent \union configSent
    /\ errorState' = "UNKNOWN"
    /\ UNCHANGED <<vars, remote, statusSent, boundary>>

-----------------------------------------------------------------------------
(* The banner: a notice hides the error and its two buttons. *)

ErrorShown == notice = "none" /\ errorState # "none"

\* handleRetry, with the client's connect(), which does not look at the timer.
Retry ==
    /\ ErrorShown
    /\ errorState' = "none"
    /\ Connect
    /\ UNCHANGED <<remote, statusSent, boundary>>

\* handleSafeEnd
SafeEnd ==
    /\ ErrorShown
    /\ errorState' = "none"
    /\ UNCHANGED <<vars, remote, statusSent, boundary>>

\* The rest of AudioConfig: the warning, other notices and the voice input.
Settings ==
    /\ \/ WarningTimerFires \/ OtherNotice
       \/ \E n \in 1..MaxStarts : PressStart(n) \/ CreateAudioCapture(n)
    /\ UNCHANGED statusVars

PageNext ==
    \/ PageConnects \/ Retry \/ SafeEnd \/ Settings
    \/ \E k \in Sockets :
           \/ Accepted(k) \/ Refused(k) \/ ConnectionLost(k) \/ ConnectionCloses(k)
           \/ BoundaryStatusArrives(k) \/ ConfigFollows(k) \/ ErrorArrives(k)

PageSpec == PageInit /\ [][PageNext]_pageVars

\* The browser runs the timer of the warning; the network promises nothing.
FairPageSpec == PageSpec /\ WF_pageVars(WarningTimerFires /\ UNCHANGED statusVars)

-----------------------------------------------------------------------------
(* Properties *)

\* Only a page whose address the documented ranges hold, or one at ::1, is ever
\* connected, gets the settings or sees a boundary, and what it sees is where it
\* is: a refused connection leaves nothing of an accepted one behind.
OnlyLocalServed ==
    /\ (\E k \in Sockets : ready[k] \in {"open", "closing"})
           \/ configReceived \/ boundary # "none"
           => InBoundary(remote) \/ remote = Loopback6
    /\ boundary = "localhost" => InLocalhost(remote) \/ remote = Loopback6
    /\ boundary = "rfc1918" => InRFC1918(remote)

-----------------------------------------------------------------------------
(* What the documents say and the code does not do *)

\* "IPv6 is not allowed (only RFC 1918 of IPv4 and 127.0.0.0/8)": the policy
\* asks IsLoopback first, which ::1 is as well.
OnlyDocumentedServed == (\E k \in Sockets : ready[k] = "open") => InBoundary(remote)

\* The error of a lost connection is gone when the client has reconnected.
ErrorEndsWithReconnection == connection = "open" => errorState # "CHANNEL_DISCONNECTED"

=============================================================================
