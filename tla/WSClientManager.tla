---------------------------- MODULE WSClientManager ----------------------------
(***************************************************************************)
(* The one WSClient that all mounted components share                      *)
(* (frontend/src/lib/wsClientManager.ts), composed with WSClient.  A       *)
(* component acquires the client when it mounts, sets the session id and   *)
(* connects (the mount effect of App.tsx); it releases the client when it  *)
(* unmounts.  The last release disconnects after a grace period, so that   *)
(* React's StrictMode can mount, unmount and mount again.                  *)
(***************************************************************************)
EXTENDS WSClient, FiniteSets

CONSTANT Components     \* components that use the client

VARIABLES
    refCount,           \* refCount
    disconnectTimer,    \* whether disconnectTimer is set
    mounted,            \* the components on the page
    handlers            \* whose onEvent, onError and onConnectionChange the client
                        \* calls: nobody's or one component's

managerVars == <<refCount, disconnectTimer, mounted, handlers>>
sharedVars == <<wsVars, managerVars>>

ManagerInit == WSInit /\ refCount = 0 /\ disconnectTimer = FALSE /\ mounted = {}
                   /\ handlers = {}

\* updateHandlers, or the constructor's assignment of the same three.
UpdateHandlers(owner) == handlers' = owner

\* acquireWSClient, which gives the client the handlers of this mount (to the
\* constructor or by updateHandlers), setSessionId and connect, in one effect.
Mount(m) ==
    /\ m \notin mounted
    /\ mounted' = mounted \union {m}
    /\ refCount' = refCount + 1
    /\ disconnectTimer' = FALSE
    /\ UpdateHandlers({m})
    /\ calls.connect < MaxConnects
    /\ Count("connect")
    /\ \E s \in SessionIds : sessionId' = s
    /\ ConnectSocket
    /\ UNCHANGED <<outgoing, queuedEvents, reconnectTimer, sessionActive, sentLog>>

\* Mutant of Unmount: the cleanup does not take the handlers back.
UnmountKeepsHandlers(m) ==
    /\ m \in mounted
    /\ mounted' = mounted \ {m}
    /\ refCount' = IF refCount = 0 THEN 0 ELSE refCount - 1
    /\ disconnectTimer' = (disconnectTimer \/ refCount = 1)
    /\ UNCHANGED <<handlers, wsVars>>

\* Mutant of Unmount: each release starts the grace period.
UnmountAlwaysArms(m) ==
    /\ m \in mounted
    /\ mounted' = mounted \ {m}
    /\ refCount' = IF refCount = 0 THEN 0 ELSE refCount - 1
    /\ disconnectTimer' = TRUE
    /\ UpdateHandlers({})
    /\ UNCHANGED wsVars

\* The cleanup of that effect: updateHandlers with nothing, whoever's handlers
\* they are by now, and releaseWSClient.
Unmount(m) ==
    /\ m \in mounted
    /\ mounted' = mounted \ {m}
    /\ refCount' = IF refCount = 0 THEN 0 ELSE refCount - 1
    /\ disconnectTimer' = (disconnectTimer \/ refCount = 1)
    /\ UpdateHandlers({})
    /\ UNCHANGED wsVars

\* Mutant of GraceExpires: the timer is forgotten.
GraceForgets == disconnectTimer /\ disconnectTimer' = FALSE
                    /\ UNCHANGED <<wsVars, refCount, mounted, handlers>>

\* The grace period is over.
GraceExpires ==
    /\ disconnectTimer
    /\ disconnectTimer' = FALSE
    /\ IF refCount = 0 THEN Disconnect ELSE UNCHANGED wsVars
    /\ UNCHANGED <<refCount, mounted, handlers>>

\* While a component is mounted it may use the client as WSClient describes,
\* handleRetry's connect() included.  Nobody else calls disconnect().
Use == mounted # {} /\ (Connect \/ Calls)

ManagerNext ==
    \/ \E m \in Components : Mount(m) \/ Unmount(m)
    \/ GraceExpires
    \/ (Use \/ Network) /\ UNCHANGED managerVars

ManagerSpec == ManagerInit /\ [][ManagerNext]_sharedVars

\* The browser settles every socket and runs the timers.
FairManagerSpec == ManagerSpec /\ WSFairness /\ WF_sharedVars(GraceExpires)

-----------------------------------------------------------------------------
(* Properties *)

\* The count is the number of mounted components, so the timer of an earlier
\* unmount never cuts off a component that was mounted within the grace period.
MountedStaysConnected ==
    /\ refCount = Cardinality(mounted)
    /\ mounted # {} => ~closedByUser /\ ~disconnectTimer

\* The client outlives its components, and its sockets' events arrive at any
\* time: it never calls the handlers of a component that has left the page.
OnlyMountedAreCalled == handlers \subseteq mounted

\* When the last component is gone the client is disconnected in the end,
\* unless another one is mounted before.
UnusedDisconnects ==
    mounted = {} /\ sessionId # NoSessionId ~> closedByUser \/ mounted # {}

=============================================================================
