---------------------------- MODULE PageStatus_proofs ----------------------------
(***************************************************************************)
(* Proofs about Boundary and PageStatus, for every address: the masks of   *)
(* the backend's policy hold exactly the documented ranges and ::1, only a *)
(* page there is ever served, and the App's settings are what it says.     *)
(***************************************************************************)
EXTENDS PageStatus, TLAPS

-----------------------------------------------------------------------------
(* One byte under one byte of a prefix mask *)

\* A full mask byte keeps the byte, an empty one clears it, and the twelve bits
\* of 172.16.0.0/12 end in the upper half of their second byte.
LEMMA MaskedByte ==
    ASSUME NEW b \in Byte
    PROVE  /\ And(b, 255) = b
           /\ And(b, 0) = 0
           /\ And(b, 240) = 16 <=> b >= 16 /\ b <= 31
BY SMT DEF And, Byte

\* The bytes of an address.
LEMMA AddressBytes ==
    ASSUME NEW ip \in Addresses
    PROVE  ip[13] \in Byte /\ ip[14] \in Byte /\ ip[15] \in Byte /\ ip[16] \in Byte
BY SMT DEF Addresses

-----------------------------------------------------------------------------
(* One allowed range at a time *)

\* A network of three mask bytes a, b and two empty ones holds an IPv4 address
\* exactly when its first two bytes agree under the mask.
LEMMA ContainsFirstTwo ==
    ASSUME NEW ip \in Addresses, NEW a, NEW b, NEW m, NEW n
    PROVE  Contains(CIDR(<<a, b, 0, 0>>, <<m, n, 0, 0>>), ip) <=>
               IsV4(ip) /\ And(ip[13], m) = a /\ And(ip[14], n) = b
<1> DEFINE range == CIDR(<<a, b, 0, 0>>, <<m, n, 0, 0>>)
<1>1. /\ range.net[1] = a /\ range.net[2] = b /\ range.net[3] = 0 /\ range.net[4] = 0
      /\ range.mask[1] = m /\ range.mask[2] = n /\ range.mask[3] = 0 /\ range.mask[4] = 0
  BY DEF CIDR
<1>2. And(ip[15], 0) = 0 /\ And(ip[16], 0) = 0
  BY AddressBytes, MaskedByte
<1>3. (\A i \in 1..4 : And(ip[12 + i], range.mask[i]) = range.net[i]) <=>
          /\ And(ip[13], range.mask[1]) = range.net[1]
          /\ And(ip[14], range.mask[2]) = range.net[2]
          /\ And(ip[15], range.mask[3]) = range.net[3]
          /\ And(ip[16], range.mask[4]) = range.net[4]
  <2> DEFINE agrees(i) == And(ip[12 + i], range.mask[i]) = range.net[i]
  <2>1. (\A i \in 1..4 : agrees(i)) <=> agrees(1) /\ agrees(2) /\ agrees(3) /\ agrees(4)
    <3> HIDE DEF agrees
    <3> QED BY SMT
  <2> QED BY <2>1, SMT
<1>4. QED
  BY <1>1, <1>2, <1>3 DEF Contains

\* The four ranges of the policy, byte by byte.
LEMMA AllowedRanges ==
    ASSUME NEW ip \in Addresses
    PROVE  (\E range \in AllowedNets : Contains(range, ip)) <=>
               /\ IsV4(ip)
               /\ \/ ip[13] = 127 \/ ip[13] = 10
                  \/ ip[13] = 172 /\ ip[14] >= 16 /\ ip[14] <= 31
                  \/ ip[13] = 192 /\ ip[14] = 168
<1> DEFINE in(a, b, m, n) == Contains(CIDR(<<a, b, 0, 0>>, <<m, n, 0, 0>>), ip)
<1>1. (\E range \in AllowedNets : Contains(range, ip)) <=>
          in(127, 0, 255, 0) \/ in(10, 0, 255, 0) \/ in(172, 16, 255, 240)
              \/ in(192, 168, 255, 255)
  BY DEF AllowedNets
<1>2. \A a, b, m, n : in(a, b, m, n) <=>
          IsV4(ip) /\ And(ip[13], m) = a /\ And(ip[14], n) = b
  BY ContainsFirstTwo
<1>3. /\ And(ip[13], 255) = ip[13] /\ And(ip[14], 255) = ip[14] /\ And(ip[14], 0) = 0
      /\ And(ip[14], 240) = 16 <=> ip[14] >= 16 /\ ip[14] <= 31
  BY AddressBytes, MaskedByte
<1> HIDE DEF in
<1>4. QED
  BY <1>1, <1>2, <1>3

\* The reference ranges, byte by byte.
LEMMA ReferenceRanges ==
    ASSUME NEW ip \in Addresses
    PROVE  /\ InRFC1918(ip) <=>
                  /\ IsV4(ip)
                  /\ \/ ip[13] = 10
                     \/ ip[13] = 172 /\ ip[14] >= 16 /\ ip[14] <= 31
                     \/ ip[13] = 192 /\ ip[14] = 168
           /\ InLocalhost(ip) <=> IsV4(ip) /\ ip[13] = 127
<1>1. /\ ip[13] \in 0..255 /\ ip[14] \in 0..255
      /\ ip[15] \in 0..255 /\ ip[16] \in 0..255
  BY AddressBytes DEF Byte
<1>2. NotBefore(10, 0, 0, 0, ip) /\ NotAfter(10, 255, 255, 255, ip) <=> ip[13] = 10
  BY <1>1 DEF NotBefore, NotAfter
<1>3. NotBefore(172, 16, 0, 0, ip) /\ NotAfter(172, 31, 255, 255, ip) <=>
          ip[13] = 172 /\ ip[14] >= 16 /\ ip[14] <= 31
  BY <1>1 DEF NotBefore, NotAfter
<1>4. NotBefore(192, 168, 0, 0, ip) /\ NotAfter(192, 168, 255, 255, ip) <=>
          ip[13] = 192 /\ ip[14] = 168
  BY <1>1 DEF NotBefore, NotAfter
<1>5. NotBefore(127, 0, 0, 0, ip) /\ NotAfter(127, 255, 255, 255, ip) <=> ip[13] = 127
  BY <1>1 DEF NotBefore, NotAfter
<1>6. QED
  BY <1>2, <1>3, <1>4, <1>5 DEF InRFC1918, InLocalhost

-----------------------------------------------------------------------------
(* The policy *)

\* ::1 is not an IPv4-mapped address.
LEMMA Loopback6IsV6 == ~IsV4(Loopback6)
BY DEF IsV4, Loopback6

\* IsLoopback is what the reference calls localhost, and ::1.
LEMMA LoopbackIsLocalhost ==
    ASSUME NEW ip \in Addresses
    PROVE  IsLoopback(ip) <=> InLocalhost(ip) \/ ip = Loopback6
BY ReferenceRanges, Loopback6IsV6 DEF IsLoopback

\* No address is the one that did not parse.
LEMMA AddressIsNotNil == Nil \notin Addresses
<1> SUFFICES ASSUME Nil \in Addresses PROVE FALSE
  OBVIOUS
<1>1. DOMAIN Nil = 1..16
  BY DEF Addresses
<1>2. DOMAIN Nil = {}
  BY DEF Nil
<1>3. QED
  BY <1>1, <1>2, 1 \in 1..16

\* The policy allows exactly the addresses of the documented ranges and ::1, for
\* every address and one that does not parse.
THEOREM PolicyExact ==
    ASSUME NEW ip \in Addresses \union {Nil}
    PROVE  AllowsIP(ip) <=> InBoundary(ip) \/ ip = Loopback6
<1>1. CASE ip = Nil
  <2>1. Nil # Loopback6
    <3> SUFFICES ASSUME Nil = Loopback6 PROVE FALSE
      OBVIOUS
    <3>1. DOMAIN Loopback6 = 1..16
      BY DEF Loopback6
    <3>2. DOMAIN Nil = {}
      BY DEF Nil
    <3>3. QED
      BY <3>1, <3>2, 1 \in 1..16
  <2>2. QED
    BY <1>1, <2>1 DEF AllowsIP, InBoundary
<1>2. CASE ip \in Addresses
  <2>1. ip # Nil
    BY <1>2, AddressIsNotNil
  <2>2. AllowsIP(ip) <=> IsLoopback(ip) \/ \E range \in AllowedNets : Contains(range, ip)
    BY <2>1 DEF AllowsIP
  <2>3. InBoundary(ip) <=> InRFC1918(ip) \/ InLocalhost(ip)
    BY <2>1 DEF InBoundary
  <2>4. (\E range \in AllowedNets : Contains(range, ip)) <=> InRFC1918(ip) \/ InLocalhost(ip)
    <3>1. (\E range \in AllowedNets : Contains(range, ip)) <=>
              /\ IsV4(ip)
              /\ \/ ip[13] = 127 \/ ip[13] = 10
                 \/ ip[13] = 172 /\ ip[14] >= 16 /\ ip[14] <= 31
                 \/ ip[13] = 192 /\ ip[14] = 168
      BY <1>2, AllowedRanges
    <3>2. InRFC1918(ip) <=>
              /\ IsV4(ip)
              /\ \/ ip[13] = 10
                 \/ ip[13] = 172 /\ ip[14] >= 16 /\ ip[14] <= 31
                 \/ ip[13] = 192 /\ ip[14] = 168
      BY <1>2, ReferenceRanges
    <3>3. InLocalhost(ip) <=> IsV4(ip) /\ ip[13] = 127
      BY <1>2, ReferenceRanges
    <3>4. QED
      BY <3>1, <3>2, <3>3
  <2>5. IsLoopback(ip) <=> InLocalhost(ip) \/ ip = Loopback6
    BY <1>2, LoopbackIsLocalhost
  <2>6. QED
    BY <2>2, <2>3, <2>4, <2>5
<1>3. QED
  BY <1>1, <1>2

-----------------------------------------------------------------------------
(* The page *)

ReadyStates == {"none", "connecting", "open", "closing"}

\* What the page has from a connection, or is about to have, it has because the
\* backend accepted its address.  This is inductive: the events on their way
\* (configSent, statusSent) are what OnlyLocalServed does not speak of.
Served ==
    \/ \E k \in Sockets : ready[k] \in {"open", "closing"}
    \/ configSent # {} \/ statusSent # {} \/ configReceived \/ boundary # "none"
PInv ==
    /\ remote \in Remotes
    /\ ready \in [Sockets -> ReadyStates]
    /\ Served => AllowsIP(remote)
    /\ boundary \in {"none", ScopeForIP(remote)}

LEMMA PInvInit == PageInit => PInv
BY DEF PageInit, Init, PInv, Served, ReadyStates

\* Being told of a state serves nothing: at most it takes the settings back.
LEMMA ToldServesNothing ==
    ASSUME NEW new, SetState(new)
    PROVE  configReceived' => configReceived
BY DEF SetState, SetWarningTimer, ResetConfigState, settings

LEMMA OpeningServesNothing ==
    ASSUME ready \in [Sockets -> ReadyStates], OpenSocket
    PROVE  /\ ready' \in [Sockets -> ReadyStates]
           /\ \A k \in Sockets : ready'[k] \in {"open", "closing"} =>
                  ready[k] \in {"open", "closing"}
           /\ configReceived' => configReceived
<1>1. PICK k \in Sockets : ready' = [ready EXCEPT ![k] = "connecting"]
  BY DEF OpenSocket
<1>2. configReceived' => configReceived
  BY ToldServesNothing DEF OpenSocket
<1>3. QED
  BY <1>1, <1>2 DEF ReadyStates

\* Nor does a connect(), a timer or a close event.
LEMMA ClientServesNothing ==
    ASSUME ready \in [Sockets -> ReadyStates],
           Connect \/ ReconnectTimerFires \/ \E k \in Sockets : Closes(k)
    PROVE  /\ ready' \in [Sockets -> ReadyStates]
           /\ \A k \in Sockets : ready'[k] \in {"open", "closing"} =>
                  ready[k] \in {"open", "closing"}
           /\ configReceived' => configReceived
           /\ UNCHANGED configSent
<1>1. CASE Connect
  BY <1>1, OpeningServesNothing DEF Connect, vars, settings
<1>2. CASE ReconnectTimerFires
  BY <1>2, OpeningServesNothing DEF ReconnectTimerFires
<1>3. CASE \E k \in Sockets : Closes(k)
  <2>1. PICK k \in Sockets : Closes(k)
    BY <1>3
  <2>2. configReceived' => configReceived
    BY <2>1, ToldServesNothing DEF Closes, ResetConfigState
  <2>3. ready' = [ready EXCEPT ![k] = "none"] /\ UNCHANGED configSent
    BY <2>1 DEF Closes
  <2>4. QED
    BY <2>2, <2>3 DEF ReadyStates
<1>4. QED
  BY <1>1, <1>2, <1>3

\* Each step of the page keeps it: only Accepted serves, and it asks the policy.
LEMMA PInvStep == PInv /\ [PageNext]_pageVars => PInv'
<1> SUFFICES ASSUME PInv, [PageNext]_pageVars PROVE PInv'
  OBVIOUS
<1> USE DEF PInv, Served, statusVars
<1>1. CASE PageConnects
  BY <1>1, ClientServesNothing DEF PageConnects
<1>2. CASE Retry
  BY <1>2, ClientServesNothing DEF Retry
<1>3. CASE SafeEnd
  BY <1>3 DEF SafeEnd, vars, settings
<1>4. CASE Settings
  BY <1>4 DEF Settings, WarningTimerFires, OtherNotice, PressStart, CreateAudioCapture,
              settings
<1>5. ASSUME NEW k \in Sockets, Accepted(k) PROVE PInv'
  <2>1. AllowsIP(remote) /\ ready' = [ready EXCEPT ![k] = "open"]
        /\ UNCHANGED <<remote, boundary>>
    BY <1>5 DEF Accepted, Open
  <2>2. QED
    BY <2>1 DEF ReadyStates
<1>6. ASSUME NEW k \in Sockets, Refused(k) \/ ConnectionCloses(k) PROVE PInv'
  BY <1>6, ClientServesNothing DEF Refused, ConnectionCloses
<1>7. ASSUME NEW k \in Sockets, ConnectionLost(k) PROVE PInv'
  <2>1. /\ ready[k] = "open" /\ ready' = [ready EXCEPT ![k] = "closing"]
        /\ configSent' = configSent \ {k} /\ statusSent' = statusSent \ {k}
        /\ UNCHANGED <<remote, boundary, configReceived>>
    BY <1>7 DEF ConnectionLost, Fails, settings
  <2>2. AllowsIP(remote)
    BY <2>1
  <2>3. QED
    BY <2>1, <2>2 DEF ReadyStates
<1>8. ASSUME NEW k \in Sockets, BoundaryStatusArrives(k) PROVE PInv'
  BY <1>8 DEF BoundaryStatusArrives, vars, settings
<1>9. ASSUME NEW k \in Sockets, ConfigFollows(k) PROVE PInv'
  BY <1>9 DEF ConfigFollows, ConfigArrives
<1>10. ASSUME NEW k \in Sockets, ErrorArrives(k) PROVE PInv'
  BY <1>10 DEF ErrorArrives, vars, settings
<1>11. CASE UNCHANGED pageVars
  BY <1>11 DEF pageVars, vars, settings
<1>12. QED
  BY <1>1, <1>2, <1>3, <1>4, <1>5, <1>6, <1>7, <1>8, <1>9, <1>10, <1>11 DEF PageNext

\* The policy is exact, so what the policy allows the reference holds, but for
\* ::1, and the scope that is shown is the reference's.
LEMMA PInvImplies == PInv => OnlyLocalServed
<1> SUFFICES ASSUME PInv PROVE OnlyLocalServed
  OBVIOUS
<1>1. remote \in Addresses \union {Nil}
  BY RemotesAssumption DEF PInv
<1>2. Served => InBoundary(remote) \/ remote = Loopback6
  BY <1>1, PolicyExact DEF PInv
<1>3. CASE boundary = "none"
  BY <1>2, <1>3 DEF OnlyLocalServed, Served
<1>4. CASE boundary # "none"
  <2>1. boundary = ScopeForIP(remote) /\ AllowsIP(remote)
    BY <1>4 DEF PInv, Served
  <2>2. remote # Nil /\ remote \in Addresses
    BY <1>1, <2>1 DEF AllowsIP
  <2>3. IsLoopback(remote) <=> InLocalhost(remote) \/ remote = Loopback6
    BY <2>2, LoopbackIsLocalhost
  <2>4. IsLoopback(remote) \/ InRFC1918(remote)
    BY <1>1, <2>1, <2>3, PolicyExact DEF InBoundary
  <2>5. QED
    BY <1>2, <1>4, <2>1, <2>2, <2>3, <2>4 DEF OnlyLocalServed, Served, ScopeForIP
<1>5. QED
  BY <1>3, <1>4

\* "Communication stays within RFC 1918 and localhost", and ::1, for pages at
\* every address, any settings and any number of sockets.
THEOREM LocalOnly == PageSpec => []OnlyLocalServed
<1>1. PageSpec => []PInv
  BY PInvInit, PInvStep, PTL DEF PageSpec
<1>2. QED
  BY <1>1, PInvImplies, PTL

-----------------------------------------------------------------------------
(* The settings *)

\* Whatever is in the file and the environment, the backend loads a length in
\* range, so that the App takes it as it is.
LEMMA LoadedInRange == \A f, e : InRange(LoadServerConfig(f, e))
BY DEF LoadServerConfig, Valid, InRange, Default

\* ConfigHonest says nothing of a CONFIG on its way.  It can only arrive over a
\* socket that is open, so that the client still has another one than those it
\* connects.
ConfigInv ==
    /\ ConfigHonest
    /\ ready \in [Sockets -> ReadyStates]
    /\ \A k \in configSent : k \in Sockets /\ ready[k] = "open"

LEMMA ConfigInvInit == PageInit => ConfigInv
BY DEF PageInit, Init, ConfigInv, ConfigHonest, ReadyStates

\* The values of the settings agree with each other.
SettingsAgree ==
    /\ configReceived => audioChunkMs = LoadServerConfig(file, env)
    /\ ~configReceived => audioChunkMs = Default
    /\ notice = "config" => ~configReceived

\* A client that connects and has nothing else.
OnlyConnects ==
    /\ connection \in {"connecting", "reconnecting"}
    /\ \A k \in Sockets : ready[k] \in {"none", "connecting"}

LEMMA HonestParts == ConfigHonest <=> SettingsAgree /\ (OnlyConnects => ~configReceived)
BY DEF ConfigHonest, SettingsAgree, OnlyConnects

\* Being told of a state keeps the settings in agreement, and resets them or
\* leaves the state as it was when the client connects.
LEMMA ToldAgrees ==
    ASSUME SettingsAgree, NEW new, SetState(new), UNCHANGED setup
    PROVE  /\ SettingsAgree'
           /\ connection' = new
           /\ configReceived' => configReceived
           /\ new \in {"connecting", "reconnecting"} /\ configReceived' => connection = new
BY DEF SettingsAgree, SetState, SetWarningTimer, ResetConfigState, settings, setup

LEMMA OpeningAgrees ==
    ASSUME ConfigInv, OpenSocket, UNCHANGED <<setup, configSent>>
    PROVE  ConfigInv'
<1> DEFINE new == IF connection = "open" THEN "reconnecting" ELSE "connecting"
<1>1. SetState(new)
  BY DEF OpenSocket
<1>2. PICK k \in Sockets :
          ready[k] = "none" /\ ready' = [ready EXCEPT ![k] = "connecting"]
  BY DEF OpenSocket
<1>3. SettingsAgree
  BY HonestParts DEF ConfigInv
<1>4. /\ SettingsAgree' /\ connection' = new /\ (configReceived' => configReceived)
      /\ new \in {"connecting", "reconnecting"} /\ configReceived' => connection = new
  BY <1>1, <1>3, ToldAgrees
<1>5. OnlyConnects' => ~configReceived'
  <2> SUFFICES ASSUME OnlyConnects', configReceived' PROVE FALSE
    OBVIOUS
  <2>1. connection = new /\ connection' = new /\ configReceived
    BY <1>4 DEF OnlyConnects
  <2>2. \A j \in Sockets : ready[j] \in {"none", "connecting"}
    BY <1>2 DEF OnlyConnects, ConfigInv
  <2>3. OnlyConnects
    BY <2>1, <2>2 DEF OnlyConnects
  <2>4. QED
    BY <2>1, <2>3, HonestParts DEF ConfigInv
<1>6. ConfigHonest'
  BY <1>4, <1>5, HonestParts DEF ConfigHonest, SettingsAgree, OnlyConnects
<1>7. QED
  BY <1>2, <1>6 DEF ConfigInv, ReadyStates

LEMMA ClosingAgrees ==
    ASSUME ConfigInv, NEW k \in Sockets, Closes(k)
    PROVE  ConfigInv'
<1>1. /\ ready[k] \in {"connecting", "closing"} /\ ready' = [ready EXCEPT ![k] = "none"]
      /\ UNCHANGED <<setup, configSent>>
  BY DEF Closes
<1>2. SettingsAgree
  BY HonestParts DEF ConfigInv
<1>3. CASE SetState("closed")
  <2>1. SettingsAgree' /\ connection' = "closed"
    BY <1>1, <1>2, <1>3, ToldAgrees
  <2>2. ConfigHonest'
    BY <2>1 DEF ConfigHonest, SettingsAgree
  <2>3. QED
    BY <1>1, <2>2 DEF ConfigInv, ReadyStates
<1>4. CASE connection' = "reconnecting" /\ ResetConfigState
  <2>1. ConfigHonest'
    BY <1>1, <1>4 DEF ConfigHonest, ResetConfigState, setup
  <2>2. QED
    BY <1>1, <2>1 DEF ConfigInv, ReadyStates
<1>5. QED
  BY <1>3, <1>4 DEF Closes

\* The steps of AudioConfig keep it, in any order.
LEMMA SettingsStep == ConfigInv /\ [Next]_vars => ConfigInv'
<1> SUFFICES ASSUME ConfigInv, [Next]_vars PROVE ConfigInv'
  OBVIOUS
<1>1. CASE Connect
  <2>1. CASE UNCHANGED vars
    BY <2>1 DEF ConfigInv, ConfigHonest, vars, setup, client, settings
  <2>2. CASE OpenSocket /\ UNCHANGED <<setup, configSent>>
    BY <2>2, OpeningAgrees
  <2>3. QED
    BY <1>1, <2>1, <2>2 DEF Connect
<1>2. CASE ReconnectTimerFires
  BY <1>2, OpeningAgrees DEF ReconnectTimerFires
<1>3. ASSUME NEW k \in Sockets, Open(k) PROVE ConfigInv'
  <2>1. /\ SetState("open") /\ ready' = [ready EXCEPT ![k] = "open"]
        /\ configSent' = configSent \union {k} /\ UNCHANGED setup
    BY <1>3 DEF Open
  <2>2. SettingsAgree' /\ connection' = "open"
    BY <2>1, HonestParts, ToldAgrees DEF ConfigInv
  <2>3. ConfigHonest'
    BY <2>2 DEF ConfigHonest, SettingsAgree
  <2>4. QED
    BY <2>1, <2>3 DEF ConfigInv, ReadyStates
<1>4. ASSUME NEW k \in Sockets, Fails(k) PROVE ConfigInv'
  BY <1>4 DEF Fails, ConfigInv, ConfigHonest, ReadyStates, setup, client, settings
<1>5. ASSUME NEW k \in Sockets, Closes(k) PROVE ConfigInv'
  BY <1>5, ClosingAgrees
<1>6. ASSUME NEW k \in Sockets, ConfigArrives(k) PROVE ConfigInv'
  <2>1. audioChunkMs' = LoadServerConfig(file, env)
    BY <1>6, LoadedInRange DEF ConfigArrives, NormalizeAudioChunkMs
  <2>2. ready[k] = "open"
    BY <1>6 DEF ConfigArrives, ConfigInv
  <2>3. QED
    BY <1>6, <2>1, <2>2 DEF ConfigArrives, ConfigInv, ConfigHonest, setup, client
<1>7. CASE WarningTimerFires
  BY <1>7 DEF WarningTimerFires, Warned, ConfigInv, ConfigHonest, setup, client
<1>8. CASE OtherNotice
  BY <1>8 DEF OtherNotice, ConfigInv, ConfigHonest, setup, client
<1>9. ASSUME NEW n \in 1..MaxStarts, PressStart(n) \/ CreateAudioCapture(n)
      PROVE  ConfigInv'
  BY <1>9 DEF PressStart, CreateAudioCapture, ConfigInv, ConfigHonest, setup, client, settings
<1>10. CASE UNCHANGED vars
  BY <1>10 DEF ConfigInv, ConfigHonest, vars, setup, client, settings
<1>11. QED
  BY <1>1, <1>2, <1>3, <1>4, <1>5, <1>6, <1>7, <1>8, <1>9, <1>10 DEF Next

\* Every step of the page is one of them, as far as the settings go.
LEMMA PageKeepsSettings == [PageNext]_pageVars => [Next]_vars
BY DEF PageNext, pageVars, PageConnects, Accepted, Refused, ConnectionLost,
       ConnectionCloses, BoundaryStatusArrives, ConfigFollows, ErrorArrives, Retry,
       SafeEnd, Settings, Next

\* The page works with the backend's value exactly when it says so, and with the
\* default while it connects and has no other socket, however many sockets there
\* are, in whatever order they open, deliver CONFIG and end, and whatever the
\* file and the environment hold.
THEOREM SettingsHonest == PageSpec => []ConfigHonest
<1>1. ConfigInv /\ [PageNext]_pageVars => ConfigInv'
  BY SettingsStep, PageKeepsSettings
<1>2. ConfigInv => ConfigHonest
  BY DEF ConfigInv
<1>3. QED
  BY ConfigInvInit, <1>1, <1>2, PTL DEF PageSpec

=============================================================================
