---------------------------- MODULE EndToEnd_proofs ----------------------------
(***************************************************************************)
(* Proofs about EndToEnd for a page with one session id: that client and   *)
(* backend agree about the session whenever nothing is on the way, and     *)
(* that utterances of an active session are accepted, for every number of  *)
(* sockets, failures, restarts and events.                                 *)
(*                                                                         *)
(* What decides is what a queue or a socket has still to deliver, and so   *)
(* the invariant speaks of segments: the events of a sequence behind the   *)
(* n-th up to the m-th.                                                    *)
(***************************************************************************)
EXTENDS EndToEnd, WSClient_proofs

\* The lemmas about the session manager, for the one behind the sockets.
ServerProofs == INSTANCE SessionManager_proofs WITH
    Sessions <- SessionIds, NoSession <- NoSessionId, Callers <- Sockets,
    Texts <- {"typed"}, NoText <- "", VoiceText <- "spoken",
    MaxGeneration <- MaxSends

-----------------------------------------------------------------------------
(* Segments *)

Starts(e) == e.type = "START_SESSION"
Stops(e) == e.type = "STOP_SESSION"

NoStop(q, n, m) == \A j \in (n + 1)..m : ~Stops(q[j])
HasStart(q, n, m) == \E i \in (n + 1)..m : Starts(q[i])

\* The session is started in the segment and not stopped behind that.
Rises(q, n, m) == \E i \in (n + 1)..m : Starts(q[i]) /\ NoStop(q, i, m)

\* Whether the session is active when the segment has been handled, if it was
\* before (a).
ActiveAfter(q, n, m, a) == Rises(q, n, m) \/ (a /\ NoStop(q, n, m))

LEMMA SegmentEmpty ==
    ASSUME NEW q, NEW n \in Nat
    PROVE  NoStop(q, n, n) /\ ~Rises(q, n, n) /\ ~HasStart(q, n, n)
BY DEF NoStop, Rises, HasStart

LEMMA SegmentFirst ==
    ASSUME NEW q, NEW n \in Nat, NEW m \in Nat, n < m
    PROVE  /\ NoStop(q, n, m) <=> ~Stops(q[n + 1]) /\ NoStop(q, n + 1, m)
           /\ HasStart(q, n, m) <=> Starts(q[n + 1]) \/ HasStart(q, n + 1, m)
           /\ Rises(q, n, m) <=> \/ Starts(q[n + 1]) /\ NoStop(q, n + 1, m)
                                 \/ Rises(q, n + 1, m)
<1>1. \A i \in (n + 1)..m : i = n + 1 \/ i \in (n + 2)..m
  OBVIOUS
<1>2. n + 1 \in (n + 1)..m /\ \A i \in (n + 2)..m : i \in (n + 1)..m
  OBVIOUS
<1>3. (n + 1) + 1 = n + 2
  OBVIOUS
<1>4. NoStop(q, n, m) <=> ~Stops(q[n + 1]) /\ NoStop(q, n + 1, m)
  BY <1>1, <1>2, <1>3 DEF NoStop
<1>5. HasStart(q, n, m) <=> Starts(q[n + 1]) \/ HasStart(q, n + 1, m)
  BY <1>1, <1>2, <1>3 DEF HasStart
<1>6. Rises(q, n, m) <=> \/ Starts(q[n + 1]) /\ NoStop(q, n + 1, m)
                         \/ Rises(q, n + 1, m)
  BY <1>1, <1>2, <1>3 DEF Rises
<1>7. QED
  BY <1>4, <1>5, <1>6

LEMMA SegmentLast ==
    ASSUME NEW q, NEW n \in Nat, NEW m \in Nat, n <= m
    PROVE  /\ NoStop(q, n, m + 1) <=> NoStop(q, n, m) /\ ~Stops(q[m + 1])
           /\ HasStart(q, n, m + 1) <=> HasStart(q, n, m) \/ Starts(q[m + 1])
           /\ Rises(q, n, m + 1) <=> \/ Starts(q[m + 1])
                                     \/ Rises(q, n, m) /\ ~Stops(q[m + 1])
<1>1. \A i \in (n + 1)..(m + 1) : i = m + 1 \/ i \in (n + 1)..m
  OBVIOUS
<1>2. m + 1 \in (n + 1)..(m + 1) /\ \A i \in (n + 1)..m : i \in (n + 1)..(m + 1)
  OBVIOUS
<1>3. ~(Starts(q[m + 1]) /\ Stops(q[m + 1]))
  BY DEF Starts, Stops
<1>4. NoStop(q, n, m + 1) <=> NoStop(q, n, m) /\ ~Stops(q[m + 1])
  BY <1>1, <1>2 DEF NoStop
<1>5. HasStart(q, n, m + 1) <=> HasStart(q, n, m) \/ Starts(q[m + 1])
  BY <1>1, <1>2 DEF HasStart
<1>6. \A i \in (n + 1)..m : NoStop(q, i, m + 1) <=> NoStop(q, i, m) /\ ~Stops(q[m + 1])
  <2> TAKE i \in (n + 1)..m
  <2>1. \A j \in (i + 1)..(m + 1) : j = m + 1 \/ j \in (i + 1)..m
    OBVIOUS
  <2>2. m + 1 \in (i + 1)..(m + 1) /\ \A j \in (i + 1)..m : j \in (i + 1)..(m + 1)
    OBVIOUS
  <2>3. QED
    BY <2>1, <2>2 DEF NoStop
<1>7. NoStop(q, m + 1, m + 1)
  BY DEF NoStop
<1>8. Rises(q, n, m + 1) <=> \/ Starts(q[m + 1])
                             \/ Rises(q, n, m) /\ ~Stops(q[m + 1])
  BY <1>1, <1>2, <1>3, <1>6, <1>7 DEF Rises
<1>9. QED
  BY <1>4, <1>5, <1>8

LEMMA SegmentSame ==
    ASSUME NEW q, NEW r, NEW n \in Nat, NEW m \in Nat,
           \A i \in (n + 1)..m : r[i] = q[i]
    PROVE  /\ NoStop(r, n, m) <=> NoStop(q, n, m)
           /\ HasStart(r, n, m) <=> HasStart(q, n, m)
           /\ Rises(r, n, m) <=> Rises(q, n, m)
<1>1. \A i \in (n + 1)..m : \A j \in (i + 1)..m : r[j] = q[j]
  OBVIOUS
<1>2. \A i \in (n + 1)..m : NoStop(r, i, m) <=> NoStop(q, i, m)
  BY <1>1 DEF NoStop
<1>3. QED
  BY <1>2 DEF NoStop, HasStart, Rises

\* A sequence with one event put before it.
LEMMA SegmentShift ==
    ASSUME NEW q, NEW r, NEW m \in Nat, \A i \in 1..m : r[i + 1] = q[i]
    PROVE  /\ NoStop(r, 1, m + 1) <=> NoStop(q, 0, m)
           /\ Rises(r, 1, m + 1) <=> Rises(q, 0, m)
<1>1. ASSUME NEW i \in 0..m PROVE NoStop(r, i + 1, m + 1) <=> NoStop(q, i, m)
  <2>1. \A j \in (i + 1)..m : j \in 1..m /\ j + 1 \in (i + 2)..(m + 1)
    OBVIOUS
  <2>2. \A j \in (i + 2)..(m + 1) : j - 1 \in (i + 1)..m /\ (j - 1) + 1 = j
    OBVIOUS
  <2>3. (i + 1) + 1 = i + 2
    OBVIOUS
  <2>4. ASSUME NoStop(r, i + 1, m + 1), NEW j \in (i + 1)..m PROVE ~Stops(q[j])
    BY <2>1, <2>3, <2>4 DEF NoStop
  <2>5. ASSUME NoStop(q, i, m), NEW j \in (i + 2)..(m + 1) PROVE ~Stops(r[j])
    <3>1. r[j] = q[j - 1]
      BY <2>1, <2>2
    <3>2. QED
      BY <2>2, <2>5, <3>1 DEF NoStop
  <2>6. QED
    BY <2>3, <2>4, <2>5 DEF NoStop
<1>2. NoStop(r, 1, m + 1) <=> NoStop(q, 0, m)
  BY <1>1
<1>3. ASSUME Rises(q, 0, m) PROVE Rises(r, 1, m + 1)
  <2>1. PICK i \in 1..m : Starts(q[i]) /\ NoStop(q, i, m)
    BY <1>3 DEF Rises
  <2>2. i + 1 \in 2..(m + 1) /\ Starts(r[i + 1]) /\ NoStop(r, i + 1, m + 1)
    BY <1>1, <2>1
  <2>3. QED
    BY <2>2 DEF Rises
<1>4. ASSUME Rises(r, 1, m + 1) PROVE Rises(q, 0, m)
  <2>1. PICK j \in 2..(m + 1) : Starts(r[j]) /\ NoStop(r, j, m + 1)
    BY <1>4 DEF Rises
  <2>2. j - 1 \in 1..m /\ (j - 1) + 1 = j
    OBVIOUS
  <2>3. Starts(q[j - 1]) /\ NoStop(q, j - 1, m)
    BY <1>1, <2>1, <2>2
  <2>4. QED
    BY <2>2, <2>3 DEF Rises
<1>5. QED
  BY <1>2, <1>3, <1>4

\* A segment with a start that leaves an active session active leaves any active.
LEMMA SegmentStarts ==
    ASSUME NEW q, NEW n \in Nat, NEW m \in Nat,
           HasStart(q, n, m), ActiveAfter(q, n, m, TRUE)
    PROVE  Rises(q, n, m)
<1>1. CASE NoStop(q, n, m)
  <2>1. PICK i \in (n + 1)..m : Starts(q[i])
    BY DEF HasStart
  <2>2. NoStop(q, i, m)
    BY <1>1 DEF NoStop
  <2>3. QED
    BY <2>1, <2>2 DEF Rises
<1>2. QED
  BY <1>1 DEF ActiveAfter

\* A sequence with one event put behind it.
LEMMA SegmentAppend ==
    ASSUME NEW S, NEW q \in Seq(S), NEW e \in S, NEW n \in Nat, n <= Len(q)
    PROVE  LET r == Append(q, e)
           IN  /\ Len(r) = Len(q) + 1 /\ r[Len(q) + 1] = e
               /\ \A i \in 1..Len(q) : r[i] = q[i]
               /\ NoStop(r, n, Len(r)) <=> NoStop(q, n, Len(q)) /\ ~Stops(e)
               /\ HasStart(r, n, Len(r)) <=> HasStart(q, n, Len(q)) \/ Starts(e)
               /\ Rises(r, n, Len(r)) <=> \/ Starts(e)
                                          \/ Rises(q, n, Len(q)) /\ ~Stops(e)
               /\ \A i \in n..Len(q) : /\ NoStop(r, n, i) <=> NoStop(q, n, i)
                                       /\ Rises(r, n, i) <=> Rises(q, n, i)
<1> DEFINE r == Append(q, e)
<1>1. /\ Len(q) \in Nat /\ Len(r) = Len(q) + 1 /\ r[Len(q) + 1] = e
      /\ \A i \in 1..Len(q) : r[i] = q[i]
  OBVIOUS
<1> HIDE DEF r
<1>2. ASSUME NEW i \in n..Len(q)
      PROVE  /\ NoStop(r, n, i) <=> NoStop(q, n, i)
             /\ HasStart(r, n, i) <=> HasStart(q, n, i)
             /\ Rises(r, n, i) <=> Rises(q, n, i)
  <2>1. i \in Nat /\ \A j \in (n + 1)..i : r[j] = q[j]
    BY <1>1
  <2>2. QED
    BY <2>1, SegmentSame
<1>3. /\ NoStop(r, n, Len(q) + 1) <=> NoStop(r, n, Len(q)) /\ ~Stops(e)
      /\ HasStart(r, n, Len(q) + 1) <=> HasStart(r, n, Len(q)) \/ Starts(e)
      /\ Rises(r, n, Len(q) + 1) <=> \/ Starts(e)
                                     \/ Rises(r, n, Len(q)) /\ ~Stops(e)
  BY <1>1, SegmentLast
<1>4. Len(q) \in n..Len(q)
  BY <1>1
<1>5. QED
  BY <1>1, <1>2, <1>3, <1>4 DEF r

-----------------------------------------------------------------------------
(* The backend *)

Active == \E s \in known : session[s].active
Connected == \E s \in SessionIds : session[s].connected
UnknownFresh == \A s \in SessionIds \ known : ~session[s].active /\ ~session[s].connected

LEMMA ServerAssumptions == MaxSends \in Nat /\ "spoken" # ""
BY BoundsAssumption

LEMMA SameTypes == Server!SMTypeOK <=> ServerProofs!SMTypeOK
BY DEF Server!SMTypeOK, ServerProofs!SMTypeOK, Server!Session, ServerProofs!Session,
       Server!ServerEvent, ServerProofs!ServerEvent, Server!EventTypes,
       ServerProofs!EventTypes, Server!Generations, ServerProofs!Generations,
       Server!Entry, ServerProofs!Entry, Server!States, ServerProofs!States,
       Server!Utterances, ServerProofs!Utterances

LEMMA CallIsCall ==
    ASSUME NEW k \in Sockets, NEW e \in Frames, Call(k, e)
    PROVE  ServerProofs!SMNext
<1>1. e.session \in SessionIds
  BY DEF Frames
<1>2. Server!StartSession(k, e.session) => ServerProofs!StartSession(k, e.session)
  BY DEF Server!StartSession, ServerProofs!StartSession, Server!Return,
         ServerProofs!Return, Server!NoGen, ServerProofs!NoGen
<1>3. Server!Refuse(k, e.session) <=> ServerProofs!Refuse(k, e.session)
  BY DEF Server!Refuse, ServerProofs!Refuse, Server!Return, ServerProofs!Return,
         Server!Event, ServerProofs!Event, Server!NoGen, ServerProofs!NoGen
<1>4. Server!StopSession(k, e.session) => ServerProofs!StopSession(k, e.session)
  BY <1>3 DEF Server!StopSession, ServerProofs!StopSession, Server!Return,
              ServerProofs!Return, Server!NoGen, ServerProofs!NoGen
<1>5. \A text : Server!HandlePipeline(k, e.session, text)
                    <=> ServerProofs!HandlePipeline(k, e.session, text)
  BY DEF Server!HandlePipeline, ServerProofs!HandlePipeline, Server!AfterTurn,
         ServerProofs!AfterTurn, Server!Exchange, ServerProofs!Exchange,
         Server!StubLLM, ServerProofs!StubLLM, Server!Return, ServerProofs!Return,
         Server!Reply, ServerProofs!Reply, Server!Event, ServerProofs!Event
<1>6. Server!UserSpeechEnd(k, e.session) => ServerProofs!UserSpeechEnd(k, e.session)
  BY <1>3, <1>5 DEF Server!UserSpeechEnd, ServerProofs!UserSpeechEnd,
                    Server!RequireActive, ServerProofs!RequireActive
<1>7. Server!TextInput(k, e.session, "typed") => ServerProofs!TextInput(k, e.session, "typed")
  BY <1>3, <1>5 DEF Server!TextInput, ServerProofs!TextInput
<1>8. Call(k, e) => ServerProofs!Handle(k, e.session)
  BY <1>2, <1>4, <1>6, <1>7 DEF Call, ServerProofs!Handle
<1>9. QED
  BY <1>1, <1>8 DEF ServerProofs!SMNext

LEMMA CallTypesServer ==
    ASSUME NEW k \in Sockets, NEW e \in Frames, Call(k, e), Server!SMTypeOK
    PROVE  Server!SMTypeOK'
<1>1. ServerProofs!SMTypeOK /\ ServerProofs!SMNext
  BY SameTypes, CallIsCall
<1>2. ServerProofs!SMTypeOK'
  BY <1>1, ServerAssumptions, ServerProofs!TypePreserved
<1>3. QED
  BY <1>2, SameTypes, PTL

\* What one event does to the session of the page.
LEMMA CallEffect ==
    ASSUME OnePage, Server!SMTypeOK, UnknownFresh,
           NEW k \in Sockets, NEW e \in Frames, Call(k, e)
    PROVE  /\ Starts(e) => Active' /\ Connected'
           /\ Stops(e) => ~Active'
           /\ ~Starts(e) /\ ~Stops(e) => (Active' <=> Active)
           /\ Connected => Connected'
           /\ IsRefusal(result'[k]) => ~Active
           /\ UnknownFresh'
<1> DEFINE s == e.session
<1>0. /\ s \in SessionIds /\ SessionIds = {s} /\ known \subseteq {s}
      /\ session \in [SessionIds -> Server!Session]
      /\ session[s] \in Server!Session
      /\ result \in [Sockets -> Seq(Server!ServerEvent)]
  BY DEF Frames, OnePage, Server!SMTypeOK
<1> HIDE DEF s
<1>1. Active <=> s \in known /\ session[s].active
  BY <1>0 DEF Active
<1>2. Connected <=> session[s].connected
  BY <1>0 DEF Connected
<1>3. UnknownFresh => (s \notin known => ~session[s].active /\ ~session[s].connected)
  BY <1>0 DEF UnknownFresh
<1>a. known' \subseteq {s} =>
          /\ Active' <=> s \in known' /\ session'[s].active
          /\ Connected' <=> session'[s].connected
          /\ UnknownFresh' <=> (s \notin known' => ~session'[s].active
                                                   /\ ~session'[s].connected)
  BY <1>0 DEF Active, Connected, UnknownFresh
<1>4. CASE Starts(e) /\ Server!StartSession(k, s)
  <2>1. /\ known' = {s}
        /\ session' = [session EXCEPT ![s] =
               [session[s] EXCEPT !.active = TRUE, !.connected = TRUE,
                                  !.state = "idle", !.activeGen = Server!NoGen]]
        /\ result' = [result EXCEPT ![k] = <<>>]
    BY <1>0, <1>4 DEF Server!StartSession, Server!Return
  <2>2. session'[s].active /\ session'[s].connected
    BY <1>0, <2>1 DEF Server!Session
  <2>3. ~IsRefusal(result'[k])
    BY <1>0, <2>1 DEF IsRefusal
  <2>4. QED
    BY <1>4, <1>a, <2>1, <2>2, <2>3 DEF Starts, Stops
<1>5. ASSUME Server!Refuse(k, s), ~Active, ~Starts(e)
      PROVE  /\ ~Active' /\ ~Active /\ (Connected <=> Connected') /\ UnknownFresh'
  <2>1. UNCHANGED <<known, session>>
    BY <1>5 DEF Server!Refuse
  <2>2. QED
    BY <1>5, <2>1 DEF Active, Connected, UnknownFresh
<1>6. CASE Stops(e) /\ Server!StopSession(k, s)
  <2>1. CASE s \notin known
    <3>1. Server!Refuse(k, s) /\ ~Active
      BY <1>1, <1>6, <2>1 DEF Server!StopSession
    <3>2. QED
      BY <1>5, <1>6, <3>1 DEF Starts, Stops
  <2>2. CASE s \in known
    <3>1. /\ known' = {s}
          /\ session' = [session EXCEPT ![s] =
                 [session[s] EXCEPT !.active = FALSE, !.state = "idle",
                                    !.activeGen = Server!NoGen]]
          /\ result' = [result EXCEPT ![k] = <<>>]
      BY <1>0, <1>6, <2>2 DEF Server!StopSession, Server!Return
    <3>2. ~session'[s].active /\ session'[s].connected = session[s].connected
      BY <1>0, <3>1 DEF Server!Session
    <3>3. ~IsRefusal(result'[k])
      BY <1>0, <3>1 DEF IsRefusal
    <3>4. QED
      BY <1>2, <1>6, <1>a, <3>1, <3>2, <3>3 DEF Starts, Stops
  <2>3. QED
    BY <2>1, <2>2
<1>7. ASSUME NEW text, Server!HandlePipeline(k, s, text), known' = {s}
      PROVE  /\ session'[s].active = session[s].active
             /\ session'[s].connected = session[s].connected
             /\ ~IsRefusal(result'[k])
  <2>1. session' = [session EXCEPT ![s] =
            [session[s] EXCEPT !.state = "thinking", !.activeGen = session[s].nextGen,
                               !.nextGen = session[s].nextGen + 1,
                               !.transcripts = Server!Exchange(session[s].transcripts, text)]]
    BY <1>0, <1>7 DEF Server!HandlePipeline, Server!AfterTurn
  <2>2. session'[s].active = session[s].active /\ session'[s].connected = session[s].connected
    BY <1>0, <2>1 DEF Server!Session
  <2>3. result'[k] = Server!Reply(s, session[s].nextGen)
    BY <1>0, <1>7 DEF Server!HandlePipeline, Server!Return
  <2>4. ~IsRefusal(result'[k])
    BY <2>3 DEF IsRefusal, Server!Reply, Server!Event
  <2>5. QED
    BY <2>2, <2>4
<1>8. CASE e.type = "USER_SPEECH_END" /\ Server!UserSpeechEnd(k, s)
  <2>0. ~Starts(e) /\ ~Stops(e)
    BY <1>8 DEF Starts, Stops
  <2>1. CASE ~Server!RequireActive(s)
    <3>1. Server!Refuse(k, s) /\ ~Active
      BY <1>1, <1>8, <2>1 DEF Server!UserSpeechEnd, Server!RequireActive
    <3>2. QED
      BY <1>5, <2>0, <3>1
  <2>2. CASE Server!RequireActive(s)
    <3>1. Server!HandlePipeline(k, s, "spoken") /\ known' = {s} /\ known = {s}
      BY <1>0, <1>8, <2>2 DEF Server!UserSpeechEnd, Server!RequireActive
    <3>2. QED
      BY <1>1, <1>2, <1>7, <1>a, <2>0, <3>1
  <2>3. QED
    BY <2>1, <2>2
<1>9. CASE e.type = "TEXT_INPUT" /\ Server!TextInput(k, s, "typed")
  <2>0. ~Starts(e) /\ ~Stops(e)
    BY <1>9 DEF Starts, Stops
  <2>1. Server!HandlePipeline(k, s, "typed") /\ known' = {s}
    BY <1>0, <1>9 DEF Server!TextInput
  <2>2. s \notin known => ~session[s].active
    BY <1>3
  <2>3. QED
    BY <1>1, <1>2, <1>7, <1>a, <2>0, <2>1, <2>2
<1>10. QED
  BY <1>4, <1>6, <1>8, <1>9 DEF Call, s, Starts, Stops

\* A connection that has served the page leaves no session connected; one that
\* has served nothing changes nothing.
LEMMA EndEffect ==
    ASSUME OnePage, Server!SMTypeOK, UnknownFresh,
           outgoing \in [Sockets -> Seq(Frames)], read \in [Sockets -> Nat],
           NEW k \in Sockets, read[k] <= Len(outgoing[k]), ConnectionEnds(k)
    PROVE  /\ Active' <=> Active
           /\ read[k] > 0 => ~Connected'
           /\ Connected' => Connected
           /\ UnknownFresh'
           /\ Server!SMTypeOK'
<1> DEFINE s == outgoing[k][read[k]].session
<1>0. /\ session \in [SessionIds -> Server!Session]
      /\ known \subseteq SessionIds
  BY DEF Server!SMTypeOK
<1>1. CASE read[k] > 0 /\ s \in known
  <2>0. s \in SessionIds /\ SessionIds = {s}
    BY <1>0, <1>1 DEF OnePage
  <2>1. Server!MarkDisconnected(s)
    BY <1>1 DEF ConnectionEnds
  <2> HIDE DEF s
  <2>2. /\ session' = [session EXCEPT ![s] = [session[s] EXCEPT !.connected = FALSE]]
        /\ session[s] \in Server!Session /\ UNCHANGED known
    BY <1>0, <2>0, <2>1 DEF Server!MarkDisconnected
  <2>3. session'[s].active = session[s].active /\ ~session'[s].connected
    BY <1>0, <2>0, <2>2 DEF Server!Session
  <2>4. Active' <=> Active
    BY <1>0, <2>0, <2>2, <2>3 DEF Active
  <2>5. ~Connected' /\ UnknownFresh'
    BY <1>0, <1>1, <2>0, <2>2, <2>3 DEF Connected, UnknownFresh
  <2>6. ServerProofs!SMTypeOK /\ ServerProofs!SMNext
    <3>1. ServerProofs!MarkDisconnected(s)
      BY <2>1 DEF Server!MarkDisconnected, ServerProofs!MarkDisconnected
    <3>2. QED
      BY <2>0, <3>1, SameTypes DEF ServerProofs!SMNext
  <2>7. ServerProofs!SMTypeOK'
    BY <2>6, ServerAssumptions, ServerProofs!TypePreserved
  <2>8. Server!SMTypeOK'
    BY <2>7, SameTypes, PTL
  <2>9. QED
    BY <2>4, <2>5, <2>8
<1>2. CASE ~(read[k] > 0 /\ s \in known)
  <2>1. UNCHANGED <<known, session, result>>
    BY <1>2 DEF ConnectionEnds, serverVars
  <2>2. read[k] > 0 => ~Connected
    <3>1. SUFFICES ASSUME read[k] > 0 PROVE ~Connected
      OBVIOUS
    <3>2. outgoing[k][read[k]] \in Frames
      <4>1. outgoing[k] \in Seq(Frames) /\ read[k] \in 1..Len(outgoing[k])
        BY <3>1
      <4>2. QED
        BY <4>1, ElementOfSeq
    <3>3. s \in SessionIds /\ SessionIds = {s}
      BY <3>2 DEF Frames, OnePage
    <3>4. s \notin known
      BY <1>2, <3>1
    <3>5. QED
      BY <3>3, <3>4 DEF Connected, UnknownFresh
  <2>3. Active' <=> Active
    BY <2>1 DEF Active
  <2>4. Connected' <=> Connected
    BY <2>1 DEF Connected
  <2>5. UnknownFresh'
    BY <2>1 DEF UnknownFresh
  <2>6. Server!SMTypeOK'
    BY <2>1 DEF Server!SMTypeOK
  <2>7. QED
    BY <2>2, <2>3, <2>4, <2>5, <2>6
<1>3. QED
  BY <1>1, <1>2

\* A process that has just started knows nothing.
LEMMA FreshEffect == Server!SMInit => /\ ~Active /\ ~Connected
                                      /\ UnknownFresh /\ Server!SMTypeOK
<1> SUFFICES ASSUME Server!SMInit
             PROVE  ~Active /\ ~Connected /\ UnknownFresh /\ Server!SMTypeOK
  OBVIOUS
<1>1. ~Active /\ ~Connected /\ UnknownFresh
  BY DEF Server!SMInit, Server!Fresh, Active, Connected, UnknownFresh
<1>2. ServerProofs!SMInit
  BY DEF Server!SMInit, ServerProofs!SMInit, Server!Fresh, ServerProofs!Fresh,
         Server!NoGen, ServerProofs!NoGen
<1>3. ServerProofs!IInv
  BY <1>2, ServerAssumptions, ServerProofs!IInvInit
<1>4. ServerProofs!SMTypeOK
  BY <1>3 DEF ServerProofs!IInv
<1>5. QED
  BY <1>1, <1>4, SameTypes

LEMMA RestartEffect ==
    ASSUME ServerRestarts
    PROVE  ~Active' /\ ~Connected' /\ UnknownFresh' /\ Server!SMTypeOK'
<1>1. Server!SMInit'
  BY DEF ServerRestarts, Server!SMInit
<1>2. QED
  BY <1>1, FreshEffect, PTL

-----------------------------------------------------------------------------
(* The invariant *)

Reading(k) == conn[k] = "reading"

\* The client uses an open connection that the backend still reads.
Served == Is(socket, "open") /\ Reading(socket)

\* What will have become of the session when everything on k was handled, and
\* when the queue was handled after that.
Left(k) == ActiveAfter(outgoing[k], read[k], Len(outgoing[k]), Active)
AfterQueue(a) == ActiveAfter(queuedEvents, 0, Len(queuedEvents), a)

StartOnTheWay(k) == HasStart(outgoing[k], read[k], Len(outgoing[k]))

EndTypes ==
    /\ Server!SMTypeOK
    /\ conn \in [Sockets -> {"none", "reading", "closed"}]
    /\ read \in [Sockets -> Nat]
    /\ promised \subseteq Nat /\ refused \subseteq Nat

ConnInv ==
    /\ \A k \in Sockets :
           /\ read[k] <= Len(outgoing[k])
           /\ ready[k] \in {"unused", "connecting"} =>
                  outgoing[k] = <<>> /\ read[k] = 0 /\ conn[k] = "none"
           /\ ready[k] = "open" => conn[k] # "none"
    /\ orderly => \A j, k \in Sockets : Reading(j) /\ Reading(k) => j = k
    /\ UnknownFresh
    /\ Connected => \E k \in Sockets : Reading(k) /\ read[k] > 0

\* The queue does not end an active session, the client's own START_SESSION is
\* at its head, and its promised events find an active session active.
QueueInv ==
    /\ sessionActive => AfterQueue(TRUE)
    /\ \A i \in DOMAIN queuedEvents :
           /\ Starts(queuedEvents[i]) /\ queuedEvents[i].number = 0 => i = 1
           /\ queuedEvents[i].number \in promised =>
                  /\ sessionActive /\ ~Starts(queuedEvents[i])
                  /\ ActiveAfter(queuedEvents, 0, i - 1, TRUE)

\* An active session will be active and connected.
ActiveInv ==
    orderly /\ Served /\ sessionActive =>
        Left(socket) /\ (StartOnTheWay(socket) \/ Connected)

\* A stopped one will not be active, if no stop was lost.
StoppedInv ==
    orderly /\ NoStopLost /\ ~sessionActive =>
        /\ \A k \in Sockets : Reading(k) => ~AfterQueue(Left(k))
        /\ (\A k \in Sockets : ~Reading(k)) => ~AfterQueue(Active)

NumbersInv ==
    /\ \A n \in promised : 1 <= n /\ n <= calls.send
    /\ \A n \in refused : n <= calls.send
    /\ \A k \in Sockets : \A i \in DOMAIN outgoing[k] : outgoing[k][i].number <= calls.send
    /\ \A i \in DOMAIN queuedEvents : queuedEvents[i].number <= calls.send

\* The promised events on the way find the session active.
Awaited(k) ==
    \A i \in (read[k] + 1)..Len(outgoing[k]) :
        outgoing[k][i].number \in promised =>
            \/ StartedBehind(outgoing[k][i].number)
            \/ ActiveAfter(outgoing[k], read[k], i - 1, Active)

PromiseInv ==
    /\ orderly => \A k \in Sockets : Reading(k) => Awaited(k)
    /\ UtterancesAccepted

LinkInv ==
    /\ EndTypes /\ ConnInv /\ QueueInv /\ ActiveInv /\ StoppedInv
    /\ NumbersInv /\ PromiseInv

EndInv == ClientInv /\ LinkInv

\* A stop is lost with what a connection has left unread.
LEMMA LostStops ==
    /\ NoStopLost <=> \A k \in Sockets : conn[k] = "closed" =>
                          NoStop(outgoing[k], read[k], Len(outgoing[k]))
    /\ NoStopLost' <=> \A k \in Sockets : conn'[k] = "closed" =>
                           NoStop(outgoing'[k], read'[k], Len(outgoing'[k]))
BY Zenon DEF NoStopLost, NoStop, Stops

-----------------------------------------------------------------------------
(* The steps *)

\* Nothing is sent, queued or handled.
Unmoved ==
    /\ UNCHANGED <<outgoing, queuedEvents, sessionActive, serverVars, conn, read,
                   refused, promised, orderly>>
    /\ calls'.send = calls.send
    /\ \A k \in Sockets : \/ ready'[k] = ready[k]
                          \/ ready[k] = "unused" /\ ready'[k] = "connecting"
                          \/ ready'[k] \in {"closing", "closed"}
    /\ Is(socket, "open")' => socket' = socket /\ Is(socket, "open")

\* The App submits an event.
Says(e) ==
    /\ e \in ClientEvents
    /\ e.number = calls.send + 1 /\ calls'.send = calls.send + 1
    /\ SendEvent(e)
    /\ UNCHANGED <<ready, socket, serverVars, conn, read, refused, orderly>>

SaysStart(e) == Says(e) /\ Starts(e) /\ sessionActive' = TRUE /\ UNCHANGED promised
SaysStop(e) ==
    /\ Says(e) /\ Stops(e) /\ sessionActive' = FALSE
    /\ promised' = promised \ {queuedEvents[i].number : i \in DOMAIN queuedEvents}
SaysMore(e) ==
    /\ Says(e) /\ ~Starts(e) /\ ~Stops(e) /\ UNCHANGED sessionActive
    /\ promised' = IF sessionActive THEN promised \union {e.number} ELSE promised

\* The backend's end of a connection goes.
Loses(k) ==
    /\ ConnectionEnds(k)
    /\ UNCHANGED <<ready, outgoing, queuedEvents, socket, sessionActive>>
    /\ calls'.send = calls.send

LEMMA PageSays ==
    ASSUME WSTypeOK, NEW type \in SendTypes \union {"START_SESSION", "STOP_SESSION"},
           NEW s \in SessionIds, CanSend
    PROVE  /\ Numbered(type, s) \in ClientEvents
           /\ Numbered(type, s).number = calls.send + 1
           /\ Numbered(type, s).type = type
           /\ Count("send") => calls'.send = calls.send + 1
<1>1. calls.send \in Nat /\ calls.send + 1 \in 0..MaxSends /\ calls \in CallCounts
  BY BoundsAssumption DEF WSTypeOK, CanSend, CallCounts
<1>2. Count("send") => calls'.send = calls.send + 1
  BY <1>1 DEF Count, CallCounts
<1>3. QED
  BY <1>1, <1>2 DEF Numbered, Event, ClientEvents

LEMMA Steps ==
    ASSUME WSTypeOK, SocketInv, [Next]_vars
    PROVE  \/ Unmoved
           \/ \E e \in ClientEvents : SaysStart(e) \/ SaysStop(e) \/ SaysMore(e)
           \/ \E k \in Sockets : SocketAccepted(k) \/ ServerReads(k) \/ Loses(k)
           \/ ServerRestarts
<1>0. /\ ready \in [Sockets -> {"unused", "connecting", "open", "closing", "closed"}]
      /\ socket \in Sockets \union {NoSocket} /\ calls \in CallCounts
  BY DEF WSTypeOK, CallCounts
<1>1. CASE PageConnects
  <2>1. UNCHANGED <<outgoing, queuedEvents, sessionActive, serverVars, conn, read,
                    refused, promised, orderly>>
    BY <1>1 DEF PageConnects, Connect
  <2>2. calls'.send = calls.send
    BY <1>0, <1>1 DEF PageConnects, Connect, Count, CallCounts
  <2>3. /\ \A k \in Sockets : \/ ready'[k] = ready[k]
                              \/ ready[k] = "unused" /\ ready'[k] = "connecting"
        /\ Is(socket, "open")' => socket' = socket /\ Is(socket, "open")
    BY <1>0, <1>1, SocketFacts DEF PageConnects, Connect, ConnectSocket, OpenSocket, Is
  <2>4. QED
    BY <2>1, <2>2, <2>3 DEF Unmoved
<1>2. CASE ClientEnd
  <2>1. UNCHANGED <<outgoing, queuedEvents, sessionActive, serverVars, conn, read,
                    refused, promised, orderly>>
    BY <1>2 DEF ClientEnd, SocketFails, SocketCloses, ConnectFails, OnClose,
                ReconnectTimerFires, client
  <2>2. calls'.send = calls.send
    BY <1>0, <1>2 DEF ClientEnd, SocketFails, SocketCloses, ConnectFails, OnClose,
                      ReconnectTimerFires, client, Count, CallCounts
  <2>3. /\ \A k \in Sockets : \/ ready'[k] = ready[k]
                              \/ ready[k] = "unused" /\ ready'[k] = "connecting"
                              \/ ready'[k] \in {"closing", "closed"}
        /\ Is(socket, "open")' => socket' = socket /\ Is(socket, "open")
    BY <1>0, <1>2, SocketFacts
       DEF ClientEnd, SocketFails, SocketCloses, ConnectFails, OnClose,
           ReconnectTimerFires, OpenSocket, Is, client
  <2>4. QED
    BY <2>1, <2>2, <2>3 DEF Unmoved
<1>3. ASSUME NEW k \in Sockets, PeerGone(k) PROVE Unmoved
  BY <1>0, <1>3 DEF PeerGone, Unmoved, client, Is
<1>4. CASE UNCHANGED vars
  BY <1>4 DEF vars, wsVars, Unmoved, client, Is
<1>5. ASSUME NEW s \in SessionIds, PageStarts(s)
      PROVE  \E e \in ClientEvents : SaysStart(e)
  BY <1>5, PageSays DEF PageStarts, StartSession, SaysStart, Says, Starts
<1>6. CASE PageStops
  <2>1. sessionId \in SessionIds
    BY <1>6 DEF PageStops, StopSession, WSTypeOK
  <2>2. SaysStop(Numbered("STOP_SESSION", sessionId))
    BY <1>6, <2>1, PageSays DEF PageStops, StopSession, SaysStop, Says, Stops
  <2>3. QED
    BY <2>2 DEF SaysStop, Says
<1>7. ASSUME NEW type \in SendTypes, PageSends(type)
      PROVE  \E e \in ClientEvents : SaysMore(e)
  <2>1. sessionId \in SessionIds
    BY <1>7 DEF PageSends, Send, WSTypeOK
  <2>2. SaysMore(Numbered(type, sessionId))
    BY <1>7, <2>1, PageSays, SendTypesAssumption
       DEF PageSends, Send, SaysMore, Says, Starts, Stops
  <2>3. QED
    BY <2>2 DEF SaysMore, Says
<1>8. ASSUME NEW k \in Sockets, ReadFails(k) PROVE Loses(k)
  BY <1>8 DEF ReadFails, Loses, wsVars, client
<1>9. ASSUME NEW k \in Sockets, ConnectionDrops(k) PROVE Loses(k)
  BY <1>0, <1>9 DEF ConnectionDrops, Loses, client, Count, CallCounts
<1>10. QED
  BY <1>1, <1>2, <1>3, <1>4, <1>5, <1>6, <1>7, <1>8, <1>9 DEF Next, Page

\* To the client all of these are steps of its own.
LEMMA StepsOfClient == WSTypeOK /\ [Next]_vars => ClientStep
<1> SUFFICES ASSUME WSTypeOK, [Next]_vars PROVE ClientStep
  OBVIOUS
<1>1. WSNext \/ UNCHANGED wsVars => ClientStep
  BY StepIsClientStep
<1>2. CASE Page
  BY <1>1, <1>2 DEF Page, PageConnects, PageStarts, PageStops, PageSends, WSNext, Calls
<1>3. CASE ClientEnd
  BY <1>1, <1>3 DEF ClientEnd, WSNext, Network
<1>4. CASE ServerRestarts
  BY <1>4 DEF ServerRestarts, ClientStep, FailCounted
<1>5. ASSUME NEW k \in Sockets,
             \/ SocketAccepted(k) \/ PeerGone(k) \/ ServerReads(k) \/ ReadFails(k)
             \/ ConnectionDrops(k)
      PROVE  ClientStep
  BY <1>1, <1>5 DEF SocketAccepted, PeerGone, ServerReads, ReadFails, ConnectionDrops,
                    WSNext, Network, ClientStep, Ends, FailCounted
<1>6. CASE UNCHANGED vars
  BY <1>1, <1>6 DEF vars
<1>7. QED
  BY <1>2, <1>3, <1>4, <1>5, <1>6 DEF Next

-----------------------------------------------------------------------------
(* The invariant and each kind of step *)

\* Whatever is sent, nothing that was sent before changes.
LEMMA BehindStays ==
    ASSUME \A k \in Sockets : \A i \in DOMAIN outgoing[k] :
               i \in DOMAIN outgoing'[k] /\ outgoing'[k][i] = outgoing[k][i]
    PROVE  \A n : StartedBehind(n) => StartedBehind(n)'
BY DEF StartedBehind

\* A connection on which nothing happens.
LEMMA SameConn ==
    ASSUME NEW k \in Sockets, outgoing'[k] = outgoing[k], read'[k] = read[k],
           Active' <=> Active
    PROVE  /\ Left(k)' <=> Left(k)
           /\ StartOnTheWay(k)' <=> StartOnTheWay(k)
           /\ \A i : ActiveAfter(outgoing[k], read[k], i, Active)'
                         <=> ActiveAfter(outgoing[k], read[k], i, Active)
BY DEF Left, StartOnTheWay, ActiveAfter, Rises, NoStop, HasStart

LEMMA UnmovedStep == WSTypeOK /\ LinkInv /\ Unmoved => LinkInv'
<1> SUFFICES ASSUME WSTypeOK, LinkInv, Unmoved PROVE LinkInv'
  OBVIOUS
<1>0. /\ EndTypes /\ ConnInv /\ QueueInv /\ ActiveInv /\ StoppedInv
      /\ NumbersInv /\ PromiseInv
  BY DEF LinkInv
<1>1. /\ UNCHANGED <<outgoing, queuedEvents, sessionActive, known, session, result, conn,
                     read, refused, promised, orderly>>
      /\ calls'.send = calls.send
  BY DEF Unmoved, serverVars
<1>2. /\ Active' <=> Active
      /\ Connected' <=> Connected
      /\ UnknownFresh' <=> UnknownFresh
      /\ Server!SMTypeOK' <=> Server!SMTypeOK
  BY <1>1 DEF Active, Connected, UnknownFresh, Server!SMTypeOK
<1>3. \A k \in Sockets :
          /\ Left(k)' <=> Left(k)
          /\ StartOnTheWay(k)' <=> StartOnTheWay(k)
          /\ \A i : ActiveAfter(outgoing[k], read[k], i, Active)'
                        <=> ActiveAfter(outgoing[k], read[k], i, Active)
  BY <1>1, <1>2, SameConn
<1>4. EndTypes'
  BY <1>0, <1>1, <1>2 DEF EndTypes
<1>5. ConnInv'
  BY <1>0, <1>1, <1>2 DEF ConnInv, Unmoved, Reading
<1>6. QueueInv'
  BY <1>0, <1>1 DEF QueueInv, AfterQueue, ActiveAfter, Rises, NoStop, Starts
<1>7. ActiveInv'
  <2>1. Served' => Served /\ socket' = socket
    BY <1>1 DEF Served, Unmoved, Reading
  <2>2. Served => socket \in Sockets
    BY DEF Served, Is, WSTypeOK
  <2>3. Served' => (Left(socket)' <=> Left(socket))
                   /\ (StartOnTheWay(socket)' <=> StartOnTheWay(socket))
    BY <1>3, <2>1, <2>2 DEF Left, StartOnTheWay
  <2>4. QED
    BY <1>0, <1>1, <1>2, <2>1, <2>3 DEF ActiveInv
<1>8. StoppedInv'
  <2>1. NoStopLost' <=> NoStopLost
    BY <1>1 DEF NoStopLost
  <2>2. AfterQueue(Active)' <=> AfterQueue(Active)
    BY <1>1, <1>2 DEF AfterQueue, ActiveAfter, Rises, NoStop
  <2>3. \A k \in Sockets : AfterQueue(Left(k))' <=> AfterQueue(Left(k))
    BY <1>1, <1>3 DEF AfterQueue, ActiveAfter, Rises, NoStop
  <2>4. QED
    BY <1>0, <1>1, <2>1, <2>2, <2>3 DEF StoppedInv, Reading
<1>9. NumbersInv'
  BY <1>0, <1>1 DEF NumbersInv
<1>10. PromiseInv'
  <2>1. \A n : StartedBehind(n)' <=> StartedBehind(n)
    BY <1>1 DEF StartedBehind
  <2>2. \A k \in Sockets : Awaited(k)' <=> Awaited(k)
    BY <1>1, <1>3, <2>1 DEF Awaited
  <2>3. QED
    BY <1>0, <1>1, <2>1, <2>2 DEF PromiseInv, Reading, UtterancesAccepted
<1>11. QED
  BY <1>4, <1>5, <1>6, <1>7, <1>8, <1>9, <1>10 DEF LinkInv

\* A connection on which one more event is sent.
LEMMA LongerConn ==
    ASSUME NEW k \in Sockets, outgoing[k] \in Seq(Frames), read[k] \in Nat,
           read[k] <= Len(outgoing[k]), NEW e \in Frames,
           outgoing'[k] = Append(outgoing[k], e), read'[k] = read[k],
           Active' <=> Active
    PROVE  /\ Len(outgoing'[k]) = Len(outgoing[k]) + 1
           /\ outgoing'[k][Len(outgoing[k]) + 1] = e
           /\ \A i \in 1..Len(outgoing[k]) : outgoing'[k][i] = outgoing[k][i]
           /\ Left(k)' <=> Starts(e) \/ (Left(k) /\ ~Stops(e))
           /\ StartOnTheWay(k)' <=> StartOnTheWay(k) \/ Starts(e)
           /\ \A i \in read[k]..Len(outgoing[k]) :
                  ActiveAfter(outgoing[k], read[k], i, Active)'
                      <=> ActiveAfter(outgoing[k], read[k], i, Active)
<1> DEFINE q == outgoing[k]
           n == read[k]
           r == Append(q, e)
<1>1. q \in Seq(Frames) /\ n \in Nat /\ n <= Len(q) /\ e \in Frames
  OBVIOUS
<1> HIDE DEF q, n
<1>2. /\ Len(r) = Len(q) + 1 /\ r[Len(q) + 1] = e
      /\ \A i \in 1..Len(q) : r[i] = q[i]
      /\ NoStop(r, n, Len(r)) <=> NoStop(q, n, Len(q)) /\ ~Stops(e)
      /\ HasStart(r, n, Len(r)) <=> HasStart(q, n, Len(q)) \/ Starts(e)
      /\ Rises(r, n, Len(r)) <=> \/ Starts(e)
                                 \/ Rises(q, n, Len(q)) /\ ~Stops(e)
      /\ \A i \in n..Len(q) : /\ NoStop(r, n, i) <=> NoStop(q, n, i)
                              /\ Rises(r, n, i) <=> Rises(q, n, i)
  BY <1>1, SegmentAppend
<1>3. outgoing'[k] = r /\ read'[k] = n /\ outgoing[k] = q /\ read[k] = n
  BY DEF q, n
<1> HIDE DEF r
<1>4. Left(k)' <=> Rises(r, n, Len(r)) \/ (Active /\ NoStop(r, n, Len(r)))
  BY <1>3 DEF Left, ActiveAfter, Rises, NoStop
<1>5. Left(k) <=> Rises(q, n, Len(q)) \/ (Active /\ NoStop(q, n, Len(q)))
  BY <1>3 DEF Left, ActiveAfter
<1>6. StartOnTheWay(k)' <=> HasStart(r, n, Len(r))
  BY <1>3 DEF StartOnTheWay, HasStart
<1>7. \A i : ActiveAfter(outgoing[k], read[k], i, Active)'
                 <=> Rises(r, n, i) \/ (Active /\ NoStop(r, n, i))
  BY <1>3 DEF ActiveAfter, Rises, NoStop
<1>8. StartOnTheWay(k) <=> HasStart(q, n, Len(q))
  BY <1>3 DEF StartOnTheWay
<1>9. \A i : ActiveAfter(outgoing[k], read[k], i, Active)
                 <=> Rises(q, n, i) \/ (Active /\ NoStop(q, n, i))
  BY <1>3 DEF ActiveAfter
<1>a. Starts(e) => ~Stops(e)
  BY DEF Starts, Stops
<1>10. QED
  BY <1>2, <1>3, <1>4, <1>5, <1>6, <1>7, <1>8, <1>9, <1>a

\* A queue with one more event.
LEMMA LongerQueue ==
    ASSUME queuedEvents \in Seq(ClientEvents), NEW e \in ClientEvents,
           queuedEvents' = Append(queuedEvents, e)
    PROVE  /\ Len(queuedEvents') = Len(queuedEvents) + 1
           /\ queuedEvents'[Len(queuedEvents) + 1] = e
           /\ \A i \in 1..Len(queuedEvents) : queuedEvents'[i] = queuedEvents[i]
           /\ AfterQueue(TRUE)' <=> Starts(e) \/ (AfterQueue(TRUE) /\ ~Stops(e))
           /\ \A k \in Sockets : (Left(k)' <=> Left(k)) =>
                  (AfterQueue(Left(k))' <=> Starts(e) \/ (AfterQueue(Left(k)) /\ ~Stops(e)))
           /\ (Active' <=> Active) =>
                  (AfterQueue(Active)' <=> Starts(e) \/ (AfterQueue(Active) /\ ~Stops(e)))
           /\ \A i \in 0..Len(queuedEvents) :
                  ActiveAfter(queuedEvents', 0, i, TRUE) <=> ActiveAfter(queuedEvents, 0, i, TRUE)
<1> DEFINE q == queuedEvents
           r == Append(q, e)
<1>0. 0 \in Nat /\ 0 <= Len(q)
  OBVIOUS
<1>1. /\ Len(r) = Len(q) + 1 /\ r[Len(q) + 1] = e
      /\ \A i \in 1..Len(q) : r[i] = q[i]
      /\ NoStop(r, 0, Len(r)) <=> NoStop(q, 0, Len(q)) /\ ~Stops(e)
      /\ Rises(r, 0, Len(r)) <=> \/ Starts(e)
                                 \/ Rises(q, 0, Len(q)) /\ ~Stops(e)
      /\ \A i \in 0..Len(q) : /\ NoStop(r, 0, i) <=> NoStop(q, 0, i)
                              /\ Rises(r, 0, i) <=> Rises(q, 0, i)
  BY <1>0, SegmentAppend
<1>2. queuedEvents' = r
  OBVIOUS
<1> HIDE DEF r
<1>3. /\ AfterQueue(TRUE) <=> Rises(q, 0, Len(q)) \/ NoStop(q, 0, Len(q))
      /\ AfterQueue(TRUE)' <=> Rises(r, 0, Len(r)) \/ NoStop(r, 0, Len(r))
  BY <1>2 DEF AfterQueue, ActiveAfter, Rises, NoStop
<1>4. ASSUME NEW k \in Sockets
      PROVE  /\ AfterQueue(Left(k)) <=> Rises(q, 0, Len(q)) \/ (Left(k) /\ NoStop(q, 0, Len(q)))
             /\ AfterQueue(Left(k))' <=>
                    Rises(r, 0, Len(r)) \/ (Left(k)' /\ NoStop(r, 0, Len(r)))
  BY <1>2 DEF AfterQueue, ActiveAfter, Rises, NoStop
<1>5. /\ AfterQueue(Active) <=> Rises(q, 0, Len(q)) \/ (Active /\ NoStop(q, 0, Len(q)))
      /\ AfterQueue(Active)' <=> Rises(r, 0, Len(r)) \/ (Active' /\ NoStop(r, 0, Len(r)))
  BY <1>2 DEF AfterQueue, ActiveAfter, Rises, NoStop
<1>6. \A i : /\ ActiveAfter(q, 0, i, TRUE) <=> Rises(q, 0, i) \/ NoStop(q, 0, i)
             /\ ActiveAfter(r, 0, i, TRUE) <=> Rises(r, 0, i) \/ NoStop(r, 0, i)
  BY DEF ActiveAfter
<1>7. Starts(e) => ~Stops(e)
  BY DEF Starts, Stops
<1>8. \A i \in 0..Len(q) : ActiveAfter(r, 0, i, TRUE) <=> ActiveAfter(q, 0, i, TRUE)
  BY <1>1, <1>6
<1>9. QED
  BY <1>1, <1>2, <1>3, <1>4, <1>5, <1>7, <1>8

\* An event goes to the client's open socket, or to the end of the queue.
LEMMA SaysEffect ==
    ASSUME WSTypeOK, SocketInv, EndTypes, ConnInv, NEW e, Says(e)
    PROVE  /\ e \in ClientEvents /\ e \in Frames /\ e.number = calls.send + 1
           /\ calls.send \in Nat /\ calls'.send = calls.send + 1
           /\ Active' <=> Active
           /\ Connected' <=> Connected
           /\ \/ /\ Is(socket, "open") /\ socket \in Sockets
                 /\ outgoing' = [outgoing EXCEPT ![socket] = Append(outgoing[socket], e)]
                 /\ queuedEvents = <<>> /\ queuedEvents' = <<>>
                 /\ conn[socket] \in {"reading", "closed"}
              \/ /\ ~Is(socket, "open") /\ UNCHANGED outgoing
                 /\ queuedEvents' = Append(queuedEvents, e)
<1>1. e \in ClientEvents /\ e \in Frames /\ e.number = calls.send + 1
      /\ calls'.send = calls.send + 1 /\ calls.send \in Nat
  BY EventTypes, BoundsAssumption DEF Says, WSTypeOK
<1>2. (Active' <=> Active) /\ (Connected' <=> Connected)
  BY DEF Says, serverVars, Active, Connected
<1>3. CASE Is(socket, "open")
  <2>1. socket \in Sockets /\ queuedEvents = <<>>
    BY <1>3 DEF WSTypeOK, SocketInv, Is
  <2>2. conn[socket] \in {"reading", "closed"}
    BY <1>3, <2>1 DEF EndTypes, ConnInv, Is
  <2>3. QED
    BY <1>1, <1>2, <1>3, <2>1, <2>2 DEF Says, SendEvent, WSTypeOK
<1>4. CASE ~Is(socket, "open")
  BY <1>1, <1>2, <1>4 DEF Says, SendEvent
<1>5. QED
  BY <1>3, <1>4

Speaks(e) == SaysStart(e) \/ SaysStop(e) \/ SaysMore(e)

LEMMA SpeaksKeeps ==
    ASSUME WSTypeOK, SocketInv, LinkInv, NEW e, Speaks(e)
    PROVE  /\ EndTypes' /\ ConnInv' /\ NumbersInv'
           /\ \A n \in promised' : \/ n \in promised
                                   \/ n = calls.send + 1 /\ sessionActive /\ SaysMore(e)
           /\ \A n : StartedBehind(n) => StartedBehind(n)'
<1>0. /\ EndTypes /\ ConnInv /\ NumbersInv
      /\ outgoing \in [Sockets -> Seq(Frames)] /\ queuedEvents \in Seq(ClientEvents)
      /\ UNCHANGED <<ready, socket, serverVars, conn, read, refused, orderly>>
      /\ Says(e)
  BY DEF LinkInv, WSTypeOK, Speaks, SaysStart, SaysStop, SaysMore, Says
<1>1. /\ e \in ClientEvents /\ e \in Frames /\ e.number = calls.send + 1
      /\ calls.send \in Nat /\ calls'.send = calls.send + 1
      /\ Active' <=> Active
      /\ Connected' <=> Connected
      /\ \/ /\ Is(socket, "open") /\ socket \in Sockets
            /\ outgoing' = [outgoing EXCEPT ![socket] = Append(outgoing[socket], e)]
            /\ queuedEvents' = <<>>
         \/ /\ UNCHANGED outgoing
            /\ queuedEvents' = Append(queuedEvents, e)
  BY <1>0, SaysEffect
<1>2. ASSUME NEW k \in Sockets
      PROVE  /\ Len(outgoing[k]) \in Nat
             /\ \/ outgoing'[k] = outgoing[k]
                \/ /\ k = socket /\ Is(socket, "open")
                   /\ Len(outgoing'[k]) = Len(outgoing[k]) + 1
                   /\ outgoing'[k][Len(outgoing[k]) + 1] = e
                   /\ \A i \in 1..Len(outgoing[k]) : outgoing'[k][i] = outgoing[k][i]
                   /\ DOMAIN outgoing'[k] = 1..(Len(outgoing[k]) + 1)
  <2>1. outgoing[k] \in Seq(Frames) /\ Len(outgoing[k]) \in Nat
    BY <1>0
  <2>2. CASE outgoing'[k] = Append(outgoing[k], e) /\ k = socket /\ Is(socket, "open")
    BY <1>1, <2>1, <2>2
  <2>3. QED
    BY <1>0, <1>1, <2>1, <2>2
<1>3. \A n \in promised' : \/ n \in promised
                           \/ n = calls.send + 1 /\ sessionActive /\ SaysMore(e)
  BY <1>1 DEF Speaks, SaysStart, SaysStop, SaysMore
<1>4. EndTypes'
  <2>1. Server!SMTypeOK' <=> Server!SMTypeOK
    BY <1>0 DEF serverVars, Server!SMTypeOK
  <2>2. ASSUME NEW n \in promised' PROVE n \in Nat
    <3>1. CASE n \in promised
      BY <1>0, <3>1 DEF EndTypes
    <3>2. CASE n = calls.send + 1
      BY <1>1, <3>2
    <3>3. QED
      BY <1>3, <3>1, <3>2
  <2>3. QED
    BY <1>0, <2>1, <2>2 DEF EndTypes
<1>5. ConnInv'
  <2>1. UnknownFresh' <=> UnknownFresh
    BY <1>0 DEF serverVars, UnknownFresh
  <2>2. ASSUME NEW k \in Sockets
        PROVE  /\ read'[k] <= Len(outgoing'[k])
               /\ ready'[k] \in {"unused", "connecting"} =>
                      outgoing'[k] = <<>> /\ read'[k] = 0 /\ conn'[k] = "none"
               /\ ready'[k] = "open" => conn'[k] # "none"
    <3>1. /\ read[k] <= Len(outgoing[k])
          /\ ready[k] \in {"unused", "connecting"} =>
                 outgoing[k] = <<>> /\ read[k] = 0 /\ conn[k] = "none"
          /\ ready[k] = "open" => conn[k] # "none"
          /\ read[k] \in Nat
      BY <1>0 DEF ConnInv, EndTypes
    <3>2. k = socket /\ Is(socket, "open") => ready[k] = "open"
      BY DEF Is
    <3>3. QED
      BY <1>0, <1>2, <3>1, <3>2
  <2>3. QED
    BY <1>0, <1>1, <2>1, <2>2 DEF ConnInv, Reading
<1>6. NumbersInv'
  <2>1. ASSUME NEW n \in promised' PROVE 1 <= n /\ n <= calls'.send
    <3>1. CASE n \in promised
      <4>1. n \in Nat /\ 1 <= n /\ n <= calls.send
        BY <1>0, <3>1 DEF EndTypes, NumbersInv
      <4>2. QED
        BY <1>1, <4>1
    <3>2. CASE n = calls.send + 1
      BY <1>1, <3>2
    <3>3. QED
      BY <1>3, <3>1, <3>2
  <2>2. \A n \in refused' : n <= calls'.send
    BY <1>0, <1>1 DEF NumbersInv, EndTypes
  <2>3. ASSUME NEW k \in Sockets, NEW i \in DOMAIN outgoing'[k]
        PROVE  outgoing'[k][i].number <= calls'.send
    <3>1. ASSUME NEW j \in DOMAIN outgoing[k]
          PROVE  outgoing[k][j].number <= calls'.send
      <4>1. outgoing[k][j].number <= calls.send
        BY <1>0 DEF NumbersInv
      <4>2. outgoing[k] \in Seq(Frames) /\ j \in 1..Len(outgoing[k])
        BY <1>0
      <4>3. outgoing[k][j] \in Frames
        BY <4>2, ElementOfSeq
      <4>4. outgoing[k][j].number \in Int
        BY <4>3 DEF Frames
      <4>5. QED
        BY <1>1, <4>1, <4>4
    <3>2. CASE outgoing'[k] = outgoing[k]
      BY <3>1, <3>2
    <3>3. CASE /\ Len(outgoing'[k]) = Len(outgoing[k]) + 1
               /\ outgoing'[k][Len(outgoing[k]) + 1] = e
               /\ \A j \in 1..Len(outgoing[k]) : outgoing'[k][j] = outgoing[k][j]
               /\ DOMAIN outgoing'[k] = 1..(Len(outgoing[k]) + 1)
      <4>1. CASE i = Len(outgoing[k]) + 1
        BY <1>1, <3>3, <4>1
      <4>2. CASE i # Len(outgoing[k]) + 1
        <5>1. i \in 1..Len(outgoing[k]) /\ i \in DOMAIN outgoing[k]
          BY <1>0, <1>2, <3>3, <4>2
        <5>2. QED
          BY <3>1, <3>3, <5>1
      <4>3. QED
        BY <4>1, <4>2
    <3>4. QED
      BY <1>2, <3>2, <3>3
  <2>4. ASSUME NEW i \in DOMAIN queuedEvents'
        PROVE  queuedEvents'[i].number <= calls'.send
    <3>1. CASE queuedEvents' = <<>>
      BY <3>1
    <3>2. CASE queuedEvents' = Append(queuedEvents, e)
      <4>1. /\ Len(queuedEvents) \in Nat /\ i \in 1..(Len(queuedEvents) + 1)
            /\ queuedEvents'[Len(queuedEvents) + 1] = e
            /\ \A j \in 1..Len(queuedEvents) : queuedEvents'[j] = queuedEvents[j]
        BY <1>0, <1>1, <3>2
      <4>2. CASE i = Len(queuedEvents) + 1
        BY <1>1, <4>1, <4>2
      <4>3. CASE i # Len(queuedEvents) + 1
        <5>1. i \in 1..Len(queuedEvents) /\ i \in DOMAIN queuedEvents
          BY <1>0, <4>1, <4>3
        <5>2. queuedEvents[i] \in ClientEvents
          BY <1>0, <5>1, ElementOfSeq
        <5>3. queuedEvents[i].number \in Int /\ queuedEvents[i].number <= calls.send
          BY <1>0, <5>1, <5>2 DEF NumbersInv, ClientEvents
        <5>4. QED
          BY <1>1, <4>1, <5>1, <5>3
      <4>4. QED
        BY <4>2, <4>3
    <3>3. QED
      BY <1>1, <3>1, <3>2
  <2>5. QED
    BY <2>1, <2>2, <2>3, <2>4 DEF NumbersInv
<1>7. \A n : StartedBehind(n) => StartedBehind(n)'
  <2>1. \A k \in Sockets : \A i \in DOMAIN outgoing[k] :
            i \in DOMAIN outgoing'[k] /\ outgoing'[k][i] = outgoing[k][i]
    <3>1. \A k \in Sockets : DOMAIN outgoing[k] = 1..Len(outgoing[k])
      BY <1>0
    <3>2. QED
      BY <1>2, <3>1
  <2>2. QED
    BY <2>1, BehindStays
<1>8. QED
  BY <1>3, <1>4, <1>5, <1>6, <1>7

\* Over the open socket: what is sent is the last thing on the way.
LEMMA SpeaksOpen ==
    ASSUME WSTypeOK, SocketInv, LinkInv, NEW e, Speaks(e), Is(socket, "open")
    PROVE  QueueInv' /\ ActiveInv' /\ StoppedInv' /\ PromiseInv'
<1>0. /\ EndTypes /\ ConnInv /\ QueueInv /\ ActiveInv /\ StoppedInv
      /\ NumbersInv /\ PromiseInv
      /\ outgoing \in [Sockets -> Seq(Frames)]
      /\ UNCHANGED <<ready, socket, serverVars, conn, read, refused, orderly>>
      /\ Says(e)
  BY DEF LinkInv, WSTypeOK, Speaks, SaysStart, SaysStop, SaysMore, Says
<1>1. /\ e \in ClientEvents /\ e \in Frames /\ e.number = calls.send + 1
      /\ calls.send \in Nat
      /\ Active' <=> Active
      /\ Connected' <=> Connected
      /\ socket \in Sockets
      /\ outgoing' = [outgoing EXCEPT ![socket] = Append(outgoing[socket], e)]
      /\ queuedEvents = <<>> /\ queuedEvents' = <<>>
      /\ conn[socket] \in {"reading", "closed"}
  BY <1>0, SaysEffect
<1>2. \A n \in promised' : \/ n \in promised
                           \/ n = calls.send + 1 /\ sessionActive /\ SaysMore(e)
  BY SpeaksKeeps
<1>3. \A n : StartedBehind(n) => StartedBehind(n)'
  BY SpeaksKeeps
<1>4. /\ outgoing'[socket] = Append(outgoing[socket], e)
      /\ outgoing[socket] \in Seq(Frames) /\ read[socket] \in Nat
      /\ read[socket] <= Len(outgoing[socket]) /\ read'[socket] = read[socket]
      /\ Len(outgoing[socket]) \in Nat
  BY <1>0, <1>1 DEF EndTypes, ConnInv
<1>5. /\ Len(outgoing'[socket]) = Len(outgoing[socket]) + 1
      /\ outgoing'[socket][Len(outgoing[socket]) + 1] = e
      /\ \A i \in 1..Len(outgoing[socket]) : outgoing'[socket][i] = outgoing[socket][i]
      /\ \A i \in read[socket]..Len(outgoing[socket]) :
             ActiveAfter(outgoing'[socket], read'[socket], i, Active')
                 <=> ActiveAfter(outgoing[socket], read[socket], i, Active)
  BY <1>1, <1>4, LongerConn
<1>6. ASSUME NEW k \in Sockets, k = socket
      PROVE  /\ Left(k)' <=> Starts(e) \/ (Left(k) /\ ~Stops(e))
             /\ StartOnTheWay(k)' <=> StartOnTheWay(k) \/ Starts(e)
  BY <1>1, <1>4, <1>6, LongerConn
<1>7. QueueInv'
  <2>1. DOMAIN queuedEvents' = {} /\ Len(queuedEvents') = 0
    BY <1>1
  <2>2. NoStop(queuedEvents', 0, Len(queuedEvents'))
    BY <2>1 DEF NoStop
  <2>3. AfterQueue(TRUE)'
    BY <2>2 DEF AfterQueue, ActiveAfter, Rises, NoStop
  <2>4. QED
    BY <2>1, <2>3 DEF QueueInv
<1>8. ActiveInv'
  <2>1. SUFFICES ASSUME orderly, Served, sessionActive'
                 PROVE  Left(socket)' /\ (StartOnTheWay(socket)' \/ Connected')
    BY <1>0 DEF ActiveInv, Served, Is, Reading
  <2>2. ASSUME NEW k \in Sockets, k = socket, socket' = k
        PROVE  Left(k)' /\ (StartOnTheWay(k)' \/ Connected')
    <3>1. CASE Starts(e)
      BY <1>6, <2>2, <3>1
    <3>2. CASE ~Starts(e)
      <4>1. SaysMore(e) /\ sessionActive
        BY <2>1, <3>2 DEF Speaks, SaysStart, SaysStop, SaysMore
      <4>2. Left(socket) /\ (StartOnTheWay(socket) \/ Connected) /\ ~Stops(e)
        BY <1>0, <2>1, <4>1 DEF ActiveInv, SaysMore
      <4>3. QED
        BY <1>1, <1>6, <2>2, <4>2
    <3>3. QED
      BY <3>1, <3>2
  <2>3. QED
    BY <1>0, <1>1, <2>2 DEF Left, StartOnTheWay
<1>9. StoppedInv'
  <2>1. SUFFICES ASSUME orderly, NoStopLost', ~sessionActive'
                 PROVE  /\ \A k \in Sockets : Reading(k)' => ~AfterQueue(Left(k))'
                        /\ (\A k \in Sockets : ~Reading(k)') => ~AfterQueue(Active)'
    BY <1>0 DEF StoppedInv
  <2>2. Stops(e) => Reading(socket)
    <3>1. SUFFICES ASSUME Stops(e), conn'[socket] = "closed" PROVE FALSE
      BY <1>0, <1>1 DEF Reading
    <3>2. NoStop(outgoing'[socket], read'[socket], Len(outgoing'[socket]))
      BY <1>1, <2>1, <3>1, LostStops
    <3>3. Len(outgoing'[socket]) \in (read'[socket] + 1)..Len(outgoing'[socket])
      BY <1>4, <1>5
    <3>4. QED
      BY <1>4, <1>5, <3>1, <3>2, <3>3 DEF NoStop
  <2>3. Stops(e) \/ (SaysMore(e) /\ ~sessionActive)
    BY <2>1 DEF Speaks, SaysStart, SaysStop, SaysMore
  <2>4. ASSUME ~Stops(e) PROVE NoStopLost
    <3>1. ASSUME NEW j \in Sockets, conn[j] = "closed"
          PROVE  NoStop(outgoing[j], read[j], Len(outgoing[j]))
      <4>1. NoStop(outgoing'[j], read'[j], Len(outgoing'[j]))
        BY <1>0, <2>1, <3>1, LostStops
      <4>2. CASE j # socket
        <5>1. outgoing'[j] = outgoing[j] /\ read'[j] = read[j]
          BY <1>0, <1>1, <4>2
        <5>2. QED
          BY <4>1, <5>1
      <4>3. CASE j = socket
        <5>1. PICK n, m : n = read[socket] /\ m = Len(outgoing[socket])
          OBVIOUS
        <5>2. \A i \in (n + 1)..(m + 1) : ~Stops(outgoing'[socket][i])
          BY <1>4, <1>5, <4>1, <4>3, <5>1 DEF NoStop
        <5>3. n \in Nat /\ m \in Nat
              /\ \A i \in 1..m : outgoing'[socket][i] = outgoing[socket][i]
          BY <1>4, <1>5, <5>1
        <5>4. \A i \in (n + 1)..m : ~Stops(outgoing[socket][i])
          <6> TAKE i \in (n + 1)..m
          <6>1. i \in (n + 1)..(m + 1) /\ i \in 1..m
            BY <5>3
          <6>2. QED
            BY <5>2, <5>3, <6>1
        <5>5. QED
          BY <4>3, <5>1, <5>4 DEF NoStop
      <4>4. QED
        BY <4>2, <4>3
    <3>2. QED
      BY <3>1, LostStops
  <2>5. NoStop(queuedEvents, 0, Len(queuedEvents)) /\ NoStop(queuedEvents', 0, Len(queuedEvents'))
        /\ ~Rises(queuedEvents', 0, Len(queuedEvents'))
    BY <1>1, EmptySeq, SegmentEmpty
  <2>6. ASSUME ~Stops(e)
        PROVE  /\ \A k \in Sockets : Reading(k) => ~Left(k)
               /\ (\A k \in Sockets : ~Reading(k)) => ~Active
    <3>1. orderly /\ NoStopLost /\ ~sessionActive
      BY <2>1, <2>3, <2>4, <2>6
    <3>2. QED
      BY <1>0, <2>5, <3>1 DEF StoppedInv, AfterQueue, ActiveAfter
  <2>7. ASSUME NEW k \in Sockets, Reading(k)' PROVE ~Left(k)'
    <3>1. Reading(k)
      BY <1>0, <2>7 DEF Reading
    <3>2. CASE k = socket
      <4>1. Stops(e) \/ (~Starts(e) /\ ~Left(k))
        BY <2>3, <2>6, <3>1 DEF SaysMore
      <4>2. QED
        BY <1>6, <3>2, <4>1 DEF Starts, Stops
    <3>3. CASE k # socket
      <4>1. ~Stops(e)
        BY <1>0, <1>1, <2>1, <2>2, <3>1, <3>3 DEF ConnInv
      <4>2. outgoing'[k] = outgoing[k] /\ read'[k] = read[k]
        BY <1>0, <1>1, <3>3
      <4>3. QED
        BY <1>1, <2>6, <3>1, <4>1, <4>2, SameConn
    <3>4. QED
      BY <3>2, <3>3
  <2>8. ASSUME \A k \in Sockets : ~Reading(k)' PROVE ~Active'
    <3>1. \A k \in Sockets : ~Reading(k)
      BY <1>0, <2>8 DEF Reading
    <3>2. QED
      BY <1>1, <2>2, <2>6, <3>1
  <2>9. QED
    BY <2>5, <2>7, <2>8 DEF AfterQueue, ActiveAfter, Left
<1>10. PromiseInv'
  <2>1. UtterancesAccepted'
    <3>1. SUFFICES ASSUME orderly, NEW n \in promised', n \in refused
                   PROVE  StartedBehind(n)'
      BY <1>0 DEF UtterancesAccepted
    <3>2. n <= calls.send
      BY <1>0, <3>1 DEF NumbersInv
    <3>3. n \in promised
      BY <1>1, <1>2, <3>1, <3>2
    <3>4. QED
      BY <1>0, <1>3, <3>1, <3>3 DEF PromiseInv, UtterancesAccepted
  <2>2. ASSUME orderly, NEW k \in Sockets, Reading(k),
               NEW i \in (read'[k] + 1)..Len(outgoing'[k]),
               NEW n, n = outgoing'[k][i].number, n \in promised'
        PROVE  \/ StartedBehind(n)'
               \/ ActiveAfter(outgoing'[k], read'[k], i - 1, Active')
    <3>0. /\ outgoing[k] \in Seq(Frames) /\ Len(outgoing[k]) \in Nat
          /\ read'[k] = read[k] /\ read[k] \in Nat
      BY <1>0 DEF EndTypes
    <3>1. Awaited(k)
      BY <1>0, <2>2 DEF PromiseInv
    <3>2. CASE i \in 1..Len(outgoing[k]) /\ outgoing'[k][i] = outgoing[k][i]
      <4>1. i \in (read[k] + 1)..Len(outgoing[k]) /\ i \in DOMAIN outgoing[k]
            /\ i - 1 \in read[k]..Len(outgoing[k])
        BY <2>2, <3>0, <3>2
      <4>2. outgoing[k][i].number <= calls.send
        BY <1>0, <4>1 DEF NumbersInv
      <4>3. outgoing[k][i].number \in promised
        <5>1. n = outgoing[k][i].number /\ n <= calls.send
          BY <2>2, <3>2, <4>2
        <5>2. n # calls.send + 1
          BY <1>1, <5>1
        <5>3. QED
          BY <1>2, <2>2, <5>1, <5>2
      <4>4. \/ StartedBehind(outgoing[k][i].number)
            \/ ActiveAfter(outgoing[k], read[k], i - 1, Active)
        BY <3>1, <4>1, <4>3 DEF Awaited
      <4>5. CASE StartedBehind(outgoing[k][i].number)
        BY <1>3, <2>2, <3>2, <4>5
      <4>6. CASE ActiveAfter(outgoing[k], read[k], i - 1, Active)
        <5>1. CASE k = socket
          BY <1>5, <4>1, <4>6, <5>1
        <5>2. CASE k # socket
          <6>1. outgoing'[k] = outgoing[k]
            BY <1>0, <1>1, <5>2
          <6>2. QED
            BY <1>1, <3>0, <4>6, <6>1 DEF ActiveAfter
        <5>3. QED
          BY <5>1, <5>2
      <4>7. QED
        BY <4>4, <4>5, <4>6
    <3>3. CASE k = socket /\ i = Len(outgoing[socket]) + 1
      <4>1. outgoing'[k][i].number = calls.send + 1
        BY <1>1, <1>5, <3>3
      <4>2. calls.send + 1 \notin promised
        BY <1>0, <1>1 DEF NumbersInv
      <4>3. sessionActive
        BY <1>2, <2>2, <4>1, <4>2
      <4>4. Served
        BY <2>2, <3>3 DEF Served
      <4>5. Left(socket)
        BY <1>0, <2>2, <4>3, <4>4 DEF ActiveInv
      <4>6. ActiveAfter(outgoing[socket], read[socket], Len(outgoing[socket]), Active)
        BY <4>5 DEF Left
      <4>7. Len(outgoing[socket]) \in read[socket]..Len(outgoing[socket])
        BY <1>4
      <4>8. i - 1 = Len(outgoing[socket])
        BY <1>4, <3>3
      <4>9. QED
        BY <1>5, <3>3, <4>6, <4>7, <4>8
    <3>4. QED
      <4>1. CASE k = socket
        <5>1. i \in 1..(Len(outgoing[socket]) + 1)
          BY <1>5, <2>2, <3>0, <4>1
        <5>2. QED
          BY <1>4, <1>5, <3>2, <3>3, <4>1, <5>1
      <4>2. CASE k # socket
        <5>1. outgoing'[k] = outgoing[k]
          BY <1>0, <1>1, <4>2
        <5>2. QED
          BY <2>2, <3>0, <3>2, <5>1
      <4>3. QED
        BY <4>1, <4>2
  <2>3. ASSUME orderly', NEW k \in Sockets, Reading(k)' PROVE Awaited(k)'
    <3>1. orderly /\ Reading(k)
      BY <1>0, <2>3 DEF Reading
    <3>2. QED
      BY <2>2, <3>1 DEF Awaited, StartedBehind, ActiveAfter, Rises, NoStop
  <2>4. QED
    BY <2>1, <2>3 DEF PromiseInv
<1>11. QED
  BY <1>7, <1>8, <1>9, <1>10

\* Into the queue: what is queued is the last thing the client will send.
LEMMA SpeaksQueued ==
    ASSUME WSTypeOK, SocketInv, LinkInv, NEW e, Speaks(e), ~Is(socket, "open")
    PROVE  QueueInv' /\ ActiveInv' /\ StoppedInv' /\ PromiseInv'
<1>0. /\ EndTypes /\ ConnInv /\ QueueInv /\ ActiveInv /\ StoppedInv
      /\ NumbersInv /\ PromiseInv
      /\ queuedEvents \in Seq(ClientEvents)
      /\ UNCHANGED <<ready, socket, serverVars, conn, read, refused, orderly>>
      /\ Says(e)
  BY DEF LinkInv, WSTypeOK, Speaks, SaysStart, SaysStop, SaysMore, Says
<1>1. /\ e \in ClientEvents /\ e.number = calls.send + 1
      /\ calls.send \in Nat
      /\ Active' <=> Active
      /\ Connected' <=> Connected
      /\ outgoing' = outgoing
      /\ queuedEvents' = Append(queuedEvents, e)
  BY <1>0, SaysEffect
<1>2. \A n \in promised' : \/ n \in promised
                           \/ n = calls.send + 1 /\ sessionActive /\ SaysMore(e)
  BY SpeaksKeeps
<1>3. \A n : StartedBehind(n)' <=> StartedBehind(n)
  BY <1>1 DEF StartedBehind
<1>4. \A k \in Sockets :
          /\ Left(k)' <=> Left(k)
          /\ \A i : ActiveAfter(outgoing[k], read[k], i, Active)'
                        <=> ActiveAfter(outgoing[k], read[k], i, Active)
  BY <1>0, <1>1, SameConn
<1>5. /\ Len(queuedEvents) \in Nat /\ Len(queuedEvents') = Len(queuedEvents) + 1
      /\ queuedEvents'[Len(queuedEvents) + 1] = e
      /\ \A i \in 1..Len(queuedEvents) : queuedEvents'[i] = queuedEvents[i]
      /\ \A i \in 0..Len(queuedEvents) :
             ActiveAfter(queuedEvents', 0, i, TRUE) <=> ActiveAfter(queuedEvents, 0, i, TRUE)
      /\ DOMAIN queuedEvents = 1..Len(queuedEvents)
      /\ DOMAIN queuedEvents' = 1..(Len(queuedEvents) + 1)
  <2>1. /\ Len(queuedEvents') = Len(queuedEvents) + 1
        /\ queuedEvents'[Len(queuedEvents) + 1] = e
        /\ \A i \in 1..Len(queuedEvents) : queuedEvents'[i] = queuedEvents[i]
    BY <1>0, <1>1, LongerQueue
  <2>2. \A i \in 0..Len(queuedEvents) :
            ActiveAfter(queuedEvents', 0, i, TRUE) <=> ActiveAfter(queuedEvents, 0, i, TRUE)
    BY <1>0, <1>1, LongerQueue
  <2>3. /\ Len(queuedEvents) \in Nat
        /\ DOMAIN queuedEvents = 1..Len(queuedEvents)
        /\ DOMAIN queuedEvents' = 1..(Len(queuedEvents) + 1)
    BY <1>0, <1>1
  <2>4. QED
    BY <2>1, <2>2, <2>3
<1>6. AfterQueue(TRUE)' <=> Starts(e) \/ (AfterQueue(TRUE) /\ ~Stops(e))
  BY <1>0, <1>1, LongerQueue
<1>7. \A k \in Sockets :
          AfterQueue(Left(k))' <=> Starts(e) \/ (AfterQueue(Left(k)) /\ ~Stops(e))
  BY <1>0, <1>1, <1>4, LongerQueue
<1>8. AfterQueue(Active)' <=> Starts(e) \/ (AfterQueue(Active) /\ ~Stops(e))
  BY <1>0, <1>1, LongerQueue
<1>9. QueueInv'
  <2>1. sessionActive' => AfterQueue(TRUE)'
    BY <1>0, <1>6 DEF QueueInv, Speaks, SaysStart, SaysStop, SaysMore
  <2>2. ASSUME NEW i \in DOMAIN queuedEvents', Starts(queuedEvents'[i]),
               queuedEvents'[i].number = 0
        PROVE  i = 1
    <3>1. i # Len(queuedEvents) + 1
      BY <1>1, <1>5, <2>2
    <3>2. i \in DOMAIN queuedEvents /\ queuedEvents'[i] = queuedEvents[i]
      BY <1>5, <3>1
    <3>3. QED
      BY <1>0, <2>2, <3>2 DEF QueueInv
  <2>3. ASSUME NEW i \in DOMAIN queuedEvents', queuedEvents'[i].number \in promised'
        PROVE  /\ sessionActive' /\ ~Starts(queuedEvents'[i])
               /\ ActiveAfter(queuedEvents', 0, i - 1, TRUE)
    <3>1. CASE i = Len(queuedEvents) + 1
      <4>1. queuedEvents'[i].number = calls.send + 1
        BY <1>1, <1>5, <3>1
      <4>2. calls.send + 1 \notin promised
        BY <1>0, <1>1 DEF NumbersInv
      <4>3. sessionActive /\ SaysMore(e)
        BY <1>2, <2>3, <4>1, <4>2
      <4>4. sessionActive' /\ AfterQueue(TRUE)
        BY <1>0, <4>3 DEF SaysMore, QueueInv
      <4>5. i - 1 = Len(queuedEvents) /\ i - 1 \in 0..Len(queuedEvents)
        BY <1>5, <3>1
      <4>6. QED
        BY <1>5, <3>1, <4>3, <4>4, <4>5 DEF AfterQueue, SaysMore
    <3>2. CASE i # Len(queuedEvents) + 1
      <4>1. i \in DOMAIN queuedEvents /\ queuedEvents'[i] = queuedEvents[i]
            /\ i - 1 \in 0..Len(queuedEvents)
        BY <1>5, <3>2
      <4>2. queuedEvents[i].number <= calls.send
        BY <1>0, <4>1 DEF NumbersInv
      <4>3. queuedEvents[i].number # calls.send + 1
        BY <1>1, <4>2
      <4>4. queuedEvents[i].number \in promised
        BY <1>2, <2>3, <4>1, <4>3
      <4>5. ~SaysStop(e)
        BY <2>3, <4>1 DEF SaysStop
      <4>6. /\ sessionActive /\ ~Starts(queuedEvents[i])
            /\ ActiveAfter(queuedEvents, 0, i - 1, TRUE)
        BY <1>0, <4>1, <4>4 DEF QueueInv
      <4>7. sessionActive'
        BY <4>5, <4>6 DEF Speaks, SaysStart, SaysMore
      <4>8. QED
        BY <1>5, <4>1, <4>6, <4>7
    <3>3. QED
      BY <3>1, <3>2
  <2>4. QED
    BY <2>1, <2>2, <2>3 DEF QueueInv, ActiveAfter, Rises, NoStop
<1>10. ActiveInv'
  BY <1>0 DEF ActiveInv, Served, Is
<1>11. StoppedInv'
  <2>1. SUFFICES ASSUME orderly, NoStopLost', ~sessionActive'
                 PROVE  /\ \A k \in Sockets : Reading(k)' => ~AfterQueue(Left(k))'
                        /\ (\A k \in Sockets : ~Reading(k)') => ~AfterQueue(Active)'
    BY <1>0 DEF StoppedInv
  <2>2. CASE SaysStop(e)
    <3>1. Stops(e) /\ ~Starts(e)
      BY <2>2 DEF SaysStop, Starts, Stops
    <3>2. QED
      BY <1>7, <1>8, <3>1
  <2>3. CASE SaysMore(e)
    <3>1. ~sessionActive /\ ~Starts(e)
      BY <2>1, <2>3 DEF SaysMore
    <3>2. NoStopLost /\ \A k \in Sockets : Reading(k)' <=> Reading(k)
      BY <1>0, <1>1, <2>1 DEF NoStopLost, Reading
    <3>3. QED
      BY <1>0, <1>7, <1>8, <2>1, <3>1, <3>2 DEF StoppedInv
  <2>4. QED
    BY <2>1, <2>2, <2>3 DEF Speaks, SaysStart
<1>12. PromiseInv'
  <2>0. \A n \in promised' : n <= calls.send => n \in promised
    BY <1>1, <1>2
  <2>1. UtterancesAccepted'
    <3>1. SUFFICES ASSUME orderly, NEW n \in promised', n \in refused
                   PROVE  StartedBehind(n)'
      BY <1>0 DEF UtterancesAccepted
    <3>2. n \in promised
      BY <1>0, <2>0, <3>1 DEF NumbersInv
    <3>3. QED
      BY <1>0, <1>3, <3>1, <3>2 DEF PromiseInv, UtterancesAccepted
  <2>2. ASSUME orderly, NEW k \in Sockets, Reading(k),
               NEW i \in (read[k] + 1)..Len(outgoing[k]),
               NEW n, n = outgoing[k][i].number, n \in promised'
        PROVE  \/ StartedBehind(n)'
               \/ ActiveAfter(outgoing[k], read[k], i - 1, Active)'
    <3>1. i \in DOMAIN outgoing[k]
      BY <1>0, <2>2 DEF EndTypes, WSTypeOK
    <3>2. n \in promised
      BY <1>0, <2>0, <2>2, <3>1 DEF NumbersInv
    <3>3. Awaited(k)
      BY <1>0, <2>2 DEF PromiseInv
    <3>4. StartedBehind(n) \/ ActiveAfter(outgoing[k], read[k], i - 1, Active)
      BY <2>2, <3>2, <3>3 DEF Awaited
    <3>5. QED
      BY <1>3, <1>4, <3>4
  <2>3. ASSUME orderly', NEW k \in Sockets, Reading(k)' PROVE Awaited(k)'
    <3>1. orderly /\ Reading(k) /\ read'[k] = read[k]
      BY <1>0, <2>3 DEF Reading
    <3>2. QED
      BY <1>1, <2>2, <3>1 DEF Awaited, StartedBehind, ActiveAfter, Rises, NoStop
  <2>4. QED
    BY <2>1, <2>3 DEF PromiseInv
<1>13. QED
  BY <1>9, <1>10, <1>11, <1>12

LEMMA SpeaksStep ==
    ASSUME WSTypeOK, SocketInv, LinkInv, NEW e, Speaks(e)
    PROVE  LinkInv'
BY SpeaksKeeps, SpeaksOpen, SpeaksQueued DEF LinkInv

\* Handling one event moves the session as its place on the socket foretold.
LEMMA ReadConn ==
    ASSUME NEW k \in Sockets, outgoing[k] \in Seq(Frames), read[k] \in Nat,
           read[k] < Len(outgoing[k]), outgoing'[k] = outgoing[k],
           read'[k] = read[k] + 1, NEW e, e = outgoing[k][read[k] + 1],
           Starts(e) => Active', Stops(e) => ~Active',
           ~Starts(e) /\ ~Stops(e) => (Active' <=> Active)
    PROVE  /\ Left(k)' <=> Left(k)
           /\ StartOnTheWay(k) => StartOnTheWay(k)' \/ Starts(e)
           /\ \A i \in (read[k] + 1)..Len(outgoing[k]) :
                  ActiveAfter(outgoing[k], read[k], i, Active)'
                      <=> ActiveAfter(outgoing[k], read[k], i, Active)
<1> DEFINE q == outgoing[k]
           n == read[k]
<1>0. /\ outgoing[k] = q /\ outgoing'[k] = q /\ read[k] = n /\ read'[k] = n + 1
      /\ n \in Nat /\ Len(q) \in Nat /\ n < Len(q) /\ q[n + 1] = e
  OBVIOUS
<1> HIDE DEF q, n
<1>1. Starts(e) => ~Stops(e)
  BY DEF Starts, Stops
<1>2. ASSUME NEW i \in (n + 1)..Len(q)
      PROVE  ActiveAfter(outgoing[k], read[k], i, Active)'
                 <=> ActiveAfter(outgoing[k], read[k], i, Active)
  <2>1. i \in Nat /\ n < i
    BY <1>0
  <2>2. /\ NoStop(q, n, i) <=> ~Stops(e) /\ NoStop(q, n + 1, i)
        /\ Rises(q, n, i) <=> (Starts(e) /\ NoStop(q, n + 1, i)) \/ Rises(q, n + 1, i)
    BY <1>0, <2>1, SegmentFirst
  <2>3. ActiveAfter(outgoing[k], read[k], i, Active)
            <=> Rises(q, n, i) \/ (Active /\ NoStop(q, n, i))
    BY <1>0 DEF ActiveAfter
  <2>4. ActiveAfter(outgoing[k], read[k], i, Active)'
            <=> Rises(q, n + 1, i) \/ (Active' /\ NoStop(q, n + 1, i))
    BY <1>0 DEF ActiveAfter, Rises, NoStop
  <2>5. QED
    BY <1>1, <2>2, <2>3, <2>4
<1>3. Left(k)' <=> Left(k)
  <2>1. Len(q) \in (n + 1)..Len(q)
    BY <1>0
  <2>2. QED
    BY <1>0, <1>2, <2>1 DEF Left, ActiveAfter, Rises, NoStop
<1>4. StartOnTheWay(k) => StartOnTheWay(k)' \/ Starts(e)
  <2>1. HasStart(q, n, Len(q)) <=> Starts(e) \/ HasStart(q, n + 1, Len(q))
    BY <1>0, SegmentFirst
  <2>2. QED
    BY <1>0, <2>1 DEF StartOnTheWay, HasStart
<1>5. QED
  BY <1>0, <1>2, <1>3, <1>4

LEMMA ReadsStep ==
    ASSUME OnePage, WSTypeOK, LinkInv, NEW k \in Sockets, ServerReads(k)
    PROVE  LinkInv'
<1> DEFINE e == outgoing[k][read[k] + 1]
<1>0. /\ EndTypes /\ ConnInv /\ QueueInv /\ ActiveInv /\ StoppedInv
      /\ NumbersInv /\ PromiseInv /\ UnknownFresh /\ Server!SMTypeOK
  BY DEF LinkInv, ConnInv, EndTypes
<1>1. /\ outgoing \in [Sockets -> Seq(Frames)] /\ read \in [Sockets -> Nat]
      /\ UNCHANGED <<ready, outgoing, socket, queuedEvents, sessionActive, calls, conn,
                     promised, orderly>>
      /\ Reading(k) /\ read[k] < Len(outgoing[k])
      /\ read' = [read EXCEPT ![k] = read[k] + 1]
      /\ Call(k, e)
      /\ refused' = IF IsRefusal(result'[k]) THEN refused \union {e.number} ELSE refused
  BY <1>0 DEF ServerReads, wsVars, client, WSTypeOK, EndTypes, Reading
<1>2. e \in Frames /\ e.number \in Nat /\ read[k] + 1 \in DOMAIN outgoing[k]
  <2>1. outgoing[k] \in Seq(Frames) /\ read[k] + 1 \in 1..Len(outgoing[k])
    BY <1>1
  <2>2. e \in Frames
    BY <2>1, ElementOfSeq
  <2>3. QED
    BY <2>1, <2>2 DEF Frames
<1>3. /\ Starts(e) => Active' /\ Connected'
      /\ Stops(e) => ~Active'
      /\ ~Starts(e) /\ ~Stops(e) => (Active' <=> Active)
      /\ Connected => Connected'
      /\ IsRefusal(result'[k]) => ~Active
      /\ UnknownFresh'
  BY <1>0, <1>1, <1>2, CallEffect
<1>4. Server!SMTypeOK'
  BY <1>0, <1>1, <1>2, CallTypesServer
<1>5. /\ Left(k)' <=> Left(k)
      /\ StartOnTheWay(k) => StartOnTheWay(k)' \/ Starts(e)
      /\ \A i \in (read[k] + 1)..Len(outgoing[k]) :
             ActiveAfter(outgoing[k], read[k], i, Active)'
                 <=> ActiveAfter(outgoing[k], read[k], i, Active)
  BY <1>1, <1>3, ReadConn
<1> HIDE DEF e
<1>6. orderly => \A j \in Sockets : Reading(j) => j = k
  BY <1>0, <1>1 DEF ConnInv
<1>7. EndTypes'
  <2>1. refused' \subseteq Nat
    <3>1. refused' \subseteq refused \union {e.number}
      BY <1>1
    <3>2. QED
      BY <1>0, <1>2, <3>1 DEF EndTypes
  <2>2. read' \in [Sockets -> Nat]
    BY <1>1
  <2>3. QED
    BY <1>0, <1>1, <1>4, <2>1, <2>2 DEF EndTypes
<1>8. ConnInv'
  <2>1. ASSUME NEW j \in Sockets
        PROVE  /\ read'[j] <= Len(outgoing'[j])
               /\ ready'[j] \in {"unused", "connecting"} =>
                      outgoing'[j] = <<>> /\ read'[j] = 0 /\ conn'[j] = "none"
               /\ ready'[j] = "open" => conn'[j] # "none"
    <3>1. /\ read[j] <= Len(outgoing[j])
          /\ ready[j] \in {"unused", "connecting"} =>
                 outgoing[j] = <<>> /\ read[j] = 0 /\ conn[j] = "none"
          /\ ready[j] = "open" => conn[j] # "none"
      BY <1>0 DEF ConnInv
    <3>2. CASE j = k
      BY <1>1, <3>1, <3>2 DEF Reading
    <3>3. CASE j # k
      BY <1>1, <3>1, <3>3
    <3>4. QED
      BY <3>2, <3>3
  <2>2. Reading(k)' /\ read'[k] > 0
    BY <1>1 DEF Reading
  <2>3. orderly' => \A i, j \in Sockets : Reading(i)' /\ Reading(j)' => i = j
    BY <1>0, <1>1 DEF ConnInv, Reading
  <2>4. QED
    BY <1>3, <2>1, <2>2, <2>3 DEF ConnInv
<1>9. QueueInv'
  BY <1>0, <1>1 DEF QueueInv, AfterQueue, ActiveAfter, Rises, NoStop
<1>10. ActiveInv'
  <2>1. SUFFICES ASSUME orderly, Served, sessionActive
                 PROVE  Left(socket)' /\ (StartOnTheWay(socket)' \/ Connected')
    BY <1>1 DEF ActiveInv, Served, Is, Reading
  <2>2. socket = k /\ socket' = k
    BY <1>1, <1>6, <2>1 DEF Served, Is, WSTypeOK
  <2>3. Left(k) /\ (StartOnTheWay(k) \/ Connected)
    BY <1>0, <2>1, <2>2 DEF ActiveInv
  <2>4. Left(k)' /\ (StartOnTheWay(k)' \/ Connected')
    BY <1>3, <1>5, <2>3
  <2>5. QED
    BY <1>1, <2>2, <2>4 DEF Left, StartOnTheWay
<1>11. StoppedInv'
  <2>1. SUFFICES ASSUME orderly, NoStopLost', ~sessionActive
                 PROVE  \A j \in Sockets : Reading(j)' => ~AfterQueue(Left(j))'
    BY <1>1 DEF StoppedInv, Reading
  <2>2. NoStopLost
    BY <1>1, <2>1 DEF NoStopLost, Reading
  <2>3. ~AfterQueue(Left(k))
    BY <1>0, <1>1, <2>1, <2>2 DEF StoppedInv
  <2>4. ~AfterQueue(Left(k))'
    BY <1>1, <1>5, <2>3 DEF AfterQueue, ActiveAfter, Rises, NoStop
  <2>5. QED
    BY <1>1, <1>6, <2>1, <2>4 DEF Reading
<1>12. NumbersInv'
  <2>1. e.number <= calls.send
    BY <1>0, <1>2 DEF NumbersInv, e
  <2>2. QED
    BY <1>0, <1>1, <2>1 DEF NumbersInv
<1>13. PromiseInv'
  <2>1. \A n : StartedBehind(n)' <=> StartedBehind(n)
    BY <1>1 DEF StartedBehind
  <2>2. ASSUME orderly PROVE Awaited(k)
    BY <1>0, <1>1, <2>2 DEF PromiseInv
  <2>3. UtterancesAccepted'
    <3>1. SUFFICES ASSUME orderly, NEW n \in promised, n \in refused'
                   PROVE  StartedBehind(n)
      BY <1>1, <2>1 DEF UtterancesAccepted
    <3>2. CASE n \in refused
      BY <1>0, <3>1, <3>2 DEF PromiseInv, UtterancesAccepted
    <3>3. CASE n \notin refused
      <4>1. n = e.number /\ ~Active
        BY <1>1, <1>3, <3>1, <3>3
      <4>2. \/ StartedBehind(n)
            \/ ActiveAfter(outgoing[k], read[k], (read[k] + 1) - 1, Active)
        <5>1. read[k] + 1 \in (read[k] + 1)..Len(outgoing[k])
          BY <1>1
        <5>2. QED
          BY <2>2, <3>1, <4>1, <5>1 DEF Awaited, e
      <4>3. (read[k] + 1) - 1 = read[k] /\ read[k] \in Nat
        BY <1>1
      <4>4. ~Rises(outgoing[k], read[k], read[k])
        BY <4>3, SegmentEmpty
      <4>5. ~ActiveAfter(outgoing[k], read[k], read[k], Active)
        BY <4>1, <4>4 DEF ActiveAfter
      <4>6. QED
        BY <4>2, <4>3, <4>5
    <3>4. QED
      BY <3>2, <3>3
  <2>4. ASSUME orderly, NEW i \in (read'[k] + 1)..Len(outgoing'[k]),
               NEW n, n = outgoing'[k][i].number, n \in promised
        PROVE  StartedBehind(n)' \/ ActiveAfter(outgoing[k], read[k], i - 1, Active)'
    <3>1. i \in (read[k] + 1)..Len(outgoing[k]) /\ i - 1 \in (read[k] + 1)..Len(outgoing[k])
      BY <1>1
    <3>2. StartedBehind(n) \/ ActiveAfter(outgoing[k], read[k], i - 1, Active)
      BY <1>1, <2>2, <2>4, <3>1 DEF Awaited
    <3>3. QED
      BY <1>5, <2>1, <3>1, <3>2
  <2>5. ASSUME orderly PROVE Awaited(k)'
    BY <1>1, <2>4, <2>5 DEF Awaited, StartedBehind, ActiveAfter, Rises, NoStop
  <2>6. ASSUME orderly', NEW j \in Sockets, Reading(j)' PROVE Awaited(j)'
    <3>1. orderly /\ j = k
      BY <1>1, <1>6, <2>6 DEF Reading
    <3>2. QED
      BY <2>5, <3>1
  <2>7. QED
    BY <2>3, <2>6 DEF PromiseInv
<1>14. QED
  BY <1>7, <1>8, <1>9, <1>10, <1>11, <1>12, <1>13 DEF LinkInv

\* The end of a connection loses what it has not read, and the session stays.
LEMMA LosesStep ==
    ASSUME OnePage, WSTypeOK, LinkInv, NEW k \in Sockets, Loses(k)
    PROVE  LinkInv'
<1>0. /\ EndTypes /\ ConnInv /\ QueueInv /\ ActiveInv /\ StoppedInv
      /\ NumbersInv /\ PromiseInv /\ UnknownFresh /\ Server!SMTypeOK
  BY DEF LinkInv, ConnInv, EndTypes
<1>1. /\ outgoing \in [Sockets -> Seq(Frames)] /\ read \in [Sockets -> Nat]
      /\ read[k] <= Len(outgoing[k])
      /\ UNCHANGED <<ready, outgoing, socket, queuedEvents, sessionActive, read,
                     refused, promised, orderly>>
      /\ calls'.send = calls.send
      /\ Reading(k) /\ conn' = [conn EXCEPT ![k] = "closed"]
      /\ ConnectionEnds(k)
  BY <1>0 DEF Loses, ConnectionEnds, WSTypeOK, EndTypes, ConnInv, Reading
<1>2. /\ Active' <=> Active
      /\ read[k] > 0 => ~Connected'
      /\ Connected' => Connected
      /\ UnknownFresh'
      /\ Server!SMTypeOK'
  BY <1>0, <1>1, EndEffect
<1>3. \A j \in Sockets : Reading(j)' <=> Reading(j) /\ j # k
  BY <1>0, <1>1 DEF Reading, EndTypes
<1>4. orderly => \A j \in Sockets : ~Reading(j)'
  BY <1>0, <1>1, <1>3 DEF ConnInv
<1>5. EndTypes'
  BY <1>0, <1>1, <1>2 DEF EndTypes
<1>6. ConnInv'
  <2>1. ASSUME NEW j \in Sockets
        PROVE  /\ read'[j] <= Len(outgoing'[j])
               /\ ready'[j] \in {"unused", "connecting"} =>
                      outgoing'[j] = <<>> /\ read'[j] = 0 /\ conn'[j] = "none"
               /\ ready'[j] = "open" => conn'[j] # "none"
    BY <1>0, <1>1 DEF ConnInv, Reading, EndTypes
  <2>2. orderly' => \A i, j \in Sockets : Reading(i)' /\ Reading(j)' => i = j
    BY <1>1, <1>4
  <2>3. Connected' => \E j \in Sockets : Reading(j)' /\ read'[j] > 0
    <3>1. SUFFICES ASSUME Connected' PROVE \E j \in Sockets : Reading(j)' /\ read'[j] > 0
      OBVIOUS
    <3>2. PICK j \in Sockets : Reading(j) /\ read[j] > 0
      BY <1>0, <1>2, <3>1 DEF ConnInv
    <3>3. j # k
      BY <1>2, <3>1, <3>2
    <3>4. QED
      BY <1>1, <1>3, <3>2, <3>3
  <2>4. QED
    BY <1>2, <2>1, <2>2, <2>3 DEF ConnInv
<1>7. QueueInv'
  BY <1>0, <1>1 DEF QueueInv, AfterQueue, ActiveAfter, Rises, NoStop
<1>8. ActiveInv'
  <2>1. Served' => socket' \in Sockets /\ Reading(socket)'
    BY <1>1 DEF Served, Is, WSTypeOK
  <2>2. socket \in Sockets => (Reading(socket)' <=> Reading(socket) /\ socket # k)
    BY <1>1, <1>3 DEF Reading
  <2>3. orderly' => ~Served'
    BY <1>0, <1>1, <2>1, <2>2 DEF ConnInv
  <2>4. QED
    BY <2>3 DEF ActiveInv
<1>9. StoppedInv'
  <2>1. SUFFICES ASSUME orderly, NoStopLost', ~sessionActive
                 PROVE  ~AfterQueue(Active)'
    BY <1>1, <1>4 DEF StoppedInv
  <2>2. NoStop(outgoing[k], read[k], Len(outgoing[k]))
    <3>1. conn'[k] = "closed" /\ UNCHANGED <<outgoing, read>>
      BY <1>0, <1>1 DEF EndTypes
    <3>2. QED
      BY <2>1, <3>1, LostStops
  <2>3. NoStopLost
    BY <1>0, <1>1, <2>1 DEF NoStopLost, Reading, EndTypes
  <2>4. ~AfterQueue(Left(k))
    BY <1>0, <1>1, <2>1, <2>3 DEF StoppedInv
  <2>5. Active => Left(k)
    BY <2>2 DEF Left, ActiveAfter
  <2>6. QED
    BY <1>1, <1>2, <2>4, <2>5 DEF AfterQueue, ActiveAfter, Rises, NoStop
<1>10. NumbersInv'
  BY <1>0, <1>1 DEF NumbersInv
<1>11. PromiseInv'
  <2>1. \A n : StartedBehind(n)' <=> StartedBehind(n)
    BY <1>1 DEF StartedBehind
  <2>2. QED
    BY <1>0, <1>1, <1>4, <2>1 DEF PromiseInv, UtterancesAccepted
<1>12. QED
  BY <1>5, <1>6, <1>7, <1>8, <1>9, <1>10, <1>11 DEF LinkInv

\* A backend that was started again knows nothing and reads from nobody.
LEMMA RestartStep == WSTypeOK /\ LinkInv /\ ServerRestarts => LinkInv'
<1> SUFFICES ASSUME WSTypeOK, LinkInv, ServerRestarts PROVE LinkInv'
  OBVIOUS
<1>0. /\ EndTypes /\ ConnInv /\ QueueInv /\ ActiveInv /\ StoppedInv
      /\ NumbersInv /\ PromiseInv
  BY DEF LinkInv
<1>1. /\ UNCHANGED <<ready, outgoing, socket, queuedEvents, sessionActive, read,
                     refused, promised, orderly>>
      /\ conn' = [j \in Sockets |-> IF conn[j] = "reading" THEN "closed" ELSE conn[j]]
  BY DEF ServerRestarts, client
<1>2. calls'.send = calls.send
  BY DEF ServerRestarts, Count, WSTypeOK
<1>3. ~Active' /\ ~Connected' /\ UnknownFresh' /\ Server!SMTypeOK'
  BY RestartEffect
<1>4. \A j \in Sockets : ~Reading(j)'
  BY <1>1 DEF Reading
<1>5. EndTypes'
  BY <1>0, <1>1, <1>3 DEF EndTypes
<1>6. ConnInv'
  BY <1>0, <1>1, <1>3, <1>4 DEF ConnInv
<1>7. QueueInv'
  BY <1>0, <1>1 DEF QueueInv, AfterQueue, ActiveAfter, Rises, NoStop
<1>8. ActiveInv'
  <2>1. ~Served'
    BY <1>1, <1>4 DEF Served, Is, WSTypeOK, Reading
  <2>2. QED
    BY <2>1 DEF ActiveInv
<1>9. StoppedInv'
  <2>1. SUFFICES ASSUME orderly, NoStopLost', ~sessionActive
                 PROVE  ~AfterQueue(Active)'
    BY <1>1, <1>4 DEF StoppedInv
  <2>2. NoStopLost
    BY <1>0, <1>1, <2>1 DEF NoStopLost
  <2>3. ~Rises(queuedEvents, 0, Len(queuedEvents))
    BY <1>0, <2>1, <2>2 DEF StoppedInv, AfterQueue, ActiveAfter
  <2>4. QED
    BY <1>1, <1>3, <2>3 DEF AfterQueue, ActiveAfter, Rises, NoStop
<1>10. NumbersInv'
  BY <1>0, <1>1, <1>2 DEF NumbersInv
<1>11. PromiseInv'
  <2>1. \A n : StartedBehind(n)' <=> StartedBehind(n)
    BY <1>1 DEF StartedBehind
  <2>2. QED
    BY <1>0, <1>1, <1>4, <2>1 DEF PromiseInv, UtterancesAccepted
<1>12. QED
  BY <1>5, <1>6, <1>7, <1>8, <1>9, <1>10, <1>11 DEF LinkInv

\* A session that is started first and then goes on as q says.
LEMMA StartedFirst ==
    ASSUME NEW q, NEW r, NEW m \in Nat, Starts(r[1]), \A i \in 1..m : r[i + 1] = q[i],
           ActiveAfter(q, 0, m, TRUE)
    PROVE  Rises(r, 0, m + 1)
<1>1. /\ NoStop(r, 1, m + 1) <=> NoStop(q, 0, m)
      /\ Rises(r, 1, m + 1) <=> Rises(q, 0, m)
  BY SegmentShift
<1>2. /\ m + 1 \in Nat /\ 0 < m + 1 /\ 0 + 1 = 1
  OBVIOUS
<1>3. Rises(r, 0, m + 1) <=> \/ Starts(r[1]) /\ NoStop(r, 1, m + 1)
                             \/ Rises(r, 1, m + 1)
  BY <1>2, SegmentFirst
<1>4. QED
  BY <1>1, <1>3 DEF ActiveAfter

\* What a new connection is told: an active session is started, and nothing of
\* the queue is lost or changed.
LEMMA FlushedQueue ==
    ASSUME OnePage, WSTypeOK, SocketInv, LinkInv,
           NEW w, w = WithSessionStart(queuedEvents)
    PROVE  /\ w \in Seq(ClientEvents)
           /\ \A i \in DOMAIN w : w[i].number <= calls.send
           /\ sessionActive => Rises(w, 0, Len(w))
           /\ ~sessionActive => w = queuedEvents
           /\ \A i \in DOMAIN w : Starts(w[i]) /\ w[i].number = 0 => i = 1
           /\ \A i \in DOMAIN w : w[i].number \in promised =>
                  sessionActive /\ ~Starts(w[i]) /\ ActiveAfter(w, 0, i - 1, TRUE)
<1> DEFINE q == queuedEvents
<1>0. /\ q \in Seq(ClientEvents) /\ w \in Seq(ClientEvents)
      /\ Len(q) \in Nat /\ DOMAIN q = 1..Len(q)
      /\ calls.send \in Nat
  BY StartTypes DEF WSTypeOK
<1>1. /\ \A i \in DOMAIN q : q[i].number <= calls.send
      /\ \A i \in DOMAIN q : Starts(q[i]) /\ q[i].number = 0 => i = 1
      /\ \A i \in DOMAIN q : q[i].number \in promised =>
             sessionActive /\ ~Starts(q[i]) /\ ActiveAfter(q, 0, i - 1, TRUE)
      /\ \A n \in promised : 1 <= n
      /\ sessionActive => ActiveAfter(q, 0, Len(q), TRUE)
  BY DEF LinkInv, NumbersInv, QueueInv, AfterQueue
<1>2. sessionActive => sessionId \in SessionIds /\ sessionId # NoSessionId
  BY DEF SocketInv, WSTypeOK
<1> DEFINE started == \E i \in DOMAIN q : q[i].type = "START_SESSION"
                                         /\ q[i].session = sessionId
<1>3. CASE ~sessionActive
  BY <1>0, <1>1, <1>3 DEF WithSessionStart
<1>4. CASE sessionActive /\ started
  <2>1. w = q
    BY <1>4 DEF WithSessionStart
  <2>2. HasStart(q, 0, Len(q))
    BY <1>0, <1>4 DEF HasStart, Starts
  <2>3. Rises(q, 0, Len(q))
    BY <1>0, <1>1, <1>4, <2>2, SegmentStarts
  <2>4. QED
    BY <1>0, <1>1, <1>4, <2>1, <2>3
<1>5. CASE sessionActive /\ ~started
  <2> DEFINE e == Event("START_SESSION", sessionId, 0)
  <2>1. w = <<e>> \o q
    BY <1>2, <1>5 DEF WithSessionStart
  <2>2. e.number = 0 /\ Starts(e)
    BY DEF Event, Starts
  <2> HIDE DEF e
  <2>3. /\ Len(w) = Len(q) + 1 /\ DOMAIN w = 1..(Len(q) + 1)
        /\ w[1] = e /\ \A i \in 1..Len(q) : w[i + 1] = q[i]
    BY <1>0, <2>1
  <2>4. \A i \in DOMAIN w : i = 1 \/ (i - 1 \in 1..Len(q) /\ (i - 1) + 1 = i)
    BY <1>0, <2>3
  <2>5. ASSUME NEW m \in 0..Len(q), ActiveAfter(q, 0, m, TRUE)
        PROVE  Rises(w, 0, m + 1)
    <3>1. m \in Nat /\ \A i \in 1..m : w[i + 1] = q[i]
      BY <1>0, <2>3
    <3>2. QED
      BY <2>2, <2>3, <2>5, <3>1, StartedFirst
  <2>6. Rises(w, 0, Len(w))
    <3>1. ActiveAfter(q, 0, Len(q), TRUE)
      BY <1>1, <1>5
    <3>2. Len(q) \in 0..Len(q)
      BY <1>0
    <3>3. Rises(w, 0, Len(q) + 1)
      BY <2>5, <3>1, <3>2
    <3>4. QED
      BY <2>3, <3>3
  <2>7. ASSUME NEW i \in DOMAIN w PROVE w[i].number <= calls.send
    <3>1. CASE i = 1
      BY <1>0, <2>2, <2>3, <3>1
    <3>2. CASE i # 1
      <4>1. i - 1 \in DOMAIN q /\ w[i] = q[i - 1]
        BY <1>0, <2>3, <2>4, <3>2
      <4>2. QED
        BY <1>1, <4>1
    <3>3. QED
      BY <3>1, <3>2
  <2>8. ASSUME NEW i \in DOMAIN w, Starts(w[i]), w[i].number = 0 PROVE i = 1
    <3>1. SUFFICES ASSUME i # 1 PROVE FALSE
      OBVIOUS
    <3>2. i - 1 \in DOMAIN q /\ w[i] = q[i - 1]
      BY <1>0, <2>3, <2>4, <3>1
    <3>3. Starts(q[i - 1])
      BY <2>8, <3>2
    <3>4. q[i - 1] \in ClientEvents
      BY <1>0, <3>2, ElementOfSeq
    <3>5. q[i - 1].session = sessionId
      BY <1>2, <1>5, <3>4 DEF ClientEvents, OnePage
    <3>6. QED
      BY <1>5, <3>2, <3>3, <3>5 DEF Starts
  <2>9. ASSUME NEW i \in DOMAIN w, w[i].number \in promised
        PROVE  ~Starts(w[i]) /\ ActiveAfter(w, 0, i - 1, TRUE)
    <3>1. i # 1
      <4>1. SUFFICES ASSUME i = 1 PROVE FALSE
        OBVIOUS
      <4>2. w[i].number = 0
        BY <2>2, <2>3, <4>1
      <4>3. 0 \in promised
        BY <2>9, <4>2
      <4>4. QED
        BY <1>1, <4>3
    <3>2. i - 1 \in 1..Len(q) /\ w[i] = q[i - 1]
      BY <2>3, <2>4, <3>1
    <3>3. ~Starts(q[i - 1]) /\ ActiveAfter(q, 0, (i - 1) - 1, TRUE)
      BY <1>0, <1>1, <2>9, <3>2
    <3>4. (i - 1) - 1 \in 0..Len(q) /\ ((i - 1) - 1) + 1 = i - 1
      BY <1>0, <3>2
    <3>5. Rises(w, 0, i - 1)
      BY <2>5, <3>3, <3>4
    <3>6. QED
      BY <3>2, <3>3, <3>5 DEF ActiveAfter
  <2>10. QED
    BY <1>0, <1>5, <2>6, <2>7, <2>8, <2>9
<1>6. QED
  BY <1>3, <1>4, <1>5

\* Each promised event of the queue finds the session started, or a START_SESSION
\* of the App goes out behind it.
LEMMA FlushedPromises ==
    ASSUME NEW w \in Seq(ClientEvents), Rises(w, 0, Len(w)),
           \A i \in DOMAIN w : Starts(w[i]) /\ w[i].number = 0 => i = 1,
           NEW i \in DOMAIN w, ~Starts(w[i]), ActiveAfter(w, 0, i - 1, TRUE)
    PROVE  \/ Rises(w, 0, i - 1)
           \/ \E j \in DOMAIN w : i < j /\ Starts(w[j]) /\ w[j].number # 0
<1>1. Len(w) \in Nat /\ DOMAIN w = 1..Len(w)
  OBVIOUS
<1>2. PICK j \in 1..Len(w) : Starts(w[j])
  BY DEF Rises
<1>3. j # i
  BY <1>2
<1>4. CASE j < i
  <2>1. i - 1 \in Nat /\ j \in 1..(i - 1)
    BY <1>1, <1>4
  <2>2. HasStart(w, 0, i - 1)
    BY <1>2, <2>1 DEF HasStart
  <2>3. QED
    BY <2>1, <2>2, SegmentStarts
<1>5. CASE i < j
  <2>1. j # 1 /\ j \in DOMAIN w
    BY <1>1, <1>5
  <2>2. QED
    BY <1>2, <1>5, <2>1
<1>6. QED
  BY <1>1, <1>3, <1>4, <1>5

\* What is flushed goes to the client's open socket, which is the new one or an
\* older one, or waits.
LEMMA AcceptsEffect ==
    ASSUME WSTypeOK, SocketInv, NEW k \in Sockets, SocketAccepted(k),
           NEW w, w = WithSessionStart(queuedEvents)
    PROVE  /\ ready[k] = "connecting" /\ ready' = [ready EXCEPT ![k] = "open"]
           /\ UNCHANGED <<socket, sessionActive, calls, known, session, result, read,
                          refused, promised>>
           /\ conn' = [conn EXCEPT ![k] = "reading"]
           /\ orderly' = (orderly /\ \A j \in Sockets : conn[j] # "reading")
           /\ \/ /\ socket = k /\ queuedEvents' = <<>>
                 /\ outgoing' = [outgoing EXCEPT ![k] = outgoing[k] \o w]
              \/ /\ socket \in Sockets \ {k} /\ ready[socket] = "open"
                 /\ queuedEvents = <<>> /\ queuedEvents' = <<>>
                 /\ outgoing' = [outgoing EXCEPT ![socket] = outgoing[socket] \o w]
              \/ /\ socket # k /\ queuedEvents' = w
                 /\ UNCHANGED outgoing
<1>1. SocketOpens(k)
  BY DEF SocketAccepted
<1>2. CASE socket = k
  BY <1>1, <1>2 DEF SocketAccepted, SocketOpens, serverVars
<1>3. CASE socket # k /\ Is(socket, "open")
  <2>1. socket \in Sockets \ {k} /\ ready[socket] = "open" /\ queuedEvents = <<>>
    BY <1>3 DEF Is, WSTypeOK, SocketInv
  <2>2. QED
    BY <1>1, <1>3, <2>1 DEF SocketAccepted, SocketOpens, serverVars
<1>4. CASE socket # k /\ ~Is(socket, "open")
  BY <1>1, <1>4 DEF SocketAccepted, SocketOpens, serverVars
<1>5. QED
  BY <1>2, <1>3, <1>4

\* ... and is added to what was sent there.
LEMMA AcceptsExtends ==
    ASSUME WSTypeOK, NEW w \in Seq(ClientEvents),
           \/ UNCHANGED outgoing
           \/ \E k \in Sockets : outgoing' = [outgoing EXCEPT ![k] = outgoing[k] \o w],
           NEW j \in Sockets
    PROVE  /\ outgoing[j] \in Seq(Frames) /\ Len(outgoing[j]) \in Nat
           /\ Len(outgoing'[j]) \in Nat /\ Len(outgoing[j]) <= Len(outgoing'[j])
           /\ DOMAIN outgoing'[j] = 1..Len(outgoing'[j])
           /\ DOMAIN outgoing[j] = 1..Len(outgoing[j])
           /\ \A i \in DOMAIN outgoing[j] : outgoing'[j][i] = outgoing[j][i]
           /\ \A i \in DOMAIN outgoing'[j] :
                  \/ i \in DOMAIN outgoing[j]
                  \/ \E l \in DOMAIN w : outgoing'[j][i] = w[l]
<1>1. /\ outgoing[j] \in Seq(Frames) /\ w \in Seq(Frames)
      /\ Len(outgoing[j]) \in Nat /\ Len(w) \in Nat
      /\ DOMAIN outgoing[j] = 1..Len(outgoing[j]) /\ DOMAIN w = 1..Len(w)
  <2>1. outgoing[j] \in Seq(Frames)
    BY DEF WSTypeOK
  <2>2. w \in Seq(Frames)
    BY EventTypes
  <2>3. QED
    BY <2>1, <2>2
<1>2. CASE outgoing'[j] = outgoing[j]
  BY <1>1, <1>2
<1>3. CASE outgoing'[j] = outgoing[j] \o w
  <2> DEFINE q == outgoing[j]
             r == outgoing'[j]
  <2>1. r = q \o w
    BY <1>3
  <2>2. /\ Len(r) = Len(q) + Len(w) /\ DOMAIN r = 1..(Len(q) + Len(w))
        /\ \A i \in 1..Len(q) : r[i] = q[i]
        /\ \A i \in (Len(q) + 1)..(Len(q) + Len(w)) : r[i] = w[i - Len(q)]
    BY <1>1, <2>1
  <2> HIDE DEF q, r
  <2>3. ASSUME NEW i \in DOMAIN r, i \notin DOMAIN q
        PROVE  \E l \in DOMAIN w : r[i] = w[l]
    <3>1. i \in (Len(q) + 1)..(Len(q) + Len(w)) /\ i - Len(q) \in DOMAIN w
      BY <1>1, <2>2, <2>3 DEF q
    <3>2. QED
      BY <2>2, <3>1
  <2>4. QED
    BY <1>1, <2>2, <2>3 DEF q, r
<1>4. QED
  BY <1>2, <1>3 DEF WSTypeOK

\* A new connection begins where the queue has got to.
LEMMA AcceptsStep ==
    ASSUME OnePage, WSTypeOK, SocketInv, LinkInv, NEW k \in Sockets, SocketAccepted(k)
    PROVE  LinkInv'
<1> DEFINE w == WithSessionStart(queuedEvents)
           mine == socket = k /\ queuedEvents' = <<>>
                   /\ outgoing' = [outgoing EXCEPT ![k] = outgoing[k] \o w]
           older == /\ socket \in Sockets \ {k} /\ ready[socket] = "open"
                    /\ queuedEvents = <<>> /\ queuedEvents' = <<>>
                    /\ outgoing' = [outgoing EXCEPT ![socket] = outgoing[socket] \o w]
           none == socket # k /\ queuedEvents' = w /\ UNCHANGED outgoing
<1>0. /\ EndTypes /\ ConnInv /\ QueueInv /\ ActiveInv /\ StoppedInv
      /\ NumbersInv /\ PromiseInv
      /\ conn \in [Sockets -> {"none", "reading", "closed"}]
      /\ ready \in [Sockets -> {"unused", "connecting", "open", "closing", "closed"}]
      /\ outgoing \in [Sockets -> Seq(Frames)]
  BY DEF LinkInv, EndTypes, WSTypeOK
<1>1. /\ w \in Seq(ClientEvents)
      /\ \A i \in DOMAIN w : w[i].number <= calls.send
      /\ sessionActive => Rises(w, 0, Len(w))
      /\ ~sessionActive => w = queuedEvents
      /\ \A i \in DOMAIN w : Starts(w[i]) /\ w[i].number = 0 => i = 1
      /\ \A i \in DOMAIN w : w[i].number \in promised =>
             sessionActive /\ ~Starts(w[i]) /\ ActiveAfter(w, 0, i - 1, TRUE)
  BY FlushedQueue
<1>2. /\ ready[k] = "connecting" /\ ready' = [ready EXCEPT ![k] = "open"]
      /\ UNCHANGED <<socket, sessionActive, calls, known, session, result, read,
                     refused, promised>>
      /\ conn' = [conn EXCEPT ![k] = "reading"]
      /\ orderly' = (orderly /\ \A j \in Sockets : conn[j] # "reading")
      /\ mine \/ older \/ none
  BY AcceptsEffect
<1> HIDE DEF w
<1>3. outgoing[k] = <<>> /\ read[k] = 0 /\ conn[k] = "none"
  BY <1>0, <1>2 DEF ConnInv
<1>4. mine => outgoing'[k] = w
  <2>1. <<>> \o w = w
    BY <1>1
  <2>2. QED
    BY <1>0, <1>3, <2>1
<1>5. older \/ none => outgoing'[k] = <<>>
  BY <1>0, <1>3
<1>6. \A j \in Sockets :
          /\ outgoing[j] \in Seq(Frames) /\ Len(outgoing[j]) \in Nat
          /\ Len(outgoing'[j]) \in Nat /\ Len(outgoing[j]) <= Len(outgoing'[j])
          /\ DOMAIN outgoing'[j] = 1..Len(outgoing'[j])
          /\ DOMAIN outgoing[j] = 1..Len(outgoing[j])
          /\ \A i \in DOMAIN outgoing[j] : outgoing'[j][i] = outgoing[j][i]
          /\ \A i \in DOMAIN outgoing'[j] :
                 \/ i \in DOMAIN outgoing[j]
                 \/ \E l \in DOMAIN w : outgoing'[j][i] = w[l]
  <2>1. \/ UNCHANGED outgoing
        \/ \E j \in Sockets : outgoing' = [outgoing EXCEPT ![j] = outgoing[j] \o w]
    BY <1>2
  <2>2. QED
    BY <1>1, <2>1, AcceptsExtends
<1>7. \A n : StartedBehind(n) => StartedBehind(n)'
  <2>1. \A j \in Sockets : \A i \in DOMAIN outgoing[j] :
            i \in DOMAIN outgoing'[j] /\ outgoing'[j][i] = outgoing[j][i]
    <3> TAKE j \in Sockets
    <3> TAKE i \in DOMAIN outgoing[j]
    <3>1. i \in 1..Len(outgoing[j]) /\ Len(outgoing[j]) <= Len(outgoing'[j])
          /\ Len(outgoing[j]) \in Nat /\ Len(outgoing'[j]) \in Nat
      BY <1>6
    <3>2. i \in 1..Len(outgoing'[j])
      BY <3>1
    <3>3. QED
      BY <1>6, <3>2
  <2>2. QED
    BY <2>1, BehindStays
<1>8. /\ Active' <=> Active
      /\ Connected' <=> Connected
      /\ UnknownFresh' <=> UnknownFresh
      /\ Server!SMTypeOK' <=> Server!SMTypeOK
  BY <1>2 DEF Active, Connected, UnknownFresh, Server!SMTypeOK
<1>9. /\ \A j \in Sockets : Reading(j)' <=> Reading(j) \/ j = k
      /\ orderly' => orderly /\ \A j \in Sockets : ~Reading(j)
  BY <1>0, <1>2 DEF Reading
<1>10. EndTypes'
  BY <1>0, <1>2, <1>8 DEF EndTypes
<1>11. ConnInv'
  <2>1. ASSUME NEW j \in Sockets
        PROVE  /\ read'[j] <= Len(outgoing'[j])
               /\ ready'[j] \in {"unused", "connecting"} =>
                      outgoing'[j] = <<>> /\ read'[j] = 0 /\ conn'[j] = "none"
               /\ ready'[j] = "open" => conn'[j] # "none"
    <3>1. /\ read[j] \in Nat /\ read[j] <= Len(outgoing[j])
          /\ ready[j] \in {"unused", "connecting"} =>
                 outgoing[j] = <<>> /\ read[j] = 0 /\ conn[j] = "none"
          /\ ready[j] = "open" => conn[j] # "none"
      BY <1>0 DEF ConnInv, EndTypes
    <3>2. read'[j] <= Len(outgoing'[j])
      BY <1>2, <1>6, <3>1
    <3>3. CASE j = k
      BY <1>0, <1>2, <3>2, <3>3
    <3>4. CASE j # k
      <4>1. ready'[j] = ready[j] /\ conn'[j] = conn[j]
        BY <1>0, <1>2, <3>4
      <4>2. ready[j] \in {"unused", "connecting"} => outgoing'[j] = outgoing[j]
        BY <1>0, <1>2, <3>4
      <4>3. QED
        BY <1>2, <3>1, <3>2, <4>1, <4>2
    <3>5. QED
      BY <3>3, <3>4
  <2>2. orderly' => \A i, j \in Sockets : Reading(i)' /\ Reading(j)' => i = j
    BY <1>9
  <2>3. Connected' => \E j \in Sockets : Reading(j)' /\ read'[j] > 0
    BY <1>0, <1>2, <1>8, <1>9 DEF ConnInv
  <2>4. QED
    BY <1>0, <1>8, <2>1, <2>2, <2>3 DEF ConnInv
<1>12. QueueInv'
  <2>1. CASE queuedEvents' = <<>>
    <3>1. DOMAIN queuedEvents' = {} /\ Len(queuedEvents') = 0
      BY <2>1
    <3>2. NoStop(queuedEvents', 0, Len(queuedEvents'))
      BY <3>1 DEF NoStop
    <3>3. AfterQueue(TRUE)'
      BY <3>2 DEF AfterQueue, ActiveAfter, Rises, NoStop
    <3>4. QED
      BY <3>1, <3>3 DEF QueueInv
  <2>2. CASE queuedEvents' = w
    <3>1. sessionActive' => AfterQueue(TRUE)'
      BY <1>1, <1>2, <2>2 DEF AfterQueue, ActiveAfter, Rises, NoStop
    <3>2. QED
      BY <1>1, <1>2, <2>2, <3>1 DEF QueueInv, ActiveAfter, Rises, NoStop
  <2>3. QED
    BY <1>2, <2>1, <2>2
<1>13. ActiveInv'
  <2>1. SUFFICES ASSUME orderly', Served', sessionActive
                 PROVE  Left(socket)' /\ StartOnTheWay(socket)'
    BY <1>2 DEF ActiveInv
  <2>2. socket \in Sockets /\ conn'[socket] = "reading" /\ conn[socket] # "reading"
    BY <1>0, <1>2, <2>1 DEF Served, Is, WSTypeOK, Reading
  <2>3. socket = k
    BY <1>0, <1>2, <2>2
  <2>4. outgoing'[k] = w
    BY <1>2, <1>4, <2>3
  <2>5. Rises(w, 0, Len(w)) /\ HasStart(w, 0, Len(w))
    BY <1>1, <2>1 DEF Rises, HasStart
  <2>6. Left(socket)'
    BY <1>2, <1>3, <2>3, <2>4, <2>5 DEF Left, ActiveAfter, Rises, NoStop
  <2>7. StartOnTheWay(socket)'
    BY <1>2, <1>3, <2>3, <2>4, <2>5 DEF StartOnTheWay, HasStart
  <2>8. QED
    BY <2>6, <2>7
<1>14. StoppedInv'
  <2>1. SUFFICES ASSUME orderly', NoStopLost', ~sessionActive
                 PROVE  ~AfterQueue(Left(k))'
    BY <1>2, <1>9 DEF StoppedInv
  <2>2. w = queuedEvents
    BY <1>1, <2>1
  <2>3. older => outgoing' = outgoing
    <3>1. SUFFICES ASSUME older PROVE outgoing' = outgoing
      OBVIOUS
    <3>2. outgoing[socket] \o <<>> = outgoing[socket]
      BY <1>0, <3>1
    <3>3. QED
      BY <1>0, <2>2, <3>1, <3>2
  <2>4. NoStopLost
    <3>1. ASSUME NEW j \in Sockets, conn[j] = "closed"
          PROVE  NoStop(outgoing[j], read[j], Len(outgoing[j]))
      <4>1. j # k /\ conn'[j] = "closed" /\ outgoing'[j] = outgoing[j] /\ read'[j] = read[j]
        BY <1>0, <1>2, <1>3, <2>3, <3>1
      <4>2. QED
        BY <2>1, <4>1, LostStops
    <3>2. QED
      BY <3>1, LostStops
  <2>5. ~AfterQueue(Active)
    BY <1>0, <1>9, <2>1, <2>4 DEF StoppedInv
  <2>6. ~Rises(queuedEvents, 0, Len(queuedEvents))
        /\ ~(Active /\ NoStop(queuedEvents, 0, Len(queuedEvents)))
    BY <2>5 DEF AfterQueue, ActiveAfter
  <2>7. Len(<<>>) = 0 /\ NoStop(<<>>, 0, 0) /\ ~Rises(<<>>, 0, 0)
    BY SegmentEmpty
  <2>8. CASE mine
    <3>1. ~Left(k)'
      BY <1>2, <1>3, <1>4, <1>8, <2>2, <2>6, <2>8 DEF Left, ActiveAfter, Rises, NoStop
    <3>2. queuedEvents' = <<>>
      BY <2>8
    <3>3. QED
      BY <2>7, <3>1, <3>2 DEF AfterQueue, ActiveAfter, Rises, NoStop
  <2>9. CASE older \/ none
    <3>1. outgoing'[k] = <<>> /\ read'[k] = 0
      BY <1>2, <1>3, <1>5, <2>9
    <3>2. Left(k)' => Active
      BY <1>8, <2>7, <3>1 DEF Left, ActiveAfter, Rises, NoStop
    <3>3. queuedEvents' = queuedEvents
      BY <2>2, <2>9
    <3>4. QED
      BY <2>6, <3>2, <3>3 DEF AfterQueue, ActiveAfter, Rises, NoStop
  <2>10. QED
    BY <1>2, <2>8, <2>9
<1>15. NumbersInv'
  <2>1. ASSUME NEW j \in Sockets, NEW i \in DOMAIN outgoing'[j]
        PROVE  outgoing'[j][i].number <= calls.send
    <3>1. CASE i \in DOMAIN outgoing[j]
      <4>1. outgoing'[j][i] = outgoing[j][i]
        BY <1>6, <3>1
      <4>2. QED
        BY <1>0, <3>1, <4>1 DEF NumbersInv
    <3>2. CASE \E l \in DOMAIN w : outgoing'[j][i] = w[l]
      BY <1>1, <3>2
    <3>3. QED
      BY <1>6, <3>1, <3>2
  <2>2. ASSUME NEW i \in DOMAIN queuedEvents' PROVE queuedEvents'[i].number <= calls.send
    BY <1>1, <1>2
  <2>3. QED
    BY <1>0, <1>2, <2>1, <2>2 DEF NumbersInv
<1>16. PromiseInv'
  <2>1. UtterancesAccepted'
    BY <1>0, <1>2, <1>7, <1>9 DEF PromiseInv, UtterancesAccepted
  <2>2. ASSUME NEW i \in 1..Len(outgoing'[k]), NEW n, n = outgoing'[k][i].number,
               n \in promised
        PROVE  StartedBehind(n)' \/ Rises(outgoing'[k], 0, i - 1)
    <3>1. mine
      <4>1. outgoing'[k] # <<>>
        BY <2>2
      <4>2. QED
        BY <1>2, <1>5, <4>1
    <3>2. outgoing'[k] = w /\ i \in DOMAIN w
      BY <1>1, <1>4, <2>2, <3>1
    <3>3. sessionActive /\ ~Starts(w[i]) /\ ActiveAfter(w, 0, i - 1, TRUE)
      BY <1>1, <2>2, <3>2
    <3>4. \/ Rises(w, 0, i - 1)
          \/ \E j \in DOMAIN w : i < j /\ Starts(w[j]) /\ w[j].number # 0
      BY <1>1, <3>2, <3>3, FlushedPromises
    <3>5. CASE \E j \in DOMAIN w : i < j /\ Starts(w[j]) /\ w[j].number # 0
      <4>1. PICK j \in DOMAIN outgoing'[k] :
                i < j /\ outgoing'[k][j].type = "START_SESSION" /\ outgoing'[k][j].number # 0
        BY <3>2, <3>5 DEF Starts
      <4>2. i \in DOMAIN outgoing'[k]
        BY <3>2
      <4>3. QED
        BY <2>2, <4>1, <4>2 DEF StartedBehind
    <3>6. QED
      BY <3>2, <3>4, <3>5
  <2>3. Awaited(k)'
    <3>1. read'[k] = 0 /\ 0 + 1 = 1
      BY <1>2, <1>3
    <3>2. QED
      BY <1>2, <2>2, <3>1 DEF Awaited, StartedBehind, ActiveAfter, Rises, NoStop
  <2>4. QED
    BY <1>9, <2>1, <2>3 DEF PromiseInv
<1>17. QED
  BY <1>10, <1>11, <1>12, <1>13, <1>14, <1>15, <1>16 DEF LinkInv

-----------------------------------------------------------------------------
(* The theorems *)

LEMMA EndInvInit == Init => EndInv
<1> SUFFICES ASSUME Init PROVE EndInv
  OBVIOUS
<1>1. ClientInv
  BY ClientInvInit DEF Init
<1>2. ~Active /\ ~Connected /\ UnknownFresh /\ Server!SMTypeOK
  BY FreshEffect DEF Init
<1>3. /\ conn = [k \in Sockets |-> "none"] /\ read = [k \in Sockets |-> 0]
      /\ refused = {} /\ promised = {}
      /\ outgoing = [k \in Sockets |-> <<>>] /\ ready = [k \in Sockets |-> "unused"]
      /\ queuedEvents = <<>> /\ ~sessionActive /\ socket = NoSocket
  BY DEF Init, WSInit
<1>4. DOMAIN queuedEvents = {} /\ Len(queuedEvents) = 0
  BY <1>3
<1>5. EndTypes
  BY <1>2, <1>3 DEF EndTypes
<1>6. ConnInv
  <2>1. Len(<<>>) = 0
    OBVIOUS
  <2>2. QED
    BY <1>2, <1>3, <2>1 DEF ConnInv, Reading
<1>7. QueueInv /\ NumbersInv
  BY <1>3, <1>4 DEF QueueInv, NumbersInv
<1>8. ActiveInv
  BY <1>3 DEF ActiveInv
<1>9. StoppedInv
  <2>1. ~Rises(queuedEvents, 0, 0)
    BY SegmentEmpty
  <2>2. QED
    BY <1>2, <1>3, <1>4, <2>1 DEF StoppedInv, AfterQueue, ActiveAfter, Reading
<1>10. PromiseInv
  BY <1>3 DEF PromiseInv, UtterancesAccepted, Reading
<1>11. QED
  BY <1>1, <1>5, <1>6, <1>7, <1>8, <1>9, <1>10 DEF EndInv, LinkInv

LEMMA EndInvStep == OnePage /\ EndInv /\ [Next]_vars => EndInv'
<1> SUFFICES ASSUME OnePage, EndInv, [Next]_vars PROVE EndInv'
  OBVIOUS
<1>1. ClientInv /\ LinkInv /\ WSTypeOK /\ SocketInv
  BY DEF EndInv, ClientInv
<1>2. ClientInv'
  BY <1>1, StepsOfClient, ClientInvStep
<1>3. ASSUME Unmoved PROVE LinkInv'
  BY <1>1, <1>3, UnmovedStep
<1>4. ASSUME NEW e \in ClientEvents, SaysStart(e) \/ SaysStop(e) \/ SaysMore(e)
      PROVE  LinkInv'
  BY <1>1, <1>4, SpeaksStep DEF Speaks
<1>5. ASSUME NEW k \in Sockets, SocketAccepted(k) PROVE LinkInv'
  BY <1>1, <1>5, AcceptsStep
<1>6. ASSUME NEW k \in Sockets, ServerReads(k) PROVE LinkInv'
  BY <1>1, <1>6, ReadsStep
<1>7. ASSUME NEW k \in Sockets, Loses(k) PROVE LinkInv'
  BY <1>1, <1>7, LosesStep
<1>8. ASSUME ServerRestarts PROVE LinkInv'
  BY <1>1, <1>8, RestartStep
<1>9. LinkInv'
  BY <1>1, <1>3, <1>4, <1>5, <1>6, <1>7, <1>8, Steps
<1>10. QED
  BY <1>2, <1>9 DEF EndInv

\* Client and backend of a page with one session id always satisfy EndInv: where
\* the session will be once all that is on its way is handled (ensureSessionStartQueued,
\* sendEvent, flushQueue, Handle, MarkDisconnected).
THEOREM EndInvariant == OnePage => (Spec => []EndInv)
<1> SUFFICES ASSUME OnePage PROVE Spec => []EndInv
  OBVIOUS
<1>1. EndInv /\ [Next]_vars => EndInv'
  BY EndInvStep
<1>2. QED
  BY <1>1, EndInvInit, PTL DEF Spec

\* On a connection on which nothing is on the way.
LEMMA QuietMeans ==
    ASSUME OnePage, EndInv, Quiet
    PROVE  /\ socket \in Sockets /\ Reading(socket) /\ Served
           /\ ~StartOnTheWay(socket)
           /\ Left(socket) <=> Active
           /\ AfterQueue(Left(socket)) <=> Active
           /\ sessionId # NoSessionId => (ServerActive <=> Active)
           /\ sessionId # NoSessionId => (Connected <=> session[sessionId].connected)
<1>0. WSTypeOK /\ SocketInv /\ EndTypes
  BY DEF EndInv, ClientInv, LinkInv
<1>1. socket \in Sockets /\ Reading(socket) /\ Served /\ queuedEvents = <<>>
  BY <1>0 DEF Quiet, Is, Served, Reading, WSTypeOK, SocketInv
<1>2. read[socket] \in Nat /\ read[socket] = Len(outgoing[socket])
  BY <1>0, <1>1 DEF Quiet, EndTypes
<1>3. /\ NoStop(outgoing[socket], read[socket], read[socket])
      /\ ~Rises(outgoing[socket], read[socket], read[socket])
      /\ ~HasStart(outgoing[socket], read[socket], read[socket])
  BY <1>2, SegmentEmpty
<1>4. ~StartOnTheWay(socket)
  BY <1>2, <1>3 DEF StartOnTheWay
<1>5. Left(socket) <=> Active
  BY <1>2, <1>3 DEF Left, ActiveAfter
<1>6. Len(queuedEvents) = 0 /\ NoStop(queuedEvents, 0, 0) /\ ~Rises(queuedEvents, 0, 0)
  BY <1>1, SegmentEmpty
<1>7. AfterQueue(Left(socket)) <=> Active
  BY <1>5, <1>6 DEF AfterQueue, ActiveAfter
<1>8. ASSUME sessionId # NoSessionId
      PROVE  /\ ServerActive <=> Active
             /\ Connected <=> session[sessionId].connected
  <2>1. sessionId \in SessionIds /\ SessionIds = {sessionId}
    BY <1>0, <1>8 DEF WSTypeOK, OnePage
  <2>2. known \subseteq {sessionId}
    BY <1>0, <2>1 DEF EndTypes, Server!SMTypeOK
  <2>3. QED
    BY <2>1, <2>2 DEF ServerActive, Active, Connected
<1>9. QED
  BY <1>1, <1>4, <1>5, <1>7, <1>8

\* As long as each connection began after the earlier ones had ended at the
\* backend (orderly): when nothing is on the way, a session that the client
\* believes active is active at the backend, and a stopped one is not unless a
\* stop was lost, however many other events were.
THEOREM BothEndsAgree == OnePage => (Spec => []SessionsAgree)
<1> SUFFICES ASSUME OnePage PROVE Spec => []SessionsAgree
  OBVIOUS
<1>1. EndInv => SessionsAgree
  <2>1. SUFFICES ASSUME EndInv, orderly, Quiet, sessionId # NoSessionId
                 PROVE  /\ sessionActive => ServerActive
                        /\ ~sessionActive /\ NoStopLost => ~ServerActive
    BY DEF SessionsAgree
  <2>2. sessionActive => Left(socket)
    BY <2>1, QuietMeans DEF EndInv, LinkInv, ActiveInv
  <2>3. ~sessionActive /\ NoStopLost => ~AfterQueue(Left(socket))
    BY <2>1, QuietMeans DEF EndInv, LinkInv, StoppedInv
  <2>4. QED
    BY <2>1, <2>2, <2>3, QuietMeans
<1>2. QED
  BY <1>1, EndInvariant, PTL

\* The backend holds a session for connected only while it serves somebody.  As
\* long as connections were orderly, the active session of a client that uses a
\* connection on which nothing is on the way is held for connected.
THEOREM ConnectedIsHonest == OnePage => (Spec => []ConnectedHonest)
<1> SUFFICES ASSUME OnePage PROVE Spec => []ConnectedHonest
  OBVIOUS
<1>1. EndInv => ConnectedHonest
  <2> SUFFICES ASSUME EndInv PROVE ConnectedHonest
    OBVIOUS
  <2>1. Connected => \E k \in Sockets : conn[k] = "reading"
    BY DEF EndInv, LinkInv, ConnInv, Reading
  <2>2. ASSUME orderly, Quiet, sessionActive PROVE session[sessionId].connected
    <3>1. sessionId # NoSessionId
      BY <2>2 DEF EndInv, ClientInv, SocketInv
    <3>2. Served /\ ~StartOnTheWay(socket)
          /\ (Connected <=> session[sessionId].connected)
      BY <2>2, <3>1, QuietMeans
    <3>3. Connected
      BY <2>2, <3>2 DEF EndInv, LinkInv, ActiveInv
    <3>4. QED
      BY <3>2, <3>3
  <2>3. QED
    BY <2>1, <2>2 DEF ConnectedHonest, Connected
<1>2. QED
  BY <1>1, EndInvariant, PTL

\* As long as connections were orderly, what is said in an active session is
\* never refused, whatever was lost and however often the backend was started
\* again, unless the App started the session again behind it.
THEOREM AcceptedUtterances == OnePage => (Spec => []UtterancesAccepted)
<1> SUFFICES ASSUME OnePage PROVE Spec => []UtterancesAccepted
  OBVIOUS
<1>1. EndInv => UtterancesAccepted
  BY DEF EndInv, LinkInv, PromiseInv
<1>2. QED
  BY <1>1, EndInvariant, PTL

\* Beside the backend, whatever ends a connection there, the client keeps the
\* promises it makes alone for any page ...
THEOREM ClientBesideBackend ==
    Spec => [](/\ WSTypeOK /\ NothingLostOrReordered /\ ReconnectPlanned
               /\ ReconnectsOneAtATime /\ StateHonest /\ DisconnectStops)
<1>1. Init => ClientInv
  BY ClientInvInit DEF Init
<1>2. ClientInv /\ [Next]_vars => ClientInv'
  BY StepsOfClient, ClientInvStep DEF ClientInv
<1>3. ClientInv => /\ WSTypeOK /\ NothingLostOrReordered /\ ReconnectPlanned
                   /\ ReconnectsOneAtATime /\ StateHonest /\ DisconnectStops
  BY ClientInvImplies DEF ClientInv
<1>4. QED
  BY <1>1, <1>2, <1>3, PTL DEF Spec

\* ... and a page with one session id announces its active session on each
\* connection it uses.
THEOREM AnnouncedToBackend == OnePage => (Spec => []ActiveSessionAnnounced)
<1> SUFFICES ASSUME OnePage PROVE Spec => []ActiveSessionAnnounced
  OBVIOUS
<1>1. Init => ClientInv /\ ActiveSessionAnnounced
  BY ClientInvInit DEF Init
<1>2. ClientInv /\ ActiveSessionAnnounced /\ [Next]_vars
        => (ClientInv /\ ActiveSessionAnnounced)'
  BY StepsOfClient, ClientInvStep, AnnouncedStep DEF ClientInv
<1>3. QED
  BY <1>1, <1>2, PTL DEF Spec

=============================================================================
