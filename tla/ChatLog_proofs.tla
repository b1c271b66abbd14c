----------------------------- MODULE ChatLog_proofs -----------------------------
(***************************************************************************)
(* Proofs about ChatLog: the types, and what a message offers and names,   *)
(* for any number of questions, of lost connections and of restarts, and   *)
(* for stray events in any order.                                          *)
(***************************************************************************)
EXTENDS ChatLog, SessionManager_proofs, WellFoundedInduction, FiniteSetTheorems

-----------------------------------------------------------------------------
(* Looking a message up *)

\* A set of natural numbers that is not empty has a least element.
LEMMA LeastExists ==
    ASSUME NEW S \in SUBSET Nat, S # {}
    PROVE  \E x \in S : \A y \in S : x <= y
<1> DEFINE R == OpToRel(<, Nat)
<1>1. \E x \in S : \A y \in S : ~ (<<y, x>> \in R)
  <2> HIDE DEF R
  <2>1. IsWellFoundedOn(R, Nat)
    BY NatLessThanWellFounded DEF R
  <2>2. QED
    BY <2>1, WFMin
<1>2. \A x, y \in Nat : ~ (<<y, x>> \in R) => x <= y
  BY DEF OpToRel
<1>3. QED
  BY <1>1, <1>2

\* SelectInSeq gives the first place that passes its test.
LEMMA FirstIsIn ==
    ASSUME NEW n \in Nat, NEW I \in SUBSET (1..n), I # {}
    PROVE  Min(I) \in I
<1>1. \E x \in I : \A y \in I : x <= y
  BY LeastExists
<1>2. QED
  BY <1>1 DEF Min

\* SelectLastInSeq gives the last place that passes its test.
LEMMA LastIsIn ==
    ASSUME NEW n \in Nat, NEW I \in SUBSET (1..n), I # {}
    PROVE  Max(I) \in I
<1> DEFINE S == {x \in Nat : \E i \in I : x = n - i}
<1>0. \A i \in I : n - i \in S
  OBVIOUS
<1>1. S \in SUBSET Nat /\ S # {}
  BY <1>0
<1>2. PICK x \in S : \A y \in S : x <= y
  BY <1>1, LeastExists
<1>3. PICK i \in I : x = n - i
  BY <1>2
<1>4. \A j \in I : i >= j
  <2> SUFFICES ASSUME NEW j \in I PROVE i >= j
    OBVIOUS
  <2>1. n - i <= n - j
    BY <1>0, <1>2, <1>3
  <2>2. QED
    BY <2>1
<1>5. QED
  BY <1>4 DEF Max

\* The pending message that an event goes to is one.
LEMMA LastPendingIs ==
    ASSUME NEW log \in Seq(Message)
    PROVE  \/ /\ LastPending(log) = 0
              /\ \A i \in DOMAIN log : log[i].phase # "pending"
           \/ /\ LastPending(log) \in DOMAIN log
              /\ log[LastPending(log)].phase = "pending"
<1> DEFINE I == {i \in 1..Len(log) : log[i].phase = "pending"}
<1>1. Len(log) \in Nat /\ DOMAIN log = 1..Len(log)
  BY LenProperties
<1>2. LastPending(log) = IF I # {} THEN Max(I) ELSE 0
  BY DEF LastPending, SelectLastInSeq
<1>3. I # {} => Max(I) \in I
  BY <1>1, LastIsIn
<1>4. QED
  BY <1>1, <1>2, <1>3

\* So is the placeholder that a transcript takes the place of.
LEMMA PlaceholderIs ==
    ASSUME NEW log \in Seq(Message)
    PROVE  SelectLastInSeq(log, LAMBDA m : m.placeholder) \in {0} \union DOMAIN log
<1> DEFINE I == {i \in 1..Len(log) : log[i].placeholder}
<1>1. Len(log) \in Nat /\ DOMAIN log = 1..Len(log)
  BY LenProperties
<1>2. SelectLastInSeq(log, LAMBDA m : m.placeholder) = IF I # {} THEN Max(I) ELSE 0
  BY DEF SelectLastInSeq
<1>3. I # {} => Max(I) \in I
  BY <1>1, LastIsIn
<1>4. QED
  BY <1>1, <1>2, <1>3

\* And the message of a generation that a text goes to.
LEMMA OwnIs ==
    ASSUME NEW log \in Seq(Message), NEW e
    PROVE  \/ SelectInSeq(log, LAMBDA m : OfGeneration(m, e.gen)) = 0
           \/ /\ SelectInSeq(log, LAMBDA m : OfGeneration(m, e.gen)) \in DOMAIN log
              /\ OfGeneration(log[SelectInSeq(log, LAMBDA m : OfGeneration(m, e.gen))], e.gen)
<1> DEFINE I == {i \in 1..Len(log) : OfGeneration(log[i], e.gen)}
<1>1. Len(log) \in Nat /\ DOMAIN log = 1..Len(log)
  BY LenProperties
<1>2. SelectInSeq(log, LAMBDA m : OfGeneration(m, e.gen)) = IF I # {} THEN Min(I) ELSE 0
  BY DEF SelectInSeq
<1>3. I # {} => Min(I) \in I
  BY <1>1, FirstIsIn
<1>4. QED
  BY <1>1, <1>2, <1>3

-----------------------------------------------------------------------------
(* What an event does to the log *)

\* The events the page can be sent, by this backend or by another.
AnyEvent == [type : EventTypes \union {"ASSISTANT_TEXT", "PARTIAL_TRANSCRIPT",
                                       "FINAL_TRANSCRIPT"},
             gen : Generations, answers : Questions, stale : BOOLEAN]

\* The message at k becomes m, or m is added at k; the others stay.
Puts(log, new, k, m) ==
    /\ new \in Seq(Message)
    /\ Len(new) >= Len(log)
    /\ k \in DOMAIN new
    /\ new[k] = m
    /\ DOMAIN new = DOMAIN log \union {k}
    /\ \A i \in DOMAIN log : i # k => new[i] = log[i]

LEMMA AppendPuts ==
    ASSUME NEW log \in Seq(Message), NEW m \in Message
    PROVE  /\ Puts(log, Append(log, m), Len(log) + 1, m)
           /\ Len(log) + 1 \notin DOMAIN log
<1>1. /\ Len(log) \in Nat /\ DOMAIN log = 1..Len(log)
      /\ Append(log, m) \in Seq(Message)
      /\ Len(Append(log, m)) = Len(log) + 1
      /\ Append(log, m)[Len(log) + 1] = m
      /\ \A i \in 1..Len(log) : Append(log, m)[i] = log[i]
      /\ DOMAIN Append(log, m) = 1..(Len(log) + 1)
  BY LenProperties, AppendProperties
<1>2. QED
  BY <1>1 DEF Puts

LEMMA ExceptPuts ==
    ASSUME NEW log \in Seq(Message), NEW k \in DOMAIN log, NEW m \in Message
    PROVE  Puts(log, [log EXCEPT ![k] = m], k, m)
<1>1. Len(log) \in Nat /\ DOMAIN log = 1..Len(log)
  BY LenProperties
<1>2. /\ [log EXCEPT ![k] = m] \in Seq(Message)
      /\ Len([log EXCEPT ![k] = m]) = Len(log)
  BY <1>1, ExceptSeq
<1>3. DOMAIN [log EXCEPT ![k] = m] = DOMAIN log
  OBVIOUS
<1>4. QED
  BY <1>1, <1>2, <1>3 DEF Puts

\* The messages that are added are messages.
LEMMA NewMessages ==
    ASSUME NEW n \in Questions
    PROVE  User(n) \in Message /\ VoicePlaceholder(n) \in Message
               /\ PendingAssistant(n) \in Message
<1>1. 0 \in Questions /\ NoGen \in Generations
  BY ChatBounds, MaxGenerationAssumption DEF Questions, NoGen, Generations
<1>2. QED
  BY <1>1 DEF User, VoicePlaceholder, PendingAssistant, Message

\* So are those that the events change.
LEMMA NamedMessage ==
    ASSUME NEW m \in Message, NEW g \in Generations
    PROVE  [m EXCEPT !.gen = g] \in Message
BY DEF Message

LEMMA OfferedMessage ==
    ASSUME NEW m \in Message, NEW n \in Questions
    PROVE  [m EXCEPT !.phase = "ready", !.audio = n] \in Message
BY DEF Message

LEMMA HeardMessage ==
    ASSUME NEW m \in Message, NEW n \in Questions
    PROVE  /\ [m EXCEPT !.text = n] \in Message
           /\ [m EXCEPT !.text = n, !.placeholder = FALSE] \in Message
BY DEF Message

LEMMA ToldMessage ==
    ASSUME NEW m \in Message, NEW n \in Questions, NEW g \in Generations,
           NEW stale \in BOOLEAN, NEW a \in Questions
    PROVE  [m EXCEPT !.phase = "ready", !.text = n, !.gen = g,
                     !.stale = stale, !.audio = a] \in Message
BY DEF Message

\* ASSISTANT_SPEAKING names a pending message or adds one.
Speaks(log, new, e) ==
    \/ /\ \A i \in DOMAIN log : log[i].phase # "pending"
       /\ Len(log) + 1 \notin DOMAIN log
       /\ Puts(log, new, Len(log) + 1, [PendingAssistant(0) EXCEPT !.gen = e.gen])
    \/ \E k \in DOMAIN log :
           /\ log[k].phase = "pending"
           /\ Puts(log, new, k, [log[k] EXCEPT !.gen = e.gen])

LEMMA SpeakingEffect ==
    ASSUME NEW log \in Seq(Message), NEW e \in AnyEvent
    PROVE  Speaks(log, AfterSpeaking(log, e), e)
<1> DEFINE k == LastPending(log)
<1>1. 0 \in Questions /\ e.gen \in Generations
  BY ChatBounds DEF Questions, AnyEvent
<1>2. CASE k = 0
  <2>1. AfterSpeaking(log, e) = Append(log, [PendingAssistant(0) EXCEPT !.gen = e.gen])
    BY <1>2 DEF AfterSpeaking
  <2>2. PendingAssistant(0) \in Message
    BY <1>1, NewMessages
  <2>3. [PendingAssistant(0) EXCEPT !.gen = e.gen] \in Message
    BY <1>1, <2>2, NamedMessage
  <2>4. 0 \notin DOMAIN log
    BY LenProperties
  <2>5. \A i \in DOMAIN log : log[i].phase # "pending"
    BY <1>2, <2>4, LastPendingIs
  <2>6. QED
    BY <2>1, <2>3, <2>5, AppendPuts DEF Speaks
<1>3. CASE k # 0
  <2>1. k \in DOMAIN log /\ log[k].phase = "pending"
    BY <1>3, LastPendingIs
  <2>2. AfterSpeaking(log, e) = [log EXCEPT ![k] = [log[k] EXCEPT !.gen = e.gen]]
    BY <1>3 DEF AfterSpeaking
  <2>3. log[k] \in Message
    BY <2>1, LenProperties
  <2>4. [log[k] EXCEPT !.gen = e.gen] \in Message
    BY <1>1, <2>3, NamedMessage
  <2>5. Puts(log, AfterSpeaking(log, e), k, [log[k] EXCEPT !.gen = e.gen])
    BY <2>1, <2>2, <2>4, ExceptPuts
  <2>6. QED
    BY <2>1, <2>5 DEF Speaks
<1>4. QED
  BY <1>2, <1>3

\* AUDIO_READY changes nothing, since its reply is stale, or it goes to the
\* messages of its generation, or to a pending one, or to a new one.
Offered(m, e) == [m EXCEPT !.phase = "ready", !.audio = e.answers]

OffersMine(log, new, e) ==
    /\ \A i \in DOMAIN log : OfGeneration(log[i], e.gen) => ~log[i].stale
    /\ \E i \in DOMAIN log : OfGeneration(log[i], e.gen)
    /\ new \in Seq(Message)
    /\ DOMAIN new = DOMAIN log
    /\ \A i \in DOMAIN log :
           new[i] = IF OfGeneration(log[i], e.gen) THEN Offered(log[i], e) ELSE log[i]

OffersOther(log, new, e) ==
    /\ \A i \in DOMAIN log : ~OfGeneration(log[i], e.gen)
    /\ \/ /\ \A i \in DOMAIN log : log[i].phase # "pending"
          /\ Len(log) + 1 \notin DOMAIN log
          /\ Puts(log, new, Len(log) + 1,
                  [Offered(PendingAssistant(0), e) EXCEPT !.gen = e.gen])
       \/ \E k \in DOMAIN log : \E g \in {e.gen, log[k].gen} :
              /\ log[k].phase = "pending"
              /\ e.gen # NoGen => g = e.gen
              /\ Puts(log, new, k, [Offered(log[k], e) EXCEPT !.gen = g])

Offers(log, new, e) ==
    \/ Superseded(log, e) /\ new = log
    \/ OffersMine(log, new, e)
    \/ OffersOther(log, new, e)

LEMMA AudioEffect ==
    ASSUME NEW log \in Seq(Message), NEW e \in AnyEvent
    PROVE  Offers(log, AfterAudio(log, e), e)
<1> DEFINE k == LastPending(log)
           new == AfterAudio(log, e)
           mine(i) == OfGeneration(log[i], e.gen)
           g == IF e.gen = NoGen /\ k # 0 THEN log[k].gen ELSE e.gen
<1>1. /\ 0 \in Questions /\ e.gen \in Generations /\ e.answers \in Questions
      /\ DOMAIN log = 1..Len(log) /\ Len(log) \in Nat
      /\ \A i \in DOMAIN log : log[i] \in Message
  BY ChatBounds, LenProperties DEF Questions, AnyEvent
<1>2. CASE Superseded(log, e)
  BY <1>2 DEF AfterAudio, Offers
<1>3. CASE ~Superseded(log, e) /\ \E i \in DOMAIN log : mine(i)
  <2>1. new = [i \in DOMAIN log |-> IF mine(i) THEN Offered(log[i], e) ELSE log[i]]
    BY <1>3 DEF AfterAudio, Offered
  <2>2. \A i \in DOMAIN log : Offered(log[i], e) \in Message
    BY <1>1, OfferedMessage DEF Offered
  <2>3. \A i \in 1..Len(log) : new[i] \in Message
    BY <1>1, <2>1, <2>2
  <2>4. new \in [1..Len(log) -> Message]
    BY <1>1, <2>1, <2>3
  <2>5. new \in Seq(Message)
    BY <1>1, <2>4
  <2>6. \A i \in DOMAIN log : mine(i) => ~log[i].stale
    BY <1>3 DEF Superseded
  <2>7. OffersMine(log, new, e)
    BY <1>3, <2>1, <2>5, <2>6 DEF OffersMine
  <2>8. QED
    BY <2>7 DEF Offers
<1>4. CASE ~Superseded(log, e) /\ ~(\E i \in DOMAIN log : mine(i)) /\ k = 0
  <2>1. new = Append(log, [Offered(PendingAssistant(0), e) EXCEPT !.gen = e.gen])
    BY <1>4 DEF AfterAudio, Offered
  <2>2. [Offered(PendingAssistant(0), e) EXCEPT !.gen = e.gen] \in Message
    BY <1>1, NewMessages, OfferedMessage, NamedMessage DEF Offered
  <2>3. \A i \in DOMAIN log : log[i].phase # "pending"
    BY <1>1, <1>4, LastPendingIs
  <2>4. OffersOther(log, new, e)
    BY <1>4, <2>1, <2>2, <2>3, AppendPuts DEF OffersOther
  <2>5. QED
    BY <2>4 DEF Offers
<1>5. CASE ~Superseded(log, e) /\ ~(\E i \in DOMAIN log : mine(i)) /\ k # 0
  <2>1. k \in DOMAIN log /\ log[k].phase = "pending"
    BY <1>5, LastPendingIs
  <2>2. new = [log EXCEPT ![k] = [Offered(log[k], e) EXCEPT !.gen = g]]
    BY <1>5 DEF AfterAudio, Offered
  <2>3. /\ g \in {e.gen, log[k].gen} /\ g \in Generations
        /\ e.gen # NoGen => g = e.gen
    BY <1>1, <2>1 DEF Message
  <2>4. [Offered(log[k], e) EXCEPT !.gen = g] \in Message
    <3> HIDE DEF g, k
    <3>1. Offered(log[k], e) \in Message
      BY <1>1, <2>1, OfferedMessage DEF Offered
    <3>2. QED
      BY <2>3, <3>1, NamedMessage
  <2> HIDE DEF g, k, new
  <2>5. Puts(log, new, k, [Offered(log[k], e) EXCEPT !.gen = g])
    BY <2>1, <2>2, <2>4, ExceptPuts
  <2>6. OffersOther(log, new, e)
    BY <1>5, <2>1, <2>3, <2>5 DEF OffersOther
  <2>7. QED
    BY <2>6 DEF Offers, new
<1>6. QED
  BY <1>2, <1>3, <1>4, <1>5

\* ASSISTANT_TEXT goes to a message of its generation, to a pending one, or to
\* a new one; TRANSCRIPT changes only words.
Told(m, e) ==
    [m EXCEPT !.phase = "ready", !.text = e.answers, !.gen = e.gen,
              !.stale = e.stale, !.audio = IF e.stale THEN 0 ELSE m.audio]

Tells(log, new, e) ==
    \/ Puts(log, new, Len(log) + 1, Told(PendingAssistant(0), e))
    \/ \E k \in DOMAIN log :
           /\ OfGeneration(log[k], e.gen) \/ log[k].phase = "pending"
           /\ Puts(log, new, k, Told(log[k], e))

LEMMA TextEffect ==
    ASSUME NEW log \in Seq(Message), NEW e \in AnyEvent
    PROVE  Tells(log, AfterText(log, e), e)
<1> DEFINE own == SelectInSeq(log, LAMBDA m : OfGeneration(m, e.gen))
           k == IF own # 0 THEN own ELSE LastPending(log)
           new == AfterText(log, e)
<1>1. /\ 0 \in Questions /\ e.gen \in Generations /\ e.answers \in Questions
      /\ e.stale \in BOOLEAN
      /\ \A i \in DOMAIN log : log[i] \in Message
  BY ChatBounds, LenProperties DEF Questions, AnyEvent
<1>2. \A m \in Message : Told(m, e) \in Message
  <2> SUFFICES ASSUME NEW m \in Message PROVE Told(m, e) \in Message
    OBVIOUS
  <2> DEFINE a == IF e.stale THEN 0 ELSE m.audio
  <2>1. a \in Questions
    BY <1>1 DEF Message
  <2> HIDE DEF a
  <2>2. [m EXCEPT !.phase = "ready", !.text = e.answers, !.gen = e.gen,
                  !.stale = e.stale, !.audio = a] \in Message
    BY <1>1, <2>1, ToldMessage
  <2>3. QED
    BY <2>2 DEF a, Told
<1>3. CASE k = 0
  <2>1. new = Append(log, Told(PendingAssistant(0), e))
    BY <1>3 DEF AfterText, Told
  <2>2. Told(PendingAssistant(0), e) \in Message
    BY <1>1, <1>2, NewMessages
  <2>3. QED
    BY <2>1, <2>2, AppendPuts DEF Tells
<1>4. CASE k # 0
  <2>1. k \in DOMAIN log /\ (OfGeneration(log[k], e.gen) \/ log[k].phase = "pending")
    <3>1. own # 0 => own \in DOMAIN log /\ OfGeneration(log[own], e.gen)
      BY OwnIs
    <3> HIDE DEF own
    <3>2. QED
      BY <1>4, <3>1, LastPendingIs
  <2>2. new = [log EXCEPT ![k] = Told(log[k], e)]
    BY <1>4 DEF AfterText, Told
  <2>3. Told(log[k], e) \in Message
    BY <1>1, <1>2, <2>1
  <2> HIDE DEF new, k
  <2>4. Puts(log, new, k, Told(log[k], e))
    BY <2>1, <2>2, <2>3, ExceptPuts
  <2>5. QED
    BY <2>1, <2>4 DEF Tells, new
<1>5. QED
  BY <1>3, <1>4

Hears(log, new, e) ==
    \/ Puts(log, new, Len(log) + 1, [User(0) EXCEPT !.text = e.answers])
    \/ \E k \in DOMAIN log :
           Puts(log, new, k, [log[k] EXCEPT !.text = e.answers, !.placeholder = FALSE])

LEMMA TranscriptEffect ==
    ASSUME NEW log \in Seq(Message), NEW e \in AnyEvent
    PROVE  Hears(log, AfterTranscript(log, e), e)
<1> DEFINE k == SelectLastInSeq(log, LAMBDA m : m.placeholder)
<1>1. /\ 0 \in Questions /\ e.answers \in Questions
      /\ \A i \in DOMAIN log : log[i] \in Message
  BY ChatBounds, LenProperties DEF Questions, AnyEvent
<1>2. CASE k = 0
  <2>1. AfterTranscript(log, e) = Append(log, [User(0) EXCEPT !.text = e.answers])
    BY <1>2 DEF AfterTranscript
  <2>2. [User(0) EXCEPT !.text = e.answers] \in Message
    BY <1>1, NewMessages, HeardMessage
  <2>3. QED
    BY <2>1, <2>2, AppendPuts DEF Hears
<1>3. CASE k # 0
  <2>1. k \in DOMAIN log
    BY <1>3, PlaceholderIs
  <2>2. AfterTranscript(log, e) =
            [log EXCEPT ![k].text = e.answers, ![k].placeholder = FALSE]
    BY <1>3 DEF AfterTranscript
  <2> HIDE DEF k
  <2>3. AfterTranscript(log, e) =
            [log EXCEPT ![k] = [log[k] EXCEPT !.text = e.answers, !.placeholder = FALSE]]
    BY <1>1, <2>1, <2>2 DEF Message
  <2>4. [log[k] EXCEPT !.text = e.answers, !.placeholder = FALSE] \in Message
    BY <1>1, <2>1, HeardMessage
  <2>5. Puts(log, AfterTranscript(log, e), k,
             [log[k] EXCEPT !.text = e.answers, !.placeholder = FALSE])
    BY <2>1, <2>3, <2>4, ExceptPuts
  <2>6. QED
    BY <2>1, <2>5 DEF Hears
<1>4. QED
  BY <1>2, <1>3

-----------------------------------------------------------------------------
(* The types *)

Requests == [type : {"START_SESSION", "STOP_SESSION", "USER_SPEECH_END", "TEXT_INPUT"},
             question : Questions]
WireEvents == [type : EventTypes, gen : Generations,
               answers : Questions, stale : BOOLEAN]
CountOK == count \in [question : Questions, toggle : Nat, loss : Nat,
                      restart : Nat, stray : Nat]

\* The types of what no message shows.
VoiceOK ==
    /\ voiceActive \in BOOLEAN /\ errorState \in BOOLEAN /\ sessionActive \in BOOLEAN
    /\ capture \in CaptureStates /\ outside \subseteq Questions

\* The types, and the sessions as SessionManager_proofs knows them.
TypeInv == ChatTypeOK /\ CountOK /\ IInv

\* What handling a request does to the sessions is a call of Handle.
LEMMA RequestIsHandle ==
    ASSUME NEW q \in Requests, HandleRequest(q)
    PROVE  Handle(Conn, Page)
BY DEF HandleRequest, Handle

\* The sessions of a step are handled, are new, or lose their connection.
LEMMA SessionsStep ==
    ASSUME TypeInv, [ChatNext]_chatVars PROVE IInv'
<1>0. /\ Page \in Sessions /\ Conn \in Callers
      /\ toServer \in Seq(Requests)
      /\ IInv
  BY PageAssumption DEF TypeInv, ChatTypeOK, Requests
<1>1. ASSUME [SMNext]_smVars PROVE IInv'
  BY <1>0, <1>1, IInvStep
<1>2. CASE BackendHandles
  <2>1. Head(toServer) \in Requests
    BY <1>0, <1>2, HeadTailProperties DEF BackendHandles
  <2>2. Handle(Conn, Page)
    BY <1>2, <2>1, RequestIsHandle DEF BackendHandles
  <2>3. SMNext
    BY <1>0, <2>2 DEF SMNext
  <2>4. QED
    BY <1>1, <2>3
<1>3. CASE ConnectionLost
  <2>1. MarkDisconnected(Page) \/ UNCHANGED smVars
    BY <1>3 DEF ConnectionLost
  <2>2. [SMNext]_smVars
    BY <1>0, <2>1 DEF SMNext
  <2>3. QED
    BY <1>1, <2>2
<1>4. CASE BackendRestarts
  <2>1. SMInit'
    BY <1>4 DEF BackendRestarts, SMInit
  <2>2. SMInit' => IInv'
    BY IInvInit, PTL
  <2>3. QED
    BY <2>1, <2>2
<1>5. CASE UNCHANGED smVars
  BY <1>1, <1>5
<1>6. QED
  BY <1>2, <1>3, <1>4, <1>5
     DEF ChatNext, SendText, SpeechEnds, Ask, StartVoice, StopVoice, WorkletError,
         Retry, SafeEnd, Receive, AttemptFails, Opens, StrayEvent, chatVars

\* What the user does to the log is well typed.
LEMMA AskedMessages ==
    ASSUME CountOK, count.question < MaxQuestions
    PROVE  /\ count.question + 1 \in Questions
           /\ VoicePlaceholder(count.question + 1) \in Message
           /\ User(count.question + 1) \in Message
           /\ PendingAssistant(count.question + 1) \in Message
<1>1. count.question + 1 \in Questions
  BY ChatBounds DEF CountOK, Questions
<1>2. QED
  BY <1>1, NewMessages

\* An event leaves a well-typed log and status.
LEMMA EventTypesOK ==
    ASSUME ChatTypeOK, NEW e \in AnyEvent, OnEvent(e)
    PROVE  messages' \in Seq(Message) /\ uiState' \in UIStates /\ VoiceOK'
<1>a. errorState' \in BOOLEAN
  BY DEF OnEvent
<1>b. VoiceOK'
  BY <1>a DEF ChatTypeOK, OnEvent, voiceVars, VoiceOK
<1>0. /\ messages \in Seq(Message) /\ uiState \in UIStates
      /\ uiState' \in {uiState, "speaking", "idle", "thinking", "listening"}
  BY DEF ChatTypeOK, OnEvent
<1>1. AfterSpeaking(messages, e) \in Seq(Message)
  BY <1>0, SpeakingEffect DEF Speaks, Puts
<1>2. AfterAudio(messages, e) \in Seq(Message)
  BY <1>0, AudioEffect DEF Offers, OffersMine, OffersOther, Puts
<1>3. AfterText(messages, e) \in Seq(Message)
  BY <1>0, TextEffect DEF Tells, Puts
<1>4. AfterTranscript(messages, e) \in Seq(Message)
  BY <1>0, TranscriptEffect DEF Hears, Puts
<1>5. messages' \in {AfterSpeaking(messages, e), AfterAudio(messages, e),
                     AfterText(messages, e), AfterTranscript(messages, e), messages}
  BY DEF OnEvent
<1>6. QED
  BY <1>b, <1>0, <1>1, <1>2, <1>3, <1>4, <1>5 DEF UIStates

\* So are the events that a handled request writes.
LEMMA WrittenEvents ==
    ASSUME NEW r \in Seq(ServerEvent), NEW n \in Questions
    PROVE  [i \in DOMAIN r |-> On(r[i].type, r[i].gen, n, FALSE)] \in Seq(WireEvents)
<1> DEFINE w == [i \in DOMAIN r |-> On(r[i].type, r[i].gen, n, FALSE)]
<1>1. Len(r) \in Nat /\ DOMAIN r = 1..Len(r) /\ \A i \in 1..Len(r) : r[i] \in ServerEvent
  BY LenProperties
<1>2. \A i \in 1..Len(r) : On(r[i].type, r[i].gen, n, FALSE) \in WireEvents
  BY <1>1 DEF On, ServerEvent, WireEvents
<1>3. w \in [1..Len(r) -> WireEvents]
  BY <1>1, <1>2
<1> HIDE DEF w
<1>4. w \in Seq(WireEvents)
  BY <1>1, <1>3, SeqDef
<1>5. QED
  BY <1>4 DEF w

\* A counter that counted is still one.
LEMMA CountedOK ==
    ASSUME CountOK,
           \/ Counted("question", MaxQuestions)
           \/ Toggled
           \/ \E what \in {"loss", "restart", "stray"} : Fault(what)
    PROVE  CountOK'
<1>1. CASE Counted("question", MaxQuestions)
  <2>1. count.question + 1 \in Questions
    BY <1>1, ChatBounds DEF CountOK, Questions, Counted
  <2>2. QED
    BY <1>1, <2>1 DEF Counted, CountOK
<1>2. ASSUME NEW what \in {"toggle", "loss", "restart", "stray"},
             \/ Toggled /\ what = "toggle"
             \/ Fault(what)
      PROVE  CountOK'
  <2>1. count' = [count EXCEPT ![what] = count[what] + 1] /\ count[what] + 1 \in Nat
    BY <1>2 DEF Toggled, Fault, CountOK
  <2>2. what = "toggle" \/ what = "loss" \/ what = "restart" \/ what = "stray"
    OBVIOUS
  <2>3. QED
    BY <2>1, <2>2 DEF CountOK
<1>3. QED
  BY <1>1, <1>2

\* No step disturbs the types.
LEMMA TypeStep == TypeInv /\ [ChatNext]_chatVars => TypeInv'
<1> SUFFICES ASSUME TypeInv, [ChatNext]_chatVars PROVE TypeInv'
  OBVIOUS
<1>0. /\ messages \in Seq(Message) /\ uiState \in UIStates
      /\ VoiceOK /\ online \in BOOLEAN
      /\ toServer \in Seq(Requests) /\ toClient \in Seq(WireEvents)
      /\ CountOK /\ ChatTypeOK
  BY DEF TypeInv, ChatTypeOK, VoiceOK, Requests, WireEvents
<1>1. IInv'
  BY SessionsStep
<1>2. SMTypeOK'
  BY <1>1 DEF IInv
<1>3. SUFFICES /\ CountOK'
               /\ messages' \in Seq(Message) /\ uiState' \in UIStates
               /\ VoiceOK' /\ online' \in BOOLEAN
               /\ toServer' \in Seq(Requests) /\ toClient' \in Seq(WireEvents)
  BY <1>1, <1>2 DEF TypeInv, ChatTypeOK, VoiceOK, Requests, WireEvents
<1>4. /\ 0 \in Questions
      /\ <<>> \in Seq(Requests) /\ <<>> \in Seq(WireEvents)
  BY ChatBounds DEF Questions
<1>5. \A type \in {"START_SESSION", "STOP_SESSION", "USER_SPEECH_END", "TEXT_INPUT"},
         n \in Questions : Request(type, n) \in Requests
  BY DEF Request, Requests
<1>6. CASE SendText
  <2>1. count.question < MaxQuestions /\ CountOK'
    BY <1>0, <1>6, CountedOK DEF SendText, Ask, Counted
  <2> DEFINE n == count.question + 1
             added == <<User(n), PendingAssistant(n)>>
  <2>2. n \in Questions /\ added \in Seq(Message)
    BY <1>0, <2>1, AskedMessages
  <2>3. messages' = messages \o added
    BY <1>6 DEF SendText, Ask
  <2>4. toServer' = Append(toServer, Request("TEXT_INPUT", n))
    BY <1>6 DEF SendText, Ask
  <2> HIDE DEF n, added
  <2>5. messages' \in Seq(Message)
    BY <1>0, <2>2, <2>3, ConcatProperties
  <2>6. toServer' \in Seq(Requests)
    BY <1>0, <1>5, <2>2, <2>4, AppendProperties
  <2>7. VoiceOK'
    BY <1>0, <1>6 DEF SendText, Ask, VoiceOK
  <2>8. QED
    BY <1>0, <1>6, <2>1, <2>5, <2>6, <2>7 DEF SendText, Ask
<1>7. CASE SpeechEnds
  <2>1. count.question < MaxQuestions /\ CountOK'
    BY <1>0, <1>7, CountedOK DEF SpeechEnds, Ask, Counted
  <2> DEFINE n == count.question + 1
             added == <<VoicePlaceholder(n)>>
  <2>2. n \in Questions /\ added \in Seq(Message)
    BY <1>0, <2>1, AskedMessages
  <2>3. messages' = messages \o added
    BY <1>7 DEF SpeechEnds, Ask
  <2>4. toServer' = Append(toServer, Request("USER_SPEECH_END", n))
    BY <1>7 DEF SpeechEnds, Ask
  <2> HIDE DEF n, added
  <2>5. messages' \in Seq(Message)
    BY <1>0, <2>2, <2>3, ConcatProperties
  <2>6. toServer' \in Seq(Requests)
    BY <1>0, <1>5, <2>2, <2>4, AppendProperties
  <2>7. capture' \in CaptureStates /\ outside' \in {outside, outside \union {n}}
    BY <1>7 DEF SpeechEnds, CaptureStates, n
  <2>8. VoiceOK'
    BY <1>0, <1>7, <2>2, <2>7 DEF SpeechEnds, Ask, VoiceOK
  <2>9. QED
    BY <1>0, <1>7, <2>1, <2>5, <2>6, <2>8 DEF SpeechEnds, Ask
<1>8. CASE StartVoice \/ StopVoice \/ Retry \/ SafeEnd
  <2>1. CountOK'
    BY <1>0, <1>8, CountedOK DEF StartVoice, StopVoice, Retry, SafeEnd
  <2>2. \/ toServer' = Append(toServer, Request("START_SESSION", 0))
        \/ toServer' = Append(toServer, Request("STOP_SESSION", 0))
        \/ toServer' = toServer
    BY <1>8 DEF StartVoice, StopVoice, Retry, SafeEnd, StartsSession, StopsSession
  <2>3. toServer' \in Seq(Requests)
    <3>1. /\ Request("START_SESSION", 0) \in Requests
          /\ Request("STOP_SESSION", 0) \in Requests
      BY <1>4, <1>5
    <3>2. \A q \in Requests : Append(toServer, q) \in Seq(Requests)
      BY <1>0, AppendProperties
    <3>3. QED
      BY <1>0, <2>2, <3>1, <3>2
  <2>4. uiState' \in UIStates
    BY <1>0, <1>8 DEF StartVoice, StopVoice, Retry, SafeEnd, UIStates
  <2>5. Silenced \in CaptureStates
    BY <1>0 DEF VoiceOK, CaptureStates, Silenced
  <2>6. VoiceOK'
    <3>1. voiceActive' \in {voiceActive, TRUE, FALSE}
      BY <1>8 DEF StartVoice, StopVoice, Retry, SafeEnd
    <3>2. errorState' \in {errorState, FALSE}
      BY <1>8 DEF StartVoice, StopVoice, Retry, SafeEnd
    <3>3. sessionActive' \in {sessionActive, TRUE, FALSE}
      BY <1>8 DEF StartVoice, StopVoice, Retry, SafeEnd, StartsSession, StopsSession
    <3>4. capture' \in {capture, "live", Silenced} /\ outside' = outside
      BY <1>8 DEF StartVoice, StopVoice, Retry, SafeEnd
    <3>5. QED
      BY <1>0, <2>5, <3>1, <3>2, <3>3, <3>4 DEF VoiceOK, CaptureStates
  <2>7. messages' = messages /\ online' = online /\ toClient' = toClient
    BY <1>8 DEF StartVoice, StopVoice, Retry, SafeEnd
  <2>8. QED
    BY <1>0, <2>1, <2>3, <2>4, <2>6, <2>7
<1>17. CASE WorkletError
  BY <1>0, <1>17 DEF WorkletError, VoiceOK, UIStates, CountOK, wires
<1>18. CASE AttemptFails
  BY <1>0, <1>18 DEF AttemptFails, VoiceOK, voiceVars, UIStates, CountOK, wires
<1>9. CASE BackendHandles
  <2> DEFINE q == Head(toServer)
             r == result'[Conn]
             written == [i \in DOMAIN r |-> On(r[i].type, r[i].gen, q.question, FALSE)]
  <2>0. q \in Requests /\ toServer' \in Seq(Requests)
    BY <1>0, <1>9, HeadTailProperties DEF BackendHandles
  <2>1. q \in Requests /\ toServer' \in Seq(Requests) /\ q.question \in Questions
    BY <2>0 DEF Requests
  <2>2. r \in Seq(ServerEvent)
    BY <1>2, PageAssumption DEF SMTypeOK
  <2>3. toClient' = toClient \o written
    BY <1>9 DEF BackendHandles
  <2>4. written \in Seq(WireEvents)
    BY <2>1, <2>2, WrittenEvents
  <2> HIDE DEF written
  <2>5. toClient' \in Seq(WireEvents)
    BY <1>0, <2>3, <2>4, ConcatProperties
  <2>6. CountOK'
    BY <1>0, <1>9 DEF BackendHandles, CountOK
  <2>7. VoiceOK'
    BY <1>0, <1>9 DEF BackendHandles, pageVars, voiceVars, VoiceOK
  <2>8. QED
    BY <1>0, <1>9, <2>1, <2>5, <2>6, <2>7 DEF BackendHandles, pageVars
<1>10. CASE Receive
  <2>1. Head(toClient) \in WireEvents /\ toClient' \in Seq(WireEvents)
    BY <1>0, <1>10, HeadTailProperties DEF Receive
  <2>2. Head(toClient) \in AnyEvent
    BY <2>1 DEF WireEvents, AnyEvent
  <2>3. CountOK'
    BY <1>0, <1>10 DEF Receive, CountOK
  <2>4. QED
    BY <1>0, <1>10, <2>1, <2>2, <2>3, EventTypesOK DEF Receive
<1>11. CASE ConnectionLost \/ BackendRestarts
  <2>1. CountOK'
    BY <1>0, <1>11, CountedOK DEF ConnectionLost, BackendRestarts
  <2>2. LoseWire
    BY <1>11 DEF ConnectionLost, BackendRestarts
  <2>3. VoiceOK'
    BY <1>0, <2>2 DEF LoseWire, voiceVars, VoiceOK
  <2>4. QED
    BY <1>0, <1>4, <2>1, <2>2, <2>3 DEF LoseWire
<1>13. CASE Opens
  <2>1. <<Request("START_SESSION", 0)>> \in Seq(Requests)
    BY <1>4, <1>5
  <2>2. toServer' \in {toServer, <<Request("START_SESSION", 0)>> \o toServer}
    BY <1>13 DEF Opens
  <2>3. toServer' \in Seq(Requests)
    BY <1>0, <2>1, <2>2, ConcatProperties
  <2>4. VoiceOK'
    BY <1>0, <1>13 DEF Opens, pageVars, voiceVars, VoiceOK
  <2>5. QED
    BY <1>0, <1>13, <2>3, <2>4 DEF Opens, pageVars, CountOK
<1>14. CASE StrayEvent
  <2>1. CountOK'
    BY <1>0, <1>14, CountedOK DEF StrayEvent
  <2>2. count.question \in Questions
    BY <1>0 DEF CountOK
  <2>3. PICK type \in {"ASSISTANT_SPEAKING", "AUDIO_READY", "ASSISTANT_TEXT",
                       "PARTIAL_TRANSCRIPT", "FINAL_TRANSCRIPT", "ASSISTANT_STOPPED",
                       "ERROR"}, g \in Generations, stale \in BOOLEAN :
               OnEvent(On(type, g, count.question, stale))
    BY <1>14 DEF StrayEvent
  <2>4. On(type, g, count.question, stale) \in AnyEvent
    BY <2>2 DEF On, AnyEvent, EventTypes
  <2>5. QED
    BY <1>0, <1>14, <2>1, <2>3, <2>4, EventTypesOK DEF StrayEvent, wires
<1>15. CASE UNCHANGED chatVars
  BY <1>0, <1>15 DEF chatVars, pageVars, voiceVars, wires, VoiceOK, CountOK
<1>16. QED
  BY <1>6, <1>7, <1>8, <1>17, <1>18, <1>9, <1>10, <1>11, <1>13, <1>14, <1>15 DEF ChatNext

LEMMA TypeInit == ChatInit => TypeInv
<1> SUFFICES ASSUME ChatInit PROVE TypeInv
  OBVIOUS
<1>1. IInv /\ SMTypeOK
  BY IInvInit DEF ChatInit, IInv
<1>2. /\ messages \in Seq(Message) /\ toServer \in Seq(Requests)
      /\ toClient \in Seq(WireEvents)
  BY DEF ChatInit
<1>3. CountOK
  BY ChatBounds DEF ChatInit, CountOK, Questions
<1>4. QED
  BY <1>1, <1>2, <1>3
     DEF ChatInit, TypeInv, ChatTypeOK, UIStates, CaptureStates, Requests, WireEvents

-----------------------------------------------------------------------------
(* What a message shows *)

\* A stale message offers no audio, and no message that waits is stale or
\* offers any: only because of that can the audio of another reply, which goes
\* to a message that waits, never reach a stale one.  Generations are named by
\* the assistant's messages only.
MessageOK(m) ==
    /\ m.stale => m.audio = 0
    /\ m.phase = "pending" => m.speaker = "assistant" /\ ~m.stale /\ m.audio = 0
    /\ m.gen # NoGen => m.speaker = "assistant"

LogOK(log) == \A i \in DOMAIN log : MessageOK(log[i])

\* What the log and the events on the wire have to do with each other while one
\* backend lives, with next the generation it would issue next: generations
\* come in increasing order, no message names one that is announced later, and
\* none offers audio of one whose audio is still on the wire.
Named(log, wire, next) ==
    /\ \A j \in DOMAIN wire :
           /\ wire[j].gen < next
           /\ wire[j].type \in {"ASSISTANT_SPEAKING", "AUDIO_READY"} => wire[j].gen # NoGen
    /\ \A i, j \in DOMAIN wire :
           i < j /\ wire[j].type = "ASSISTANT_SPEAKING" => wire[i].gen < wire[j].gen
    /\ \A i, j \in DOMAIN wire :
           i < j /\ wire[i].type = "AUDIO_READY" /\ wire[j].type = "AUDIO_READY"
               => wire[i].gen < wire[j].gen
    /\ \A i \in DOMAIN log : log[i].gen < next
    /\ \A i \in DOMAIN log, j \in DOMAIN wire :
           \/ wire[j].type = "ASSISTANT_SPEAKING"
           \/ wire[j].type = "AUDIO_READY" /\ log[i].audio # 0
           => log[i].gen < wire[j].gen
    /\ \A i, j \in DOMAIN log : log[i].gen # NoGen /\ log[i].gen = log[j].gen => i = j

Steady == count.restart = 0 /\ count.stray = 0

ChatInv ==
    /\ TypeInv
    /\ LogOK(messages)
    /\ Steady => Named(messages, toClient, session[Page].nextGen)

\* One message written, the log stays in order if that message is.
LEMMA PutsOK ==
    ASSUME NEW log, LogOK(log), NEW new, NEW k, NEW m, Puts(log, new, k, m), MessageOK(m)
    PROVE  LogOK(new)
BY DEF LogOK, Puts

\* No event disturbs what a message shows.
LEMMA EventLogOK ==
    ASSUME ChatTypeOK, LogOK(messages), NEW e \in AnyEvent, OnEvent(e)
    PROVE  LogOK(messages')
<1> DEFINE log == messages
<1>0. log \in Seq(Message) /\ LogOK(log)
  BY DEF ChatTypeOK
<1>1. LogOK(AfterSpeaking(log, e))
  <2> DEFINE new == AfterSpeaking(log, e)
  <2>1. MessageOK([PendingAssistant(0) EXCEPT !.gen = e.gen])
    BY DEF MessageOK, PendingAssistant, User
  <2>2. ASSUME NEW k \in DOMAIN log, log[k].phase = "pending"
        PROVE  MessageOK([log[k] EXCEPT !.gen = e.gen])
    <3>1. log[k] \in Message /\ MessageOK(log[k])
      BY <1>0, LenProperties DEF LogOK
    <3>2. QED
      BY <2>2, <3>1 DEF MessageOK, Message
  <2>3. Speaks(log, new, e)
    BY <1>0, SpeakingEffect
  <2> HIDE DEF new, log
  <2>4. QED
    BY <1>0, <2>1, <2>2, <2>3, PutsOK DEF Speaks, new
<1>2. LogOK(AfterAudio(log, e))
  <2> DEFINE new == AfterAudio(log, e)
  <2>1. MessageOK([Offered(PendingAssistant(0), e) EXCEPT !.gen = e.gen])
    BY DEF MessageOK, Offered, PendingAssistant, User
  <2>2. ASSUME NEW k \in DOMAIN log, log[k].phase = "pending", NEW g
        PROVE  MessageOK([Offered(log[k], e) EXCEPT !.gen = g])
    <3>1. log[k] \in Message /\ MessageOK(log[k])
      BY <1>0, LenProperties DEF LogOK
    <3>2. QED
      BY <2>2, <3>1 DEF MessageOK, Message, Offered
  <2>3. ASSUME NEW k \in DOMAIN log, ~log[k].stale
        PROVE  MessageOK(Offered(log[k], e))
    <3>1. log[k] \in Message /\ MessageOK(log[k])
      BY <1>0, LenProperties DEF LogOK
    <3>2. QED
      BY <2>3, <3>1 DEF MessageOK, Message, Offered
  <2>4. Offers(log, new, e)
    BY <1>0, AudioEffect
  <2> HIDE DEF new, log
  <2>5. CASE OffersMine(log, new, e)
    BY <1>0, <2>3, <2>5 DEF OffersMine, LogOK, new
  <2>6. CASE OffersOther(log, new, e)
    BY <1>0, <2>1, <2>2, <2>6, PutsOK DEF OffersOther, new
  <2>7. QED
    BY <1>0, <2>4, <2>5, <2>6 DEF Offers, new
<1>3. LogOK(AfterText(log, e))
  <2> DEFINE new == AfterText(log, e)
  <2>1. MessageOK(Told(PendingAssistant(0), e))
    BY DEF MessageOK, Told, PendingAssistant, User
  <2>2. ASSUME NEW k \in DOMAIN log, OfGeneration(log[k], e.gen) \/ log[k].phase = "pending"
        PROVE  MessageOK(Told(log[k], e))
    <3>1. log[k] \in Message /\ MessageOK(log[k])
      BY <1>0, LenProperties DEF LogOK
    <3>2. QED
      BY <2>2, <3>1 DEF MessageOK, Message, Told, OfGeneration
  <2>3. Tells(log, new, e)
    BY <1>0, TextEffect
  <2> HIDE DEF new, log
  <2>4. QED
    BY <1>0, <2>1, <2>2, <2>3, PutsOK DEF Tells, new
<1>4. LogOK(AfterTranscript(log, e))
  <2> DEFINE new == AfterTranscript(log, e)
  <2>1. MessageOK([User(0) EXCEPT !.text = e.answers])
    BY DEF MessageOK, User
  <2>2. ASSUME NEW k \in DOMAIN log
        PROVE  MessageOK([log[k] EXCEPT !.text = e.answers, !.placeholder = FALSE])
    <3>1. log[k] \in Message /\ MessageOK(log[k])
      BY <1>0, LenProperties DEF LogOK
    <3>2. QED
      BY <3>1 DEF MessageOK, Message
  <2>3. Hears(log, new, e)
    BY <1>0, TranscriptEffect
  <2>4. ASSUME NEW k \in DOMAIN log,
               Puts(log, new, k, [log[k] EXCEPT !.text = e.answers, !.placeholder = FALSE])
        PROVE  LogOK(new)
    <3> HIDE DEF new, log
    <3>1. QED
      BY <1>0, <2>2, <2>4, PutsOK
  <2> HIDE DEF new, log
  <2>5. QED
    BY <1>0, <2>1, <2>3, <2>4, PutsOK DEF Hears, new
<1>5. messages' \in {AfterSpeaking(log, e), AfterAudio(log, e), AfterText(log, e),
                     AfterTranscript(log, e), log}
  BY DEF OnEvent
<1>6. QED
  BY <1>0, <1>1, <1>2, <1>3, <1>4, <1>5

-----------------------------------------------------------------------------
(* Generations *)

\* An event received is the first of the wire, and the others stay in order.
LEMMA TailOfWire ==
    ASSUME NEW wire \in Seq(WireEvents), wire # <<>>
    PROVE  /\ Tail(wire) \in Seq(WireEvents)
           /\ 1 \in DOMAIN wire /\ Head(wire) = wire[1] /\ Head(wire) \in WireEvents
           /\ DOMAIN Tail(wire) \subseteq Nat
           /\ \A i \in DOMAIN Tail(wire) :
                  i + 1 \in DOMAIN wire /\ 1 < i + 1 /\ Tail(wire)[i] = wire[i + 1]
<1>1. /\ Len(wire) \in Nat \ {0} /\ DOMAIN wire = 1..Len(wire)
      /\ Len(Tail(wire)) = Len(wire) - 1 /\ DOMAIN Tail(wire) = 1..Len(Tail(wire))
      /\ \A i \in 1..Len(Tail(wire)) : Tail(wire)[i] = wire[i + 1]
      /\ Tail(wire) \in Seq(WireEvents)
      /\ Head(wire) = wire[1] /\ Head(wire) \in WireEvents
  BY EmptySeq, LenProperties, HeadTailProperties
<1>2. QED
  BY <1>1

LEMMA NamedTail ==
    ASSUME NEW log, NEW next, NEW wire \in Seq(WireEvents), wire # <<>>,
           Named(log, wire, next)
    PROVE  Named(log, Tail(wire), next)
<1> DEFINE t == Tail(wire)
<1>1. /\ DOMAIN t \subseteq Nat
      /\ \A i \in DOMAIN t : i + 1 \in DOMAIN wire /\ t[i] = wire[i + 1]
  BY TailOfWire
<1>2. \A i, j \in DOMAIN t : i < j => i + 1 < j + 1
  BY <1>1
<1> HIDE DEF t
<1>3. Named(log, t, next)
  BY <1>1, <1>2 DEF Named
<1>4. QED
  BY <1>3 DEF t

\* A message that takes the generation of the event received, whose audio was
\* not received before, keeps generations apart.
LEMMA NamedPuts ==
    ASSUME NEW log \in Seq(Message), NEW wire \in Seq(WireEvents), wire # <<>>,
           NEW next \in Nat, Named(log, wire, next),
           NEW e, e = Head(wire), e.type \in {"ASSISTANT_SPEAKING", "AUDIO_READY"},
           \A i \in DOMAIN log : log[i].gen # e.gen,
           NEW new, NEW k, NEW m, Puts(log, new, k, m), m.gen = e.gen,
           m.audio # 0 => e.type = "AUDIO_READY"
    PROVE  Named(new, Tail(wire), next)
<1> DEFINE t == Tail(wire)
<1>1. Named(log, t, next)
  BY NamedTail
<1>2. /\ DOMAIN t \subseteq Nat
      /\ e = wire[1] /\ 1 \in DOMAIN wire
      /\ \A i \in DOMAIN t : i + 1 \in DOMAIN wire /\ 1 < i + 1 /\ t[i] = wire[i + 1]
  BY TailOfWire
<1>3. e.gen < next /\ e.gen # NoGen
  BY <1>2 DEF Named
<1>4. \A j \in DOMAIN t :
          \/ t[j].type = "ASSISTANT_SPEAKING"
          \/ t[j].type = "AUDIO_READY" /\ m.audio # 0
          => e.gen < t[j].gen
  BY <1>2 DEF Named
<1>5. /\ k \in DOMAIN new /\ new[k] = m
      /\ \A i \in DOMAIN new : i # k => i \in DOMAIN log /\ new[i] = log[i]
  BY DEF Puts
<1> HIDE DEF t
<1>6. \A i \in DOMAIN new : new[i].gen < next
  BY <1>1, <1>3, <1>5 DEF Named
<1>7. \A i \in DOMAIN new, j \in DOMAIN t :
          \/ t[j].type = "ASSISTANT_SPEAKING"
          \/ t[j].type = "AUDIO_READY" /\ new[i].audio # 0
          => new[i].gen < t[j].gen
  BY <1>1, <1>4, <1>5 DEF Named
<1>8. \A i, j \in DOMAIN new : new[i].gen # NoGen /\ new[i].gen = new[j].gen => i = j
  BY <1>1, <1>5 DEF Named
<1>9. Named(new, t, next)
  BY <1>1, <1>6, <1>7, <1>8 DEF Named
<1>10. QED
  BY <1>9 DEF t

LEMMA NamedSpeaks ==
    ASSUME NEW log \in Seq(Message), NEW wire \in Seq(WireEvents), wire # <<>>,
           NEW next \in Nat, LogOK(log), Named(log, wire, next),
           NEW e, e = Head(wire), e.type = "ASSISTANT_SPEAKING",
           NEW new, Speaks(log, new, e)
    PROVE  Named(new, Tail(wire), next)
<1>0. e = wire[1] /\ 1 \in DOMAIN wire
  BY TailOfWire
<1>1. /\ \A i \in DOMAIN log : log[i] \in Message
      /\ e \in WireEvents
  BY <1>0, TailOfWire, LenProperties
<1>2. \A i \in DOMAIN log : log[i].gen # e.gen
  <2> SUFFICES ASSUME NEW i \in DOMAIN log PROVE log[i].gen # e.gen
    OBVIOUS
  <2>1. log[i].gen \in Int /\ e.gen \in Int
    BY <1>1 DEF Message, WireEvents, Generations
  <2>2. log[i].gen < e.gen
    BY <1>0 DEF Named
  <2>3. QED
    BY <2>1, <2>2
<1>3. CASE Puts(log, new, Len(log) + 1, [PendingAssistant(0) EXCEPT !.gen = e.gen])
  <2> DEFINE m == [PendingAssistant(0) EXCEPT !.gen = e.gen]
  <2>1. m.gen = e.gen /\ m.audio = 0
    BY DEF PendingAssistant, User
  <2> HIDE DEF m
  <2>2. Puts(log, new, Len(log) + 1, m)
    BY <1>3 DEF m
  <2>3. QED
    BY <1>2, <2>1, <2>2, NamedPuts
<1>4. ASSUME NEW k \in DOMAIN log, log[k].phase = "pending",
             Puts(log, new, k, [log[k] EXCEPT !.gen = e.gen])
      PROVE  Named(new, Tail(wire), next)
  <2> DEFINE m == [log[k] EXCEPT !.gen = e.gen]
  <2>1. m.gen = e.gen /\ m.audio = 0
    BY <1>4, LenProperties DEF Message, LogOK, MessageOK
  <2> HIDE DEF m
  <2>2. Puts(log, new, k, m)
    BY <1>4 DEF m
  <2>3. QED
    BY <1>2, <2>1, <2>2, NamedPuts
<1>5. QED
  BY <1>3, <1>4 DEF Speaks

LEMMA NamedOffers ==
    ASSUME NEW log \in Seq(Message), NEW wire \in Seq(WireEvents), wire # <<>>,
           NEW next \in Nat, LogOK(log), Named(log, wire, next),
           NEW e, e = Head(wire), e.type = "AUDIO_READY",
           NEW new, Offers(log, new, e)
    PROVE  Named(new, Tail(wire), next)
<1> DEFINE t == Tail(wire)
<1>0. /\ e = wire[1] /\ 1 \in DOMAIN wire /\ DOMAIN t \subseteq Nat
      /\ \A i \in DOMAIN t : i + 1 \in DOMAIN wire /\ 1 < i + 1 /\ t[i] = wire[i + 1]
  BY TailOfWire
<1>1. /\ Named(log, t, next)
      /\ e.gen # NoGen
      /\ \A i \in DOMAIN log : log[i] \in Message /\ MessageOK(log[i])
  BY <1>0, NamedTail, LenProperties DEF Named, LogOK
<1>2. CASE new = log
  BY <1>1, <1>2
<1>3. CASE OffersMine(log, new, e)
  <2>1. \A i \in DOMAIN log :
            new[i].gen = log[i].gen /\ (log[i].gen = e.gen \/ new[i].audio = log[i].audio)
    <3> SUFFICES ASSUME NEW i \in DOMAIN log
                 PROVE  /\ new[i].gen = log[i].gen
                        /\ log[i].gen = e.gen \/ new[i].audio = log[i].audio
      OBVIOUS
    <3>1. log[i] \in Message
      BY <1>1
    <3>2. Offered(log[i], e).gen = log[i].gen
      BY <3>1 DEF Offered, Message
    <3>3. QED
      BY <1>3, <3>2 DEF OffersMine, OfGeneration
  <2>2. \A j \in DOMAIN t : t[j].type \in {"ASSISTANT_SPEAKING", "AUDIO_READY"}
                                => e.gen < t[j].gen
    BY <1>0 DEF Named
  <2>3. DOMAIN new = DOMAIN log
    BY <1>3 DEF OffersMine
  <2> HIDE DEF t
  <2>4. \A i \in DOMAIN new, j \in DOMAIN t :
            \/ t[j].type = "ASSISTANT_SPEAKING"
            \/ t[j].type = "AUDIO_READY" /\ new[i].audio # 0
            => new[i].gen < t[j].gen
    BY <1>1, <2>1, <2>2, <2>3 DEF Named
  <2>5. Named(new, t, next)
    BY <1>1, <2>1, <2>3, <2>4 DEF Named
  <2>6. QED
    BY <2>5 DEF t
<1>4. CASE OffersOther(log, new, e)
  <2>1. \A i \in DOMAIN log : log[i].gen # e.gen
    BY <1>1, <1>4 DEF OffersOther, OfGeneration, MessageOK
  <2>2. ASSUME NEW k, NEW m, Puts(log, new, k, m), m.gen = e.gen
        PROVE  Named(new, Tail(wire), next)
    BY <2>1, <2>2, NamedPuts
  <2>3. [Offered(PendingAssistant(0), e) EXCEPT !.gen = e.gen].gen = e.gen
    BY DEF Offered, PendingAssistant, User
  <2>4. \A k \in DOMAIN log : \A g : [Offered(log[k], e) EXCEPT !.gen = g].gen = g
    <3> SUFFICES ASSUME NEW k \in DOMAIN log, NEW g
                 PROVE  [Offered(log[k], e) EXCEPT !.gen = g].gen = g
      OBVIOUS
    <3>1. log[k] \in Message
      BY <1>1
    <3>2. QED
      BY <3>1 DEF Offered, Message
  <2>5. CASE Puts(log, new, Len(log) + 1, [Offered(PendingAssistant(0), e) EXCEPT !.gen = e.gen])
    BY <2>2, <2>3, <2>5
  <2>6. ASSUME NEW k \in DOMAIN log, NEW g \in {e.gen, log[k].gen}, e.gen # NoGen => g = e.gen,
               Puts(log, new, k, [Offered(log[k], e) EXCEPT !.gen = g])
        PROVE  Named(new, Tail(wire), next)
    BY <1>1, <2>2, <2>4, <2>6
  <2>7. QED
    BY <1>4, <2>5, <2>6 DEF OffersOther
<1>5. QED
  BY <1>2, <1>3, <1>4 DEF Offers

\* A question asked adds messages that name nothing and offer nothing.
LEMMA NamedAsked ==
    ASSUME NEW log \in Seq(Message), NEW added \in Seq(Message),
           NEW wire \in Seq(WireEvents), NEW next \in Nat \ {0}, Named(log, wire, next),
           \A i \in DOMAIN added : added[i].gen = NoGen /\ added[i].audio = 0
    PROVE  Named(log \o added, wire, next)
<1> DEFINE new == log \o added
<1>1. \A i \in DOMAIN new :
          \/ i \in DOMAIN log /\ new[i] = log[i]
          \/ new[i].gen = NoGen /\ new[i].audio = 0
  <2>1. /\ Len(log) \in Nat /\ DOMAIN log = 1..Len(log)
        /\ Len(added) \in Nat /\ DOMAIN added = 1..Len(added)
        /\ Len(new) = Len(log) + Len(added) /\ DOMAIN new = 1..Len(new)
        /\ \A i \in 1..Len(new) :
               new[i] = IF i <= Len(log) THEN log[i] ELSE added[i - Len(log)]
    BY LenProperties, ConcatProperties
  <2> HIDE DEF new
  <2> SUFFICES ASSUME NEW i \in DOMAIN new
               PROVE  \/ i \in DOMAIN log /\ new[i] = log[i]
                      \/ new[i].gen = NoGen /\ new[i].audio = 0
    OBVIOUS
  <2>2. CASE i <= Len(log)
    BY <2>1, <2>2
  <2>3. CASE ~(i <= Len(log))
    <3>1. i - Len(log) \in DOMAIN added /\ new[i] = added[i - Len(log)]
      BY <2>1, <2>3
    <3>2. QED
      BY <3>1
  <2>4. QED
    BY <2>2, <2>3
<1>2. \A j \in DOMAIN wire : wire[j] \in WireEvents
  BY LenProperties
<1>3. \A j \in DOMAIN wire :
          wire[j].type \in {"ASSISTANT_SPEAKING", "AUDIO_READY"} => NoGen < wire[j].gen
  BY <1>2 DEF Named, NoGen, WireEvents, Generations
<1> HIDE DEF new
<1>4. \A i \in DOMAIN new : new[i].gen < next
  BY <1>1 DEF Named, NoGen
<1>5. \A i \in DOMAIN new, j \in DOMAIN wire :
          \/ wire[j].type = "ASSISTANT_SPEAKING"
          \/ wire[j].type = "AUDIO_READY" /\ new[i].audio # 0
          => new[i].gen < wire[j].gen
  BY <1>1, <1>3 DEF Named
<1>6. \A i, j \in DOMAIN new : new[i].gen # NoGen /\ new[i].gen = new[j].gen => i = j
  BY <1>1 DEF Named
<1>7. Named(new, wire, next)
  BY <1>4, <1>5, <1>6 DEF Named
<1>8. QED
  BY <1>7 DEF new

\* A request is answered with a whole reply of the next generation, or with
\* events of no generation.
Answers(q) ==
    \/ /\ q.type \in {"USER_SPEECH_END", "TEXT_INPUT"}
       /\ result'[Conn] = Reply(Page, session[Page].nextGen)
       /\ session'[Page].nextGen = session[Page].nextGen + 1
    \/ /\ result'[Conn] \in {<<>>, <<Event("ERROR", Page, NoGen)>>}
       /\ session'[Page].nextGen = session[Page].nextGen

LEMMA RequestAnswers ==
    ASSUME SMTypeOK, NEW q \in Requests, HandleRequest(q)
    PROVE  Answers(q)
<1>0. /\ Page \in Sessions /\ Conn \in Callers
      /\ session \in [Sessions -> Session] /\ DOMAIN result = Callers
      /\ session[Page] \in Session
  BY PageAssumption DEF SMTypeOK
<1>1. ASSUME NEW events, Return(Conn, events) PROVE result'[Conn] = events
  BY <1>0, <1>1 DEF Return
<1>2. ASSUME Refuse(Conn, Page) PROVE Answers(q)
  BY <1>1, <1>2 DEF Refuse, Answers
<1>3. ASSUME q.type \in {"USER_SPEECH_END", "TEXT_INPUT"}, NEW t, HandlePipeline(Conn, Page, t)
      PROVE  Answers(q)
  <2>1. session'[Page] = AfterTurn(session[Page], t)
    BY <1>0, <1>3 DEF HandlePipeline
  <2>2. AfterTurn(session[Page], t).nextGen = session[Page].nextGen + 1
    BY <1>0 DEF AfterTurn, Session
  <2>3. result'[Conn] = Reply(Page, session[Page].nextGen)
    BY <1>1, <1>3 DEF HandlePipeline
  <2>4. QED
    BY <1>3, <2>1, <2>2, <2>3 DEF Answers
<1>4. CASE StartSession(Conn, Page)
  <2>1. session'[Page].nextGen = session[Page].nextGen
    BY <1>0, <1>4 DEF StartSession, Session
  <2>2. result'[Conn] = <<>>
    BY <1>1, <1>4 DEF StartSession
  <2>3. QED
    BY <2>1, <2>2 DEF Answers
<1>5. CASE StopSession(Conn, Page)
  <2>1. CASE Page \in known
    <3>1. session'[Page].nextGen = session[Page].nextGen
      BY <1>0, <1>5, <2>1 DEF StopSession, Session
    <3>2. result'[Conn] = <<>>
      BY <1>1, <1>5, <2>1 DEF StopSession
    <3>3. QED
      BY <3>1, <3>2 DEF Answers
  <2>2. QED
    BY <1>2, <1>5, <2>1 DEF StopSession
<1>6. CASE q.type = "USER_SPEECH_END" /\ UserSpeechEnd(Conn, Page)
  BY <1>2, <1>3, <1>6 DEF UserSpeechEnd
<1>7. CASE q.type = "TEXT_INPUT" /\ \E text \in Texts : TextInput(Conn, Page, text)
  BY <1>2, <1>3, <1>7 DEF TextInput
<1>8. QED
  BY <1>4, <1>5, <1>6, <1>7 DEF HandleRequest

\* What it writes to the wire.
Written(q) ==
    [i \in DOMAIN result'[Conn] |->
        On(result'[Conn][i].type, result'[Conn][i].gen, q.question, FALSE)]

ReplyOnWire(g, n) ==
    << On("ASSISTANT_SPEAKING", g, n, FALSE), On("AUDIO_READY", g, n, FALSE),
       On("METRICS_UPDATE", g, n, FALSE), On("ASSISTANT_STOPPED", g, n, FALSE) >>

LEMMA WrittenIs ==
    ASSUME NEW q, Answers(q)
    PROVE  \/ /\ Written(q) = ReplyOnWire(session[Page].nextGen, q.question)
              /\ q.type \in {"USER_SPEECH_END", "TEXT_INPUT"}
              /\ session'[Page].nextGen = session[Page].nextGen + 1
           \/ /\ Written(q) \in {<<>>, <<On("ERROR", NoGen, q.question, FALSE)>>}
              /\ session'[Page].nextGen = session[Page].nextGen
<1>1. ASSUME NEW g, result'[Conn] = Reply(Page, g)
      PROVE  Written(q) = ReplyOnWire(g, q.question)
  <2> DEFINE r == Reply(Page, g)
             w == ReplyOnWire(g, q.question)
  <2>1. /\ DOMAIN r = 1..4
        /\ r[1].type = "ASSISTANT_SPEAKING" /\ r[1].gen = g
        /\ r[2].type = "AUDIO_READY" /\ r[2].gen = g
        /\ r[3].type = "METRICS_UPDATE" /\ r[3].gen = g
        /\ r[4].type = "ASSISTANT_STOPPED" /\ r[4].gen = g
    BY DEF Reply, Event
  <2>2. /\ w = [i \in 1..4 |-> w[i]]
        /\ w[1] = On("ASSISTANT_SPEAKING", g, q.question, FALSE)
        /\ w[2] = On("AUDIO_READY", g, q.question, FALSE)
        /\ w[3] = On("METRICS_UPDATE", g, q.question, FALSE)
        /\ w[4] = On("ASSISTANT_STOPPED", g, q.question, FALSE)
    BY DEF ReplyOnWire
  <2> HIDE DEF r, w
  <2>3. \A i \in 1..4 : On(r[i].type, r[i].gen, q.question, FALSE) = w[i]
    <3> SUFFICES ASSUME NEW i \in 1..4
                 PROVE  On(r[i].type, r[i].gen, q.question, FALSE) = w[i]
      OBVIOUS
    <3>1. i = 1 \/ i = 2 \/ i = 3 \/ i = 4
      OBVIOUS
    <3>2. CASE i = 1
      BY <2>1, <2>2, <3>2
    <3>3. CASE i = 2
      BY <2>1, <2>2, <3>3
    <3>4. CASE i = 3
      BY <2>1, <2>2, <3>4
    <3>5. CASE i = 4
      BY <2>1, <2>2, <3>5
    <3>6. QED
      BY <3>1, <3>2, <3>3, <3>4, <3>5
  <2>4. Written(q) = [i \in 1..4 |-> On(r[i].type, r[i].gen, q.question, FALSE)]
    BY <1>1, <2>1 DEF Written, r
  <2>5. Written(q) = w
    BY <2>2, <2>3, <2>4
  <2>6. QED
    BY <2>5 DEF w
<1>2. ASSUME result'[Conn] = <<>> PROVE Written(q) = <<>>
  BY <1>2 DEF Written
<1>3. ASSUME result'[Conn] = <<Event("ERROR", Page, NoGen)>>
      PROVE  Written(q) = <<On("ERROR", NoGen, q.question, FALSE)>>
  <2> DEFINE r == <<Event("ERROR", Page, NoGen)>>
  <2>1. DOMAIN r = 1..1 /\ r[1].type = "ERROR" /\ r[1].gen = NoGen
    BY DEF Event
  <2> HIDE DEF r
  <2>2. Written(q) = [i \in 1..1 |-> On(r[i].type, r[i].gen, q.question, FALSE)]
    BY <1>3, <2>1 DEF Written, r
  <2>3. Written(q) = [i \in 1..1 |-> On("ERROR", NoGen, q.question, FALSE)]
    <3>1. \A i \in 1..1 : r[i].type = "ERROR" /\ r[i].gen = NoGen
      <4>1. \A i \in 1..1 : i = 1
        OBVIOUS
      <4>2. QED
        BY <2>1, <4>1
    <3>2. QED
      BY <2>2, <3>1
  <2> DEFINE x == On("ERROR", NoGen, q.question, FALSE)
  <2>4. <<x>> = [i \in 1..1 |-> x]
    <3> HIDE DEF x
    <3>1. <<x>> = [i \in 1..1 |-> <<x>>[i]]
      OBVIOUS
    <3>2. \A i \in 1..1 : <<x>>[i] = x
      OBVIOUS
    <3>3. QED
      BY <3>1, <3>2
  <2>5. QED
    BY <2>3, <2>4
<1>4. QED
  BY <1>1, <1>2, <1>3 DEF Answers

\* The places of a wire that was written to.
LEMMA LongerWire ==
    ASSUME NEW wire \in Seq(WireEvents), NEW w \in Seq(WireEvents)
    PROVE  /\ wire \o w \in Seq(WireEvents)
           /\ DOMAIN (wire \o w) \subseteq Nat
           /\ \A i \in DOMAIN (wire \o w) :
                  \/ i \in DOMAIN wire /\ (wire \o w)[i] = wire[i]
                  \/ /\ i - Len(wire) \in DOMAIN w
                     /\ (wire \o w)[i] = w[i - Len(wire)]
                     /\ \A j \in DOMAIN wire : j < i
<1> DEFINE new == wire \o w
<1>1. /\ Len(wire) \in Nat /\ DOMAIN wire = 1..Len(wire)
      /\ Len(w) \in Nat /\ DOMAIN w = 1..Len(w)
      /\ Len(new) = Len(wire) + Len(w) /\ DOMAIN new = 1..Len(new)
      /\ new \in Seq(WireEvents)
      /\ \A i \in 1..Len(new) :
             new[i] = IF i <= Len(wire) THEN wire[i] ELSE w[i - Len(wire)]
  BY LenProperties, ConcatProperties
<1> HIDE DEF new
<1>2. \A i \in DOMAIN new :
          \/ i \in DOMAIN wire /\ new[i] = wire[i]
          \/ /\ i - Len(wire) \in DOMAIN w
             /\ new[i] = w[i - Len(wire)]
             /\ \A j \in DOMAIN wire : j < i
  BY <1>1
<1>3. QED
  BY <1>1, <1>2 DEF new

\* Events of no generation, neither a SPEAKING nor an AUDIO_READY, disturb
\* nothing.
LEMMA NamedQuietly ==
    ASSUME NEW log, NEW wire \in Seq(WireEvents), NEW next \in Nat \ {0},
           NEW w \in Seq(WireEvents), Named(log, wire, next),
           \A i \in DOMAIN w :
               /\ w[i].gen = NoGen
               /\ w[i].type \notin {"ASSISTANT_SPEAKING", "AUDIO_READY"}
    PROVE  Named(log, wire \o w, next)
<1> DEFINE new == wire \o w
<1>1. /\ DOMAIN new \subseteq Nat
      /\ \A i \in DOMAIN new :
             \/ i \in DOMAIN wire /\ new[i] = wire[i]
             \/ /\ new[i].gen = NoGen
                /\ new[i].type \notin {"ASSISTANT_SPEAKING", "AUDIO_READY"}
                /\ \A j \in DOMAIN wire : j < i
  BY LongerWire
<1>2. DOMAIN wire \subseteq Nat
  BY LenProperties
<1> HIDE DEF new
<1>3. \A j \in DOMAIN new :
          /\ new[j].gen < next
          /\ new[j].type \in {"ASSISTANT_SPEAKING", "AUDIO_READY"} => new[j].gen # NoGen
  BY <1>1 DEF Named, NoGen
<1>4. \A i, j \in DOMAIN new :
          i < j /\ new[j].type = "ASSISTANT_SPEAKING" => new[i].gen < new[j].gen
  BY <1>1, <1>2 DEF Named
<1>5. \A i, j \in DOMAIN new :
          i < j /\ new[i].type = "AUDIO_READY" /\ new[j].type = "AUDIO_READY"
              => new[i].gen < new[j].gen
  BY <1>1, <1>2 DEF Named
<1>6. Named(log, new, next)
  BY <1>1, <1>3, <1>4, <1>5 DEF Named
<1>7. QED
  BY <1>6 DEF new

\* A reply of the next generation is later than all that was written or shown.
LEMMA NamedReply ==
    ASSUME NEW log \in Seq(Message), NEW wire \in Seq(WireEvents), NEW next \in Nat \ {0},
           NEW n, ReplyOnWire(next, n) \in Seq(WireEvents), Named(log, wire, next)
    PROVE  Named(log, wire \o ReplyOnWire(next, n), next + 1)
<1> DEFINE w == ReplyOnWire(next, n)
           new == wire \o w
<1>1. /\ DOMAIN w = 1..4
      /\ w[1] = On("ASSISTANT_SPEAKING", next, n, FALSE)
      /\ w[2] = On("AUDIO_READY", next, n, FALSE)
      /\ w[3] = On("METRICS_UPDATE", next, n, FALSE)
      /\ w[4] = On("ASSISTANT_STOPPED", next, n, FALSE)
  BY DEF ReplyOnWire
<1>2. \A k \in 1..4 : /\ w[k].gen = next
                      /\ w[k].type = "ASSISTANT_SPEAKING" => k = 1
                      /\ w[k].type = "AUDIO_READY" => k = 2
  <2> HIDE DEF w
  <2> SUFFICES ASSUME NEW k \in 1..4
               PROVE  /\ w[k].gen = next
                      /\ w[k].type = "ASSISTANT_SPEAKING" => k = 1
                      /\ w[k].type = "AUDIO_READY" => k = 2
    OBVIOUS
  <2>1. k = 1 \/ k = 2 \/ k = 3 \/ k = 4
    OBVIOUS
  <2>2. CASE k = 1
    BY <1>1, <2>2 DEF On
  <2>3. CASE k = 2
    BY <1>1, <2>3 DEF On
  <2>4. CASE k = 3
    BY <1>1, <2>4 DEF On
  <2>5. CASE k = 4
    BY <1>1, <2>5 DEF On
  <2>6. QED
    BY <2>1, <2>2, <2>3, <2>4, <2>5
<1> DEFINE l == Len(wire)
<1>3. /\ DOMAIN new \subseteq Nat
      /\ \A i \in DOMAIN new :
             \/ i \in DOMAIN wire /\ new[i] = wire[i]
             \/ /\ new[i].gen = next
                /\ new[i].type = "ASSISTANT_SPEAKING" => i = l + 1
                /\ new[i].type = "AUDIO_READY" => i = l + 2
                /\ i > l
  <2> HIDE DEF w
  <2>1. /\ DOMAIN new \subseteq Nat
        /\ \A i \in DOMAIN new :
               \/ i \in DOMAIN wire /\ new[i] = wire[i]
               \/ i - l \in DOMAIN w /\ new[i] = w[i - l]
    BY LongerWire DEF w
  <2>2. l \in Nat
    BY LenProperties
  <2>3. DOMAIN w = 1..4
    BY <1>1 DEF w
  <2> HIDE DEF new, l
  <2> SUFFICES ASSUME NEW i \in DOMAIN new, ~(i \in DOMAIN wire /\ new[i] = wire[i])
               PROVE  /\ new[i].gen = next
                      /\ new[i].type = "ASSISTANT_SPEAKING" => i = l + 1
                      /\ new[i].type = "AUDIO_READY" => i = l + 2
                      /\ i > l
    BY <2>1
  <2>4. i \in Nat /\ i - l \in 1..4 /\ new[i] = w[i - l]
    BY <2>1, <2>3
  <2>5. /\ new[i].gen = next
        /\ new[i].type = "ASSISTANT_SPEAKING" => i - l = 1
        /\ new[i].type = "AUDIO_READY" => i - l = 2
    BY <1>2, <2>4
  <2>6. QED
    BY <2>2, <2>4, <2>5
<1>4. DOMAIN wire = 1..l /\ l \in Nat
  BY LenProperties
<1>5. /\ \A j \in DOMAIN wire : wire[j].gen \in Int /\ wire[j].gen < next
      /\ \A i \in DOMAIN log : log[i].gen \in Int /\ log[i].gen < next
  <2>1. /\ \A j \in DOMAIN wire : wire[j] \in WireEvents
        /\ \A i \in DOMAIN log : log[i] \in Message
    BY LenProperties
  <2>2. /\ \A e \in WireEvents : e.gen \in Int
        /\ \A m \in Message : m.gen \in Int
    BY DEF WireEvents, Message, Generations
  <2>3. QED
    BY <2>1, <2>2 DEF Named
<1> HIDE DEF new, w, l
<1>6. \A j \in DOMAIN new :
          /\ new[j].gen < next + 1
          /\ new[j].type \in {"ASSISTANT_SPEAKING", "AUDIO_READY"} => new[j].gen # NoGen
  BY <1>3, <1>5 DEF Named, NoGen
<1>7. \A i, j \in DOMAIN new :
          i < j /\ new[j].type = "ASSISTANT_SPEAKING" => new[i].gen < new[j].gen
  <2> SUFFICES ASSUME NEW i \in DOMAIN new, NEW j \in DOMAIN new,
                      i < j, new[j].type = "ASSISTANT_SPEAKING"
               PROVE  new[i].gen < new[j].gen
    OBVIOUS
  <2>1. i \in Nat /\ j \in Nat
    BY <1>3
  <2>2. CASE j \in DOMAIN wire /\ new[j] = wire[j]
    <3>1. i \in DOMAIN wire /\ new[i] = wire[i]
      BY <1>3, <1>4, <2>1, <2>2
    <3>2. QED
      BY <2>2, <3>1 DEF Named
  <2>3. CASE new[j].gen = next /\ j = l + 1
    <3>1. i \in DOMAIN wire /\ new[i] = wire[i]
      BY <1>3, <1>4, <2>1, <2>3
    <3>2. QED
      BY <1>5, <2>3, <3>1
  <2>4. QED
    BY <1>3, <2>2, <2>3
<1>8. \A i, j \in DOMAIN new :
          i < j /\ new[i].type = "AUDIO_READY" /\ new[j].type = "AUDIO_READY"
              => new[i].gen < new[j].gen
  <2> SUFFICES ASSUME NEW i \in DOMAIN new, NEW j \in DOMAIN new, i < j,
                      new[i].type = "AUDIO_READY", new[j].type = "AUDIO_READY"
               PROVE  new[i].gen < new[j].gen
    OBVIOUS
  <2>1. i \in Nat /\ j \in Nat
    BY <1>3
  <2>2. CASE j \in DOMAIN wire /\ new[j] = wire[j]
    <3>1. i \in DOMAIN wire /\ new[i] = wire[i]
      BY <1>3, <1>4, <2>1, <2>2
    <3>2. QED
      BY <2>2, <3>1 DEF Named
  <2>3. CASE new[j].gen = next /\ j = l + 2
    <3>1. i # l + 2
      BY <2>1, <2>3
    <3>2. i \in DOMAIN wire /\ new[i] = wire[i]
      BY <1>3, <3>1
    <3>3. QED
      BY <1>5, <2>3, <3>2
  <2>4. QED
    BY <1>3, <2>2, <2>3
<1>9. \A i \in DOMAIN log : log[i].gen < next + 1
  BY <1>5
<1>10. \A i \in DOMAIN log, j \in DOMAIN new :
          \/ new[j].type = "ASSISTANT_SPEAKING"
          \/ new[j].type = "AUDIO_READY" /\ log[i].audio # 0
          => log[i].gen < new[j].gen
  BY <1>3, <1>5 DEF Named
<1>11. Named(log, new, next + 1)
  BY <1>6, <1>7, <1>8, <1>9, <1>10 DEF Named
<1>12. QED
  BY <1>11 DEF new, w

\* No step disturbs the log, and none but a restart or a stray event the names
\* of generations.
LEMMA ChatInvStep == ChatInv /\ [ChatNext]_chatVars => ChatInv'
<1> SUFFICES ASSUME ChatInv, [ChatNext]_chatVars PROVE ChatInv'
  OBVIOUS
<1> DEFINE next == session[Page].nextGen
<1>0. /\ TypeInv /\ ChatTypeOK /\ SMTypeOK /\ CountOK
      /\ messages \in Seq(Message) /\ LogOK(messages)
      /\ toServer \in Seq(Requests) /\ toClient \in Seq(WireEvents)
      /\ next \in Nat \ {0}
      /\ Steady => Named(messages, toClient, next)
  <2>1. session[Page] \in Session
    BY PageAssumption DEF ChatInv, TypeInv, ChatTypeOK, SMTypeOK
  <2>2. next \in Nat \ {0}
    BY <2>1, MaxGenerationAssumption DEF Session
  <2> HIDE DEF next
  <2>3. QED
    BY <2>2 DEF ChatInv, TypeInv, ChatTypeOK, Requests, WireEvents, next
<1>1. TypeInv'
  BY <1>0, TypeStep
<1>2. toClient' \in Seq(WireEvents) /\ messages' \in Seq(Message)
  BY <1>1 DEF TypeInv, ChatTypeOK, WireEvents
<1> HIDE DEF next
<1>3. SUFFICES /\ LogOK(messages')
               /\ Steady' => Named(messages', toClient', next')
  BY <1>1 DEF ChatInv, next
<1>4. ASSUME NEW request, NEW added \in Seq(Message), Ask(request, added),
             \A i \in DOMAIN added : /\ added[i].gen = NoGen /\ added[i].audio = 0
                                     /\ MessageOK(added[i])
      PROVE  LogOK(messages') /\ (Steady' => Named(messages', toClient', next'))
  <2>1. /\ messages' = messages \o added
        /\ toClient' = toClient /\ next' = next /\ (Steady' => Steady)
    BY <1>0, <1>4 DEF Ask, Counted, CountOK, Steady, smVars, next
  <2>2. LogOK(messages')
    <3>1. /\ Len(messages) \in Nat /\ DOMAIN messages = 1..Len(messages)
          /\ Len(added) \in Nat /\ DOMAIN added = 1..Len(added)
          /\ Len(messages') = Len(messages) + Len(added)
          /\ DOMAIN messages' = 1..Len(messages')
          /\ \A i \in 1..Len(messages') :
                 messages'[i] = IF i <= Len(messages) THEN messages[i]
                                                      ELSE added[i - Len(messages)]
      BY <1>0, <1>2, <2>1, LenProperties, ConcatProperties
    <3> SUFFICES ASSUME NEW i \in DOMAIN messages' PROVE MessageOK(messages'[i])
      BY DEF LogOK
    <3>2. CASE i <= Len(messages)
      BY <1>0, <3>1, <3>2 DEF LogOK
    <3>3. CASE ~(i <= Len(messages))
      <4>1. i - Len(messages) \in DOMAIN added /\ messages'[i] = added[i - Len(messages)]
        BY <3>1, <3>3
      <4>2. QED
        BY <1>4, <4>1
    <3>4. QED
      BY <3>2, <3>3
  <2>3. ASSUME Steady PROVE Named(messages \o added, toClient, next)
    BY <1>0, <1>4, <2>3, NamedAsked
  <2>4. QED
    BY <2>1, <2>2, <2>3
<1>5. CASE SendText
  <2> DEFINE n == count.question + 1
             added == <<User(n), PendingAssistant(n)>>
  <2>1. Ask("TEXT_INPUT", added) /\ count.question < MaxQuestions
    BY <1>5 DEF SendText, Ask, Counted
  <2>2. added \in Seq(Message)
    BY <1>0, <2>1, AskedMessages
  <2>3. \A i \in DOMAIN added : /\ added[i].gen = NoGen /\ added[i].audio = 0
                                /\ MessageOK(added[i])
    <3>1. /\ DOMAIN added = 1..2
          /\ added[1] = User(n) /\ added[2] = PendingAssistant(n)
      OBVIOUS
    <3>2. /\ User(n).gen = NoGen /\ User(n).audio = 0 /\ MessageOK(User(n))
          /\ PendingAssistant(n).gen = NoGen /\ PendingAssistant(n).audio = 0
          /\ MessageOK(PendingAssistant(n))
      BY DEF User, PendingAssistant, MessageOK
    <3>3. \A i \in 1..2 : i = 1 \/ i = 2
      OBVIOUS
    <3> HIDE DEF added
    <3>4. QED
      BY <3>1, <3>2, <3>3
  <2> HIDE DEF added
  <2>4. QED
    BY <1>4, <2>1, <2>2, <2>3
<1>6. CASE SpeechEnds
  <2> DEFINE n == count.question + 1
             added == <<VoicePlaceholder(n)>>
  <2>1. Ask("USER_SPEECH_END", added) /\ count.question < MaxQuestions
    BY <1>6 DEF SpeechEnds, Ask, Counted
  <2>2. added \in Seq(Message)
    BY <1>0, <2>1, AskedMessages
  <2>3. \A i \in DOMAIN added : /\ added[i].gen = NoGen /\ added[i].audio = 0
                                /\ MessageOK(added[i])
    <3>1. DOMAIN added = 1..1 /\ added[1] = VoicePlaceholder(n)
      OBVIOUS
    <3>2. /\ VoicePlaceholder(n).gen = NoGen /\ VoicePlaceholder(n).audio = 0
          /\ MessageOK(VoicePlaceholder(n))
      BY DEF User, VoicePlaceholder, MessageOK
    <3>3. \A i \in 1..1 : i = 1
      OBVIOUS
    <3> HIDE DEF added
    <3>4. QED
      BY <3>1, <3>2, <3>3
  <2> HIDE DEF added
  <2>4. QED
    BY <1>4, <2>1, <2>2, <2>3
<1>7. ASSUME UNCHANGED <<messages, toClient>>, Steady' => Steady /\ next' = next
      PROVE  LogOK(messages') /\ (Steady' => Named(messages', toClient', next'))
  BY <1>0, <1>7
<1>8. CASE StartVoice \/ StopVoice \/ WorkletError \/ Retry \/ SafeEnd \/ AttemptFails
  <2>1. UNCHANGED <<smVars, messages, toClient>>
    BY <1>8 DEF StartVoice, StopVoice, WorkletError, Retry, SafeEnd, AttemptFails, wires
  <2>2. Toggled \/ UNCHANGED count
    BY <1>8 DEF StartVoice, StopVoice, WorkletError, Retry, SafeEnd, AttemptFails
  <2>3. Steady' => Steady
    BY <1>0, <2>2 DEF Toggled, CountOK, Steady
  <2>4. QED
    BY <1>7, <2>1, <2>3 DEF smVars, next
<1>9. CASE BackendHandles
  <2> DEFINE q == Head(toServer)
  <2>1. q \in Requests
    BY <1>0, <1>9, HeadTailProperties DEF BackendHandles
  <2>2. HandleRequest(q) /\ toClient' = toClient \o Written(q) /\ messages' = messages
    BY <1>9 DEF BackendHandles, pageVars, Written
  <2>3. Answers(q)
    BY <1>0, <2>1, <2>2, RequestAnswers
  <2>4. Steady' => Steady
    BY <1>9 DEF BackendHandles, Steady
  <2>5. Written(q) \in Seq(WireEvents)
    <3>1. result'[Conn] \in Seq(ServerEvent)
      BY <1>1, PageAssumption DEF TypeInv, ChatTypeOK, SMTypeOK
    <3>2. q.question \in Questions
      BY <2>1 DEF Requests
    <3>3. QED
      BY <3>1, <3>2, WrittenEvents DEF Written
  <2> HIDE DEF q
  <2>6. CASE Written(q) = ReplyOnWire(next, q.question) /\ next' = next + 1
    BY <1>0, <2>2, <2>4, <2>5, <2>6, NamedReply
  <2>7. CASE /\ Written(q) \in {<<>>, <<On("ERROR", NoGen, q.question, FALSE)>>}
             /\ next' = next
    <3>1. \A i \in DOMAIN Written(q) :
              /\ Written(q)[i].gen = NoGen
              /\ Written(q)[i].type \notin {"ASSISTANT_SPEAKING", "AUDIO_READY"}
      BY <2>7 DEF On
    <3>2. QED
      BY <1>0, <2>2, <2>4, <2>5, <2>7, <3>1, NamedQuietly
  <2>8. QED
    BY <2>3, <2>6, <2>7, WrittenIs DEF next
<1>10. CASE Receive
  <2> DEFINE e == Head(toClient)
  <2>1. /\ toClient # <<>> /\ OnEvent(e) /\ toClient' = Tail(toClient)
        /\ next' = next /\ (Steady' => Steady)
    BY <1>10 DEF Receive, smVars, next, Steady
  <2>2. e \in WireEvents
    BY <1>0, <2>1, TailOfWire
  <2>3. e \in AnyEvent
    BY <2>2 DEF WireEvents, AnyEvent
  <2>4. LogOK(messages')
    BY <1>0, <2>1, <2>3, EventLogOK
  <2>5. ASSUME Steady PROVE Named(messages', toClient', next)
    <3>0. Named(messages, toClient, next)
      BY <1>0, <2>5
    <3>1. CASE e.type = "ASSISTANT_SPEAKING"
      <4>1. messages' = AfterSpeaking(messages, e)
        BY <2>1, <3>1 DEF OnEvent
      <4>2. Speaks(messages, messages', e)
        BY <1>0, <2>3, <4>1, SpeakingEffect
      <4> HIDE DEF e
      <4>3. QED
        BY <1>0, <2>1, <3>0, <3>1, <4>2, NamedSpeaks DEF e
    <3>2. CASE e.type = "AUDIO_READY"
      <4>1. messages' = AfterAudio(messages, e)
        BY <2>1, <3>2 DEF OnEvent
      <4>2. Offers(messages, messages', e)
        BY <1>0, <2>3, <4>1, AudioEffect
      <4>3. QED
        BY <1>0, <2>1, <3>0, <3>2, <4>2, NamedOffers
    <3>3. CASE e.type \notin {"ASSISTANT_SPEAKING", "AUDIO_READY"}
      <4>1. messages' = messages
        BY <2>1, <2>2, <3>3 DEF OnEvent, WireEvents, EventTypes
      <4>2. QED
        BY <1>0, <2>1, <3>0, <4>1, NamedTail
    <3>4. QED
      BY <3>1, <3>2, <3>3
  <2>6. QED
    BY <2>1, <2>4, <2>5
<1>11. CASE ConnectionLost
  <2>1. messages' = messages /\ toClient' = <<>>
    BY <1>11 DEF ConnectionLost, LoseWire
  <2>2. Steady' => Steady
    BY <1>0, <1>11 DEF ConnectionLost, Fault, CountOK, Steady
  <2>3. next' = next
    <3>1. session \in [Sessions -> Session] /\ Page \in Sessions
      BY <1>0, PageAssumption DEF SMTypeOK
    <3>2. QED
      BY <1>11, <3>1 DEF ConnectionLost, MarkDisconnected, smVars, next, Session
  <2>4. Named(messages, toClient, next) => Named(messages, <<>>, next)
    BY DEF Named
  <2>5. QED
    BY <1>0, <2>1, <2>2, <2>3, <2>4
<1>12. CASE BackendRestarts
  <2>1. count'.restart # 0
    BY <1>0, <1>12 DEF BackendRestarts, Fault, CountOK
  <2>2. QED
    BY <1>0, <1>12, <2>1 DEF BackendRestarts, LoseWire, Steady
<1>13. CASE Opens
  <2>1. Steady' => Steady /\ next' = next
    BY <1>13 DEF Opens, smVars, next, Steady
  <2>2. QED
    BY <1>7, <1>13, <2>1 DEF Opens, pageVars
<1>14. CASE StrayEvent
  <2>1. count'.stray # 0
    BY <1>0, <1>14 DEF StrayEvent, Fault, CountOK
  <2>2. count.question \in Questions
    BY <1>0 DEF CountOK
  <2>3. PICK type \in {"ASSISTANT_SPEAKING", "AUDIO_READY", "ASSISTANT_TEXT",
                       "PARTIAL_TRANSCRIPT", "FINAL_TRANSCRIPT", "ASSISTANT_STOPPED",
                       "ERROR"}, g \in Generations, stale \in BOOLEAN :
               OnEvent(On(type, g, count.question, stale))
    BY <1>14 DEF StrayEvent
  <2>4. On(type, g, count.question, stale) \in AnyEvent
    BY <2>2 DEF On, AnyEvent, EventTypes
  <2>5. QED
    BY <1>0, <2>1, <2>3, <2>4, EventLogOK DEF Steady
<1>15. CASE UNCHANGED chatVars
  <2>1. Steady' => Steady /\ next' = next
    BY <1>15 DEF chatVars, smVars, next, Steady
  <2>2. QED
    BY <1>7, <1>15, <2>1 DEF chatVars, pageVars, wires
<1>16. QED
  BY <1>5, <1>6, <1>8, <1>9, <1>10, <1>11, <1>12, <1>13, <1>14, <1>15 DEF ChatNext

LEMMA ChatInvInit == ChatInit => ChatInv
<1> SUFFICES ASSUME ChatInit PROVE ChatInv
  OBVIOUS
<1>1. messages = <<>> /\ toClient = <<>> /\ DOMAIN <<>> = {}
  BY DEF ChatInit
<1>2. QED
  BY <1>1, TypeInit DEF ChatInv, LogOK, Named

\* The invariant holds of every reachable state.
THEOREM ChatInvariant == ChatSpec => []ChatInv
BY ChatInvInit, ChatInvStep, PTL DEF ChatSpec

\* The log, the status, the wires and the sessions are well typed at all times.
THEOREM ChatTypeCorrect == ChatSpec => []ChatTypeOK
<1>1. ChatInv => ChatTypeOK
  BY DEF ChatInv, TypeInv
<1>2. QED
  BY <1>1, ChatInvariant, PTL

\* Whatever a backend sends and in whatever order, a reply shown as stale never
\* offers audio (AUDIO_READY and ASSISTANT_TEXT of onEvent).
THEOREM StaleStaysSilent == ChatSpec => []StaleHasNoAudio
<1>1. ChatInv => StaleHasNoAudio
  BY DEF ChatInv, LogOK, MessageOK, StaleHasNoAudio
<1>2. QED
  BY <1>1, ChatInvariant, PTL

\* While one backend lives, no two messages are of one generation, however many
\* connections were lost and however questions and replies overlapped.
THEOREM GenerationsApart == ChatSpec => []GenerationNamesOneMessage
<1>1. ChatInv => GenerationNamesOneMessage
  BY DEF ChatInv, Steady, Named, GenerationNamesOneMessage
<1>2. QED
  BY <1>1, ChatInvariant, PTL

\* A step that changes the audio of a message received the AUDIO_READY of a
\* generation, whose messages offer none yet.
LEMMA AudioStep ==
    ASSUME ChatInv, [ChatNext]_chatVars, count.restart = 0, count'.stray = 0,
           NEW i \in DOMAIN messages, messages[i].audio # 0
    PROVE  messages'[i].audio = messages[i].audio
<1> DEFINE log == messages
<1>0. /\ ChatTypeOK /\ CountOK /\ LogOK(log)
      /\ log \in Seq(Message) /\ toServer \in Seq(Requests) /\ toClient \in Seq(WireEvents)
      /\ log[i] \in Message /\ MessageOK(log[i])
      /\ Steady => Named(log, toClient, session[Page].nextGen)
  BY LenProperties DEF ChatInv, TypeInv, ChatTypeOK, Requests, WireEvents, LogOK
<1>1. CASE \E request : \E added \in Seq(Message) : Ask(request, added)
  <2>1. PICK added \in Seq(Message) : messages' = log \o added
    BY <1>1 DEF Ask
  <2>2. (log \o added)[i] = log[i]
    BY <1>0, LenProperties, ConcatProperties
  <2>3. QED
    BY <2>1, <2>2
<1>2. CASE SendText \/ SpeechEnds
  <2>1. count.question < MaxQuestions
    BY <1>2 DEF SendText, SpeechEnds, Ask, Counted
  <2>2. /\ <<User(count.question + 1), PendingAssistant(count.question + 1)>> \in Seq(Message)
        /\ <<VoicePlaceholder(count.question + 1)>> \in Seq(Message)
    BY <1>0, <2>1, AskedMessages
  <2>3. QED
    BY <1>1, <1>2, <2>2 DEF SendText, SpeechEnds
<1>3. CASE messages' = messages
  BY <1>3
<1>4. CASE Receive
  <2> DEFINE e == Head(toClient)
             new == messages'
  <2>1. Steady /\ toClient # <<>> /\ OnEvent(e)
    BY <1>4 DEF Receive, Steady
  <2>2. e \in WireEvents /\ e = toClient[1] /\ 1 \in DOMAIN toClient
    BY <1>0, <2>1, TailOfWire
  <2>3. e \in AnyEvent
    BY <2>2 DEF WireEvents, AnyEvent
  <2>4. CASE e.type = "ASSISTANT_SPEAKING"
    <3>1. Speaks(log, new, e)
      BY <1>0, <2>1, <2>3, <2>4, SpeakingEffect DEF OnEvent
    <3> HIDE DEF e, new, log
    <3>2. CASE Len(log) + 1 \notin DOMAIN log
               /\ Puts(log, new, Len(log) + 1, [PendingAssistant(0) EXCEPT !.gen = e.gen])
      BY <3>2 DEF Puts, log, new
    <3>3. ASSUME NEW k \in DOMAIN log, log[k].phase = "pending",
                 Puts(log, new, k, [log[k] EXCEPT !.gen = e.gen])
          PROVE  new[i] = log[i]
      <4>1. k # i
        BY <1>0, <3>3 DEF MessageOK, log
      <4>2. QED
        BY <3>3, <4>1 DEF Puts, log
    <3>4. QED
      BY <3>1, <3>2, <3>3 DEF Speaks, log, new
  <2>5. CASE e.type = "AUDIO_READY"
    <3>1. Offers(log, new, e)
      BY <1>0, <2>1, <2>3, <2>5, AudioEffect DEF OnEvent
    <3>2. log[i].gen < e.gen
      BY <1>0, <2>1, <2>2, <2>5 DEF Named
    <3>3. ~OfGeneration(log[i], e.gen)
      BY <1>0, <2>2, <3>2 DEF OfGeneration, Message, WireEvents, Generations
    <3> HIDE DEF e, new, log
    <3>4. CASE new = log
      BY <3>4 DEF log, new
    <3>5. CASE OffersMine(log, new, e)
      BY <3>3, <3>5 DEF OffersMine, log, new
    <3>6. CASE OffersOther(log, new, e)
      <4>1. CASE Len(log) + 1 \notin DOMAIN log
                 /\ \E m : Puts(log, new, Len(log) + 1, m)
        BY <4>1 DEF Puts, log, new
      <4>2. CASE \E k \in DOMAIN log : log[k].phase = "pending" /\ \E m : Puts(log, new, k, m)
        <5>1. PICK k \in DOMAIN log : log[k].phase = "pending" /\ \E m : Puts(log, new, k, m)
          BY <4>2
        <5>2. k # i
          BY <1>0, <5>1 DEF MessageOK, log
        <5>3. QED
          BY <5>1, <5>2 DEF Puts, log, new
      <4>3. QED
        BY <3>6, <4>1, <4>2 DEF OffersOther
    <3>7. QED
      BY <3>1, <3>4, <3>5, <3>6 DEF Offers
  <2>6. CASE e.type \notin {"ASSISTANT_SPEAKING", "AUDIO_READY"}
    BY <2>1, <2>2, <2>6 DEF OnEvent, WireEvents, EventTypes
  <2>7. QED
    BY <2>4, <2>5, <2>6
<1>5. CASE StrayEvent
  BY <1>0, <1>5 DEF StrayEvent, Fault, CountOK
<1>6. QED
  BY <1>2, <1>3, <1>4, <1>5
     DEF ChatNext, StartVoice, StopVoice, WorkletError, Retry, SafeEnd, BackendHandles,
         ConnectionLost, BackendRestarts, LoseWire, AttemptFails, Opens, chatVars, pageVars

\* While one backend lives, audio that a message offers stays the same.
THEOREM OfferedAudioStays == ChatSpec => AudioStaysPut
<1>1. ChatInv /\ [ChatNext]_chatVars
          => [count.restart = 0 /\ count'.stray = 0 =>
                  \A i \in DOMAIN messages :
                      messages[i].audio # 0 => messages'[i].audio = messages[i].audio]_chatVars
  BY AudioStep
<1>2. QED
  BY <1>1, ChatInvariant, PTL DEF ChatSpec, AudioStaysPut

-----------------------------------------------------------------------------
(* Every question is answered *)

\* The places of a sequence that grew by one, and of one that lost its first.
LEMMA AppendPlaces ==
    ASSUME NEW S, NEW s \in Seq(S), NEW x \in S
    PROVE  /\ Append(s, x) \in Seq(S) /\ Len(s) \in Nat /\ Len(Append(s, x)) = Len(s) + 1
           /\ DOMAIN s = 1..Len(s) /\ DOMAIN Append(s, x) = 1..(Len(s) + 1)
           /\ \A i \in DOMAIN s : Append(s, x)[i] = s[i]
           /\ Append(s, x)[Len(s) + 1] = x
BY LenProperties, AppendProperties

LEMMA TailPlaces ==
    ASSUME NEW S, NEW s \in Seq(S), s # <<>>
    PROVE  /\ Tail(s) \in Seq(S) /\ Len(s) \in Nat \ {0} /\ Len(Tail(s)) = Len(s) - 1
           /\ DOMAIN s = 1..Len(s) /\ DOMAIN Tail(s) = 1..(Len(s) - 1)
           /\ \A i \in DOMAIN Tail(s) : Tail(s)[i] = s[i + 1]
           /\ Head(s) = s[1] /\ Head(s) \in S
BY EmptySeq, LenProperties, HeadTailProperties

\* Where a request stands in the queue, the voice session is open: it is open
\* now, or a START_SESSION before opens it, and no STOP_SESSION comes between.
OpenAt(requests, k, active) ==
    \/ /\ active
       /\ \A i \in DOMAIN requests : i < k => requests[i].type # "STOP_SESSION"
    \/ \E j \in DOMAIN requests :
           /\ j < k /\ requests[j].type = "START_SESSION"
           /\ \A i \in DOMAIN requests : j < i /\ i < k => requests[i].type # "STOP_SESSION"

\* What asks the backend something.
AskTypes == {"USER_SPEECH_END", "TEXT_INPUT"}

\* Of the requests on their way, speech finds the session open exactly when it
\* was not spoken outside one, and so would the next one that the user makes.
Welcome(requests, active, next, lost) ==
    /\ \A k \in DOMAIN requests :
           requests[k].type = "USER_SPEECH_END" =>
               (requests[k].question \notin lost <=> OpenAt(requests, k, active))
    /\ \A k \in DOMAIN requests :
           /\ requests[k].type = "TEXT_INPUT" => requests[k].question \notin lost
           /\ requests[k].type \notin AskTypes => requests[k].question = 0
    /\ next <=> OpenAt(requests, Len(requests) + 1, active)

\* A request added at the end changes nothing for those before it.
LEMMA OpenAppend ==
    ASSUME NEW requests \in Seq(Requests), NEW q \in Requests, NEW active,
           NEW k \in 1..(Len(requests) + 1)
    PROVE  OpenAt(Append(requests, q), k, active) <=> OpenAt(requests, k, active)
<1> DEFINE more == Append(requests, q)
<1>1. /\ Len(requests) \in Nat
      /\ DOMAIN requests = 1..Len(requests) /\ DOMAIN more = 1..(Len(requests) + 1)
      /\ \A i \in DOMAIN requests : more[i] = requests[i]
  BY AppendPlaces
<1> HIDE DEF more
<1>2. \A i \in DOMAIN more : i < k => i \in DOMAIN requests /\ more[i] = requests[i]
  BY <1>1
<1>3. \A i \in DOMAIN requests : i \in DOMAIN more /\ more[i] = requests[i]
  BY <1>1
<1>4. OpenAt(more, k, active) => OpenAt(requests, k, active)
  BY <1>2, <1>3 DEF OpenAt
<1>5. OpenAt(requests, k, active) => OpenAt(more, k, active)
  BY <1>2, <1>3 DEF OpenAt
<1>6. QED
  BY <1>4, <1>5 DEF more

\* Behind it the session is open after a START_SESSION, and else as before it,
\* unless it is a STOP_SESSION.
LEMMA OpenBehind ==
    ASSUME NEW requests \in Seq(Requests), NEW q \in Requests, NEW active
    PROVE  OpenAt(Append(requests, q), Len(requests) + 2, active)
               <=> \/ q.type = "START_SESSION"
                   \/ /\ q.type # "STOP_SESSION"
                      /\ OpenAt(requests, Len(requests) + 1, active)
<1> DEFINE more == Append(requests, q)
           n == Len(requests)
<1>1. /\ n \in Nat
      /\ DOMAIN requests = 1..n /\ DOMAIN more = 1..(n + 1)
      /\ \A i \in DOMAIN requests : more[i] = requests[i]
      /\ more[n + 1] = q
  BY AppendPlaces
<1>2. OpenAt(more, n + 1, active) <=> OpenAt(requests, n + 1, active)
  <2>1. n + 1 \in 1..(Len(requests) + 1)
    BY <1>1
  <2>2. QED
    BY <2>1, OpenAppend
<1> HIDE DEF more, n
<1>3. CASE q.type = "START_SESSION"
  <2>1. \A i \in DOMAIN more : ~(n + 1 < i /\ i < n + 2)
    BY <1>1
  <2>2. n + 1 \in DOMAIN more /\ n + 1 < n + 2
    BY <1>1
  <2>3. OpenAt(more, n + 2, active)
    BY <1>1, <1>3, <2>1, <2>2 DEF OpenAt
  <2>4. QED
    BY <1>3, <2>3 DEF more, n
<1>4. CASE q.type = "STOP_SESSION"
  <2>1. n + 1 \in DOMAIN more /\ n + 1 < n + 2 /\ more[n + 1].type = "STOP_SESSION"
    BY <1>1, <1>4
  <2>2. \A j \in DOMAIN more : j < n + 2 /\ more[j].type = "START_SESSION" => j < n + 1
    BY <1>1, <1>4
  <2>3. ~OpenAt(more, n + 2, active)
    BY <2>1, <2>2 DEF OpenAt
  <2>4. QED
    BY <1>4, <2>3 DEF more, n
<1>5. CASE q.type \notin {"START_SESSION", "STOP_SESSION"}
  <2>1. /\ \A i \in DOMAIN more : i < n + 2 => i < n + 1 \/ i = n + 1
        /\ \A i \in DOMAIN more : i < n + 1 => i < n + 2
        /\ more[n + 1].type \notin {"START_SESSION", "STOP_SESSION"}
    BY <1>1, <1>5
  <2>2. OpenAt(more, n + 2, active) => OpenAt(more, n + 1, active)
    BY <2>1 DEF OpenAt
  <2>3. OpenAt(more, n + 1, active) => OpenAt(more, n + 2, active)
    BY <2>1 DEF OpenAt
  <2>4. QED
    BY <1>2, <1>5, <2>2, <2>3 DEF more, n
<1>6. QED
  BY <1>3, <1>4, <1>5

\* Whatever is sent next, and whichever question it is.
LEMMA WelcomeAppend ==
    ASSUME NEW requests \in Seq(Requests), NEW q \in Requests, NEW active,
           NEW next, NEW next2, NEW lost, NEW lost2, Welcome(requests, active, next, lost),
           \A k \in DOMAIN requests : requests[k].type \in AskTypes =>
               (requests[k].question \in lost2 <=> requests[k].question \in lost),
           q.type = "USER_SPEECH_END" => (q.question \notin lost2 <=> next),
           q.type = "TEXT_INPUT" => q.question \notin lost2,
           q.type \notin AskTypes => q.question = 0,
           next2 <=> (q.type = "START_SESSION" \/ (q.type # "STOP_SESSION" /\ next))
    PROVE  Welcome(Append(requests, q), active, next2, lost2)
<1> DEFINE more == Append(requests, q)
           n == Len(requests)
<1>1. /\ n \in Nat /\ Len(more) = n + 1
      /\ DOMAIN requests = 1..n /\ DOMAIN more = 1..(n + 1)
      /\ \A i \in DOMAIN requests : more[i] = requests[i]
      /\ more[n + 1] = q
  BY AppendPlaces
<1>2. ASSUME NEW k \in 1..(n + 1)
      PROVE  OpenAt(more, k, active) <=> OpenAt(requests, k, active)
  BY <1>2, OpenAppend
<1>3. OpenAt(more, n + 2, active)
          <=> (q.type = "START_SESSION"
                   \/ (q.type # "STOP_SESSION" /\ OpenAt(requests, n + 1, active)))
  BY OpenBehind
<1>4. next <=> OpenAt(requests, n + 1, active)
  BY DEF Welcome
<1> HIDE DEF more, n
<1>5. \A k \in DOMAIN more : (k \in DOMAIN requests /\ more[k] = requests[k]) \/ k = n + 1
  BY <1>1
<1>6. ASSUME NEW k \in DOMAIN more, more[k].type = "USER_SPEECH_END"
      PROVE  more[k].question \notin lost2 <=> OpenAt(more, k, active)
  <2>1. CASE k \in DOMAIN requests /\ more[k] = requests[k]
    <3>1. more[k].question \notin lost <=> OpenAt(requests, k, active)
      BY <1>6, <2>1 DEF Welcome
    <3>2. more[k].question \in lost2 <=> more[k].question \in lost
      BY <1>6, <2>1 DEF AskTypes
    <3>3. OpenAt(more, k, active) <=> OpenAt(requests, k, active)
      BY <1>1, <1>2, <2>1
    <3>4. QED
      BY <3>1, <3>2, <3>3
  <2>2. CASE k = n + 1
    <3>1. OpenAt(more, k, active) <=> OpenAt(requests, k, active)
      BY <1>1, <1>2, <2>2
    <3>2. QED
      BY <1>1, <1>4, <1>6, <2>2, <3>1
  <2>3. QED
    BY <1>5, <2>1, <2>2
<1>7. ASSUME NEW k \in DOMAIN more
      PROVE  /\ more[k].type = "TEXT_INPUT" => more[k].question \notin lost2
             /\ more[k].type \notin AskTypes => more[k].question = 0
  <2>1. CASE k \in DOMAIN requests /\ more[k] = requests[k]
    BY <2>1 DEF Welcome, AskTypes
  <2>2. CASE k = n + 1
    BY <1>1, <2>2
  <2>3. QED
    BY <1>5, <2>1, <2>2
<1>8. Len(more) + 1 = n + 2
  BY <1>1
<1>9. Welcome(more, active, next2, lost2)
  <2>1. next2 <=> OpenAt(more, Len(more) + 1, active)
    BY <1>3, <1>4, <1>8
  <2>2. QED
    BY <1>6, <1>7, <2>1 DEF Welcome
<1>10. QED
  BY <1>9 DEF more

\* What was handled first opened or closed the session for the others, or left
\* it as it was.
LEMMA OpenTail ==
    ASSUME NEW requests \in Seq(Requests), requests # <<>>, NEW active, NEW active2,
           active2 <=> \/ Head(requests).type = "START_SESSION"
                       \/ Head(requests).type # "STOP_SESSION" /\ active,
           NEW k \in 1..Len(requests)
    PROVE  OpenAt(Tail(requests), k, active2) <=> OpenAt(requests, k + 1, active)
<1> DEFINE t == Tail(requests)
           n == Len(requests)
           q == Head(requests)
<1>1. /\ n \in Nat \ {0} /\ k \in 1..n
      /\ DOMAIN requests = 1..n /\ DOMAIN t = 1..(n - 1)
      /\ \A i \in DOMAIN t : t[i] = requests[i + 1]
      /\ q = requests[1]
  BY TailPlaces
<1>2. active2 <=> (q.type = "START_SESSION" \/ (q.type # "STOP_SESSION" /\ active))
  OBVIOUS
<1> HIDE DEF t, n, q
<1>3. /\ 1 \in DOMAIN requests
      /\ \A i \in DOMAIN t : i < k => i + 1 \in DOMAIN requests /\ i + 1 < k + 1
      /\ \A i \in DOMAIN requests : i < k + 1 =>
             i = 1 \/ (i - 1 \in DOMAIN t /\ i - 1 < k /\ t[i - 1] = requests[i])
      /\ 1 < k + 1
  BY <1>1
<1>4. ASSUME OpenAt(requests, k + 1, active)
      PROVE  OpenAt(t, k, active2)
  <2>1. CASE active /\ \A i \in DOMAIN requests : i < k + 1 => requests[i].type # "STOP_SESSION"
    <3>1. q.type # "STOP_SESSION" /\ active2
      BY <1>1, <1>2, <1>3, <2>1
    <3>2. \A i \in DOMAIN t : i < k => t[i].type # "STOP_SESSION"
      BY <1>1, <1>3, <2>1
    <3>3. QED
      BY <3>1, <3>2 DEF OpenAt
  <2>2. ASSUME NEW j \in DOMAIN requests, j < k + 1, requests[j].type = "START_SESSION",
               \A i \in DOMAIN requests : j < i /\ i < k + 1 => requests[i].type # "STOP_SESSION"
        PROVE  OpenAt(t, k, active2)
    <3>1. \A i \in DOMAIN t : j - 1 < i /\ i < k => t[i].type # "STOP_SESSION"
      BY <1>1, <2>2
    <3>2. CASE j = 1
      <4>1. active2
        BY <1>1, <1>2, <2>2, <3>2
      <4>2. \A i \in DOMAIN t : i < k => t[i].type # "STOP_SESSION"
        BY <1>1, <3>1, <3>2
      <4>3. QED
        BY <4>1, <4>2 DEF OpenAt
    <3>3. CASE j # 1
      <4>1. j - 1 \in DOMAIN t /\ j - 1 < k /\ t[j - 1].type = "START_SESSION"
        BY <1>1, <2>2, <3>3
      <4>2. QED
        BY <3>1, <4>1 DEF OpenAt
    <3>4. QED
      BY <3>2, <3>3
  <2>3. QED
    BY <1>4, <2>1, <2>2 DEF OpenAt
<1>5. ASSUME OpenAt(t, k, active2)
      PROVE  OpenAt(requests, k + 1, active)
  <2>1. CASE active2 /\ \A i \in DOMAIN t : i < k => t[i].type # "STOP_SESSION"
    <3>1. \A i \in DOMAIN requests : 1 < i /\ i < k + 1 => requests[i].type # "STOP_SESSION"
      BY <1>1, <1>3, <2>1
    <3>2. CASE q.type = "START_SESSION"
      BY <1>1, <1>3, <3>1, <3>2 DEF OpenAt
    <3>3. CASE q.type # "STOP_SESSION" /\ active
      <4>1. \A i \in DOMAIN requests : i < k + 1 => requests[i].type # "STOP_SESSION"
        BY <1>1, <3>1, <3>3
      <4>2. QED
        BY <3>3, <4>1 DEF OpenAt
    <3>4. QED
      BY <1>2, <2>1, <3>2, <3>3
  <2>2. ASSUME NEW j \in DOMAIN t, j < k, t[j].type = "START_SESSION",
               \A i \in DOMAIN t : j < i /\ i < k => t[i].type # "STOP_SESSION"
        PROVE  OpenAt(requests, k + 1, active)
    <3>1. j + 1 \in DOMAIN requests /\ j + 1 < k + 1 /\ requests[j + 1].type = "START_SESSION"
      BY <1>1, <2>2
    <3>2. \A i \in DOMAIN requests : j + 1 < i /\ i < k + 1 => requests[i].type # "STOP_SESSION"
      <4> SUFFICES ASSUME NEW i \in DOMAIN requests, j + 1 < i, i < k + 1
                   PROVE  requests[i].type # "STOP_SESSION"
        OBVIOUS
      <4>1. i - 1 \in DOMAIN t /\ j < i - 1 /\ i - 1 < k /\ t[i - 1] = requests[(i - 1) + 1]
        BY <1>1, <2>2
      <4>2. (i - 1) + 1 = i
        BY <1>1
      <4>3. QED
        BY <2>2, <4>1, <4>2
    <3>3. QED
      BY <3>1, <3>2 DEF OpenAt
  <2>3. QED
    BY <1>5, <2>1, <2>2 DEF OpenAt
<1>6. QED
  BY <1>4, <1>5 DEF t

\* The first request handled: the others find what they found.
LEMMA WelcomeTail ==
    ASSUME NEW requests \in Seq(Requests), requests # <<>>, NEW next, NEW lost,
           NEW active, NEW active2, Welcome(requests, active, next, lost),
           active2 <=> \/ Head(requests).type = "START_SESSION"
                       \/ Head(requests).type # "STOP_SESSION" /\ active
    PROVE  Welcome(Tail(requests), active2, next, lost)
<1> DEFINE t == Tail(requests)
           n == Len(requests)
<1>1. /\ n \in Nat \ {0} /\ Len(t) = n - 1
      /\ DOMAIN requests = 1..n /\ DOMAIN t = 1..(n - 1)
      /\ \A i \in DOMAIN t : t[i] = requests[i + 1]
  BY TailPlaces
<1>2. ASSUME NEW k \in 1..n
      PROVE  OpenAt(t, k, active2) <=> OpenAt(requests, k + 1, active)
  BY <1>2, OpenTail
<1> HIDE DEF t, n
<1>3. \A k \in DOMAIN t : k + 1 \in DOMAIN requests /\ k \in 1..n /\ t[k] = requests[k + 1]
  BY <1>1
<1>4. \A k \in DOMAIN t : t[k].type = "USER_SPEECH_END" =>
          (t[k].question \notin lost <=> OpenAt(t, k, active2))
  BY <1>2, <1>3 DEF Welcome
<1>5. \A k \in DOMAIN t :
          /\ t[k].type = "TEXT_INPUT" => t[k].question \notin lost
          /\ t[k].type \notin AskTypes => t[k].question = 0
  BY <1>3 DEF Welcome
<1>6. next <=> OpenAt(t, Len(t) + 1, active2)
  <2>1. next <=> OpenAt(requests, n + 1, active)
    BY DEF Welcome, n
  <2>2. n \in 1..n /\ Len(t) + 1 = n
    BY <1>1
  <2>3. QED
    BY <1>2, <2>1, <2>2
<1>7. Welcome(t, active2, next, lost)
  BY <1>4, <1>5, <1>6 DEF Welcome
<1>8. QED
  BY <1>7 DEF t

\* The way of a question: in the order asked, from the requests to the audio on
\* the wire to the log, each at one place.
InOrder(log, wire, requests, asked) ==
    /\ \A i \in DOMAIN requests :
           requests[i].type \in AskTypes => requests[i].question \in 1..asked
    /\ \A i \in DOMAIN wire : wire[i].type = "AUDIO_READY" => wire[i].answers \in 1..asked
    /\ \A i \in DOMAIN log : log[i].audio \in 0..asked
    /\ \A i, j \in DOMAIN requests :
           i < j /\ requests[i].type \in AskTypes /\ requests[j].type \in AskTypes
               => requests[i].question < requests[j].question
    /\ \A i, j \in DOMAIN wire :
           i < j /\ wire[i].type = "AUDIO_READY" /\ wire[j].type = "AUDIO_READY"
               => wire[i].answers < wire[j].answers
    /\ \A i \in DOMAIN wire, j \in DOMAIN requests :
           wire[i].type = "AUDIO_READY" /\ requests[j].type \in AskTypes
               => wire[i].answers < requests[j].question
    /\ \A i \in DOMAIN log, j \in DOMAIN requests :
           requests[j].type \in AskTypes => log[i].audio < requests[j].question
    /\ \A i \in DOMAIN log, j \in DOMAIN wire :
           wire[j].type = "AUDIO_READY" => log[i].audio < wire[j].answers
    /\ \A i, j \in DOMAIN log : log[i].audio # 0 /\ log[i].audio = log[j].audio => i = j

\* None but the questions spoken outside a session got lost.
Accounted(log, wire, requests, asked, lost) ==
    \A n \in (1..asked) \ lost :
        \/ \E i \in DOMAIN requests : requests[i].type \in AskTypes /\ requests[i].question = n
        \/ \E i \in DOMAIN wire : wire[i].type = "AUDIO_READY" /\ wire[i].answers = n
        \/ \E i \in DOMAIN log : log[i].audio = n

Flow(log, wire, requests, asked, lost) ==
    InOrder(log, wire, requests, asked) /\ Accounted(log, wire, requests, asked, lost)

\* The messages of a log offer what they did, and new ones offer nothing.
KeepsAudio(log, new) ==
    /\ \A i \in DOMAIN log : i \in DOMAIN new /\ new[i].audio = log[i].audio
    /\ \A i \in DOMAIN new : i \in DOMAIN log \/ new[i].audio = 0

\* A question asked.
LEMMA FlowAsked ==
    ASSUME NEW log, NEW wire, NEW requests \in Seq(Requests), NEW asked \in Nat, NEW lost,
           Flow(log, wire, requests, asked, lost), NEW q \in Requests,
           q.type \in AskTypes, q.question = asked + 1,
           NEW new, KeepsAudio(log, new)
    PROVE  Flow(new, wire, Append(requests, q), asked + 1, lost)
<1> DEFINE more == Append(requests, q)
           n == Len(requests)
<1>1. /\ n \in Nat
      /\ DOMAIN requests = 1..n /\ DOMAIN more = 1..(n + 1)
      /\ \A i \in DOMAIN requests : more[i] = requests[i]
      /\ more[n + 1] = q
  BY AppendPlaces
<1> HIDE DEF more, n
<1>2. /\ \A i \in DOMAIN more :
             \/ i \in DOMAIN requests /\ more[i] = requests[i]
             \/ i = n + 1 /\ more[i].question = asked + 1
      /\ \A i \in DOMAIN requests : i < n + 1
  BY <1>1
<1>3. /\ 1..asked \subseteq 1..(asked + 1) /\ asked + 1 \in 1..(asked + 1)
      /\ 0..asked \subseteq 0..(asked + 1) /\ 0 \in 0..asked
      /\ \A k \in 0..asked : k < asked + 1
      /\ \A k \in 1..asked : k \in 0..asked /\ 0 < k
      /\ \A k \in 1..(asked + 1) : k \in 1..asked \/ k = asked + 1
      /\ DOMAIN more \subseteq Nat /\ n + 1 \in Nat
  BY <1>1
<1>4. \A i \in DOMAIN more : more[i].type \in AskTypes => more[i].question \in 1..(asked + 1)
  BY <1>2, <1>3 DEF Flow, InOrder
<1>5. \A i, j \in DOMAIN more :
          i < j /\ more[i].type \in AskTypes /\ more[j].type \in AskTypes
              => more[i].question < more[j].question
  <2> SUFFICES ASSUME NEW i \in DOMAIN more, NEW j \in DOMAIN more, i < j,
                      more[i].type \in AskTypes, more[j].type \in AskTypes
               PROVE  more[i].question < more[j].question
    OBVIOUS
  <2>1. i \in DOMAIN requests /\ more[i] = requests[i]
    BY <1>1, <1>2
  <2>2. CASE j \in DOMAIN requests /\ more[j] = requests[j]
    BY <2>1, <2>2 DEF Flow, InOrder
  <2>3. CASE more[j].question = asked + 1
    <3>1. more[i].question \in 1..asked
      BY <2>1 DEF Flow, InOrder
    <3>2. QED
      BY <1>3, <2>3, <3>1
  <2>4. QED
    BY <1>2, <2>2, <2>3
<1>6. \A i \in DOMAIN wire, j \in DOMAIN more :
          wire[i].type = "AUDIO_READY" /\ more[j].type \in AskTypes
              => wire[i].answers < more[j].question
  BY <1>2, <1>3 DEF Flow, InOrder
<1>7. \A i \in DOMAIN new : \/ i \in DOMAIN log /\ new[i].audio = log[i].audio
                            \/ new[i].audio = 0
  BY DEF KeepsAudio
<1>8. \A i \in DOMAIN new : new[i].audio \in 0..asked
  BY <1>3, <1>7 DEF Flow, InOrder
<1>9. \A i \in DOMAIN new, j \in DOMAIN more :
          more[j].type \in AskTypes => new[i].audio < more[j].question
  <2> SUFFICES ASSUME NEW i \in DOMAIN new, NEW j \in DOMAIN more, more[j].type \in AskTypes
               PROVE  new[i].audio < more[j].question
    OBVIOUS
  <2>1. CASE j \in DOMAIN requests /\ more[j] = requests[j]
    <3>1. requests[j].question \in 1..asked
      BY <2>1 DEF Flow, InOrder
    <3>2. new[i].audio = 0 => new[i].audio < more[j].question
      BY <1>3, <2>1, <3>1
    <3>3. QED
      BY <1>7, <2>1, <3>2 DEF Flow, InOrder
  <2>2. CASE more[j].question = asked + 1
    BY <1>3, <1>8, <2>2
  <2>3. QED
    BY <1>2, <2>1, <2>2
<1>10. \A i \in DOMAIN new, j \in DOMAIN wire :
           wire[j].type = "AUDIO_READY" => new[i].audio < wire[j].answers
  BY <1>3, <1>7 DEF Flow, InOrder
<1>11. \A i, j \in DOMAIN new : new[i].audio # 0 /\ new[i].audio = new[j].audio => i = j
  BY <1>7 DEF Flow, InOrder
<1>12. InOrder(new, wire, more, asked + 1)
  BY <1>3, <1>4, <1>5, <1>6, <1>8, <1>9, <1>10, <1>11 DEF Flow, InOrder
<1>13. Accounted(new, wire, more, asked + 1, lost)
  <2> SUFFICES ASSUME NEW k \in (1..(asked + 1)) \ lost
               PROVE  \/ \E i \in DOMAIN more : more[i].type \in AskTypes /\ more[i].question = k
                      \/ \E i \in DOMAIN wire : wire[i].type = "AUDIO_READY" /\ wire[i].answers = k
                      \/ \E i \in DOMAIN new : new[i].audio = k
    BY DEF Accounted
  <2>1. CASE k = asked + 1
    BY <1>1, <2>1
  <2>2. CASE k \in (1..asked) \ lost
    BY <1>1, <2>2 DEF Flow, Accounted, KeepsAudio
  <2>3. QED
    BY <1>3, <2>1, <2>2
<1>14. QED
  BY <1>12, <1>13 DEF Flow, more

\* A request that asks nothing was sent.
LEMMA FlowSent ==
    ASSUME NEW log, NEW wire, NEW requests \in Seq(Requests), NEW asked \in Nat, NEW lost,
           Flow(log, wire, requests, asked, lost), NEW q \in Requests, q.type \notin AskTypes
    PROVE  Flow(log, wire, Append(requests, q), asked, lost)
<1> DEFINE more == Append(requests, q)
<1>1. /\ \A i \in DOMAIN requests : i \in DOMAIN more /\ more[i] = requests[i]
      /\ \A i \in DOMAIN more :
             \/ i \in DOMAIN requests /\ more[i] = requests[i]
             \/ more[i].type \notin AskTypes
  BY AppendPlaces
<1> HIDE DEF more
<1>2. InOrder(log, wire, more, asked)
  BY <1>1 DEF Flow, InOrder
<1>3. Accounted(log, wire, more, asked, lost)
  BY <1>1 DEF Flow, Accounted
<1>4. QED
  BY <1>2, <1>3 DEF Flow, more

\* A question was handled, and its reply written.
LEMMA FlowReplied ==
    ASSUME NEW log, NEW wire \in Seq(WireEvents), NEW asked \in Nat, NEW lost,
           NEW requests \in Seq(Requests), requests # <<>>,
           Flow(log, wire, requests, asked, lost),
           NEW q, q = Head(requests), q.type \in AskTypes, NEW g,
           ReplyOnWire(g, q.question) \in Seq(WireEvents)
    PROVE  Flow(log, wire \o ReplyOnWire(g, q.question), Tail(requests), asked, lost)
<1> DEFINE w == ReplyOnWire(g, q.question)
           new == wire \o w
           t == Tail(requests)
<1>1. /\ 1 \in DOMAIN requests /\ requests[1] = q
      /\ \A i \in DOMAIN t : i + 1 \in DOMAIN requests /\ t[i] = requests[i + 1]
      /\ \A i \in DOMAIN requests : i = 1 \/ (i - 1 \in DOMAIN t /\ t[i - 1] = requests[i])
      /\ \A i \in DOMAIN t : 1 < i + 1
      /\ DOMAIN t \subseteq Nat
  <2>1. /\ Len(requests) \in Nat \ {0}
        /\ DOMAIN requests = 1..Len(requests) /\ DOMAIN t = 1..(Len(requests) - 1)
        /\ \A i \in DOMAIN t : t[i] = requests[i + 1]
        /\ q = requests[1]
    BY TailPlaces
  <2> DEFINE n == Len(requests)
  <2> HIDE DEF t, n
  <2>2. \A i \in 1..(n - 1) : i + 1 \in 1..n /\ 1 < i + 1
    BY <2>1 DEF n
  <2>3. \A i \in 1..n : i = 1 \/ (i - 1 \in 1..(n - 1) /\ (i - 1) + 1 = i)
    BY <2>1 DEF n
  <2>4. 1 \in 1..n /\ 1..(n - 1) \subseteq Nat
    BY <2>1 DEF n
  <2>5. \A i \in DOMAIN requests : i = 1 \/ (i - 1 \in DOMAIN t /\ t[i - 1] = requests[i])
    BY <2>1, <2>3 DEF n
  <2>6. QED
    BY <2>1, <2>2, <2>4, <2>5 DEF n
<1>2. /\ \A i \in DOMAIN new :
             \/ i \in DOMAIN wire /\ new[i] = wire[i]
             \/ /\ new[i].type = "AUDIO_READY" => new[i].answers = q.question /\ i = Len(wire) + 2
                /\ \A j \in DOMAIN wire : j < i
      /\ \A i \in DOMAIN wire : i \in DOMAIN new /\ new[i] = wire[i]
      /\ Len(wire) + 2 \in DOMAIN new
      /\ new[Len(wire) + 2].type = "AUDIO_READY" /\ new[Len(wire) + 2].answers = q.question
      /\ DOMAIN new \subseteq Nat
  <2>1. /\ DOMAIN w = 1..4 /\ Len(w) = 4
        /\ w[1].type = "ASSISTANT_SPEAKING" /\ w[3].type = "METRICS_UPDATE"
        /\ w[4].type = "ASSISTANT_STOPPED"
        /\ w[2].type = "AUDIO_READY" /\ w[2].answers = q.question
    BY DEF ReplyOnWire, On
  <2>2. /\ Len(wire) \in Nat /\ DOMAIN wire = 1..Len(wire)
        /\ Len(new) = Len(wire) + Len(w) /\ DOMAIN new = 1..Len(new)
        /\ \A i \in 1..Len(new) :
               new[i] = IF i <= Len(wire) THEN wire[i] ELSE w[i - Len(wire)]
    BY LenProperties, ConcatProperties
  <2> HIDE DEF new, w
  <2>3. \A i \in DOMAIN wire : i \in DOMAIN new /\ new[i] = wire[i]
    BY <2>1, <2>2
  <2>4. Len(wire) + 2 \in DOMAIN new /\ new[Len(wire) + 2] = w[2]
    <3> DEFINE n == Len(wire)
               k == n + 2
    <3>1. k \in 1..Len(new) /\ ~(k <= n) /\ k - n = 2
      BY <2>1, <2>2
    <3> HIDE DEF n, k
    <3>2. new[k] = IF k <= n THEN wire[k] ELSE w[k - n]
      BY <2>2, <3>1 DEF n
    <3>3. new[k] = w[2]
      BY <3>1, <3>2
    <3>4. QED
      BY <2>2, <3>1, <3>3 DEF n, k
  <2>5. ASSUME NEW i \in DOMAIN new, i \notin DOMAIN wire
        PROVE  /\ new[i].type = "AUDIO_READY" => new[i].answers = q.question /\ i = Len(wire) + 2
               /\ \A j \in DOMAIN wire : j < i
    <3>1. i - Len(wire) \in 1..4 /\ new[i] = w[i - Len(wire)]
      BY <2>1, <2>2, <2>5
    <3>2. \/ i - Len(wire) = 1 \/ i - Len(wire) = 2
          \/ i - Len(wire) = 3 \/ i - Len(wire) = 4
      BY <3>1
    <3>3. new[i].type = "AUDIO_READY" => i - Len(wire) = 2
      BY <2>1, <3>1, <3>2
    <3>4. i - Len(wire) = 2 => i = Len(wire) + 2
      BY <2>2, <2>5
    <3>5. \A j \in DOMAIN wire : j < i
      BY <2>2, <2>5
    <3>6. QED
      BY <2>1, <3>1, <3>3, <3>4, <3>5
  <2>6. QED
    BY <2>1, <2>2, <2>3, <2>4, <2>5
<1> HIDE DEF new, t
<1>3. /\ q.question \in 1..asked
      /\ \A i \in DOMAIN t : t[i].type \in AskTypes => q.question < t[i].question
      /\ \A i \in DOMAIN wire : wire[i].type = "AUDIO_READY" => wire[i].answers < q.question
      /\ \A i \in DOMAIN log : log[i].audio < q.question
  BY <1>1 DEF Flow, InOrder
<1>4. \A i \in DOMAIN new : new[i].type = "AUDIO_READY" => new[i].answers \in 1..asked
  BY <1>2, <1>3 DEF Flow, InOrder
<1>5. \A i, j \in DOMAIN t :
          i < j /\ t[i].type \in AskTypes /\ t[j].type \in AskTypes
              => t[i].question < t[j].question
  <2>1. \A i, j \in DOMAIN t : i < j => i + 1 < j + 1
    BY <1>1
  <2>2. QED
    BY <1>1, <2>1 DEF Flow, InOrder
<1>6. \A i, j \in DOMAIN new :
          i < j /\ new[i].type = "AUDIO_READY" /\ new[j].type = "AUDIO_READY"
              => new[i].answers < new[j].answers
  <2> SUFFICES ASSUME NEW i \in DOMAIN new, NEW j \in DOMAIN new, i < j,
                      new[i].type = "AUDIO_READY", new[j].type = "AUDIO_READY"
               PROVE  new[i].answers < new[j].answers
    OBVIOUS
  <2>1. CASE j \in DOMAIN wire /\ new[j] = wire[j]
    <3>1. i \in DOMAIN wire /\ new[i] = wire[i]
      BY <1>2, <2>1
    <3>2. QED
      BY <2>1, <3>1 DEF Flow, InOrder
  <2>2. CASE j = Len(wire) + 2 /\ new[j].answers = q.question
    <3>1. i # Len(wire) + 2
      BY <1>2, <2>2
    <3>2. i \in DOMAIN wire /\ new[i] = wire[i]
      BY <1>2, <3>1
    <3>3. QED
      BY <1>3, <2>2, <3>2
  <2>3. QED
    BY <1>2, <2>1, <2>2
<1>7. \A i \in DOMAIN new, j \in DOMAIN t :
          new[i].type = "AUDIO_READY" /\ t[j].type \in AskTypes
              => new[i].answers < t[j].question
  <2>1. \A i \in DOMAIN wire, j \in DOMAIN t :
            wire[i].type = "AUDIO_READY" /\ t[j].type \in AskTypes
                => wire[i].answers < t[j].question
    BY <1>1 DEF Flow, InOrder
  <2>2. \A i \in DOMAIN new : new[i].type = "AUDIO_READY"
            => (i \in DOMAIN wire /\ new[i] = wire[i]) \/ new[i].answers = q.question
    BY <1>2
  <2>3. QED
    BY <1>3, <2>1, <2>2
<1>8. \A i \in DOMAIN log, j \in DOMAIN new :
          new[j].type = "AUDIO_READY" => log[i].audio < new[j].answers
  BY <1>2, <1>3 DEF Flow, InOrder
<1>9. InOrder(log, new, t, asked)
  BY <1>1, <1>4, <1>5, <1>6, <1>7, <1>8 DEF Flow, InOrder
<1>10. Accounted(log, new, t, asked, lost)
  <2> SUFFICES ASSUME NEW k \in (1..asked) \ lost
               PROVE  \/ \E i \in DOMAIN t : t[i].type \in AskTypes /\ t[i].question = k
                      \/ \E i \in DOMAIN new : new[i].type = "AUDIO_READY" /\ new[i].answers = k
                      \/ \E i \in DOMAIN log : log[i].audio = k
    BY DEF Accounted
  <2>1. CASE \E i \in DOMAIN requests : requests[i].type \in AskTypes /\ requests[i].question = k
    BY <1>1, <1>2, <2>1
  <2>2. CASE \E i \in DOMAIN wire : wire[i].type = "AUDIO_READY" /\ wire[i].answers = k
    BY <1>2, <2>2
  <2>3. QED
    BY <2>1, <2>2 DEF Flow, Accounted
<1>11. QED
  BY <1>9, <1>10 DEF Flow, new, t

\* A request that asks nothing, or was spoken outside a session, was handled.
LEMMA FlowHandled ==
    ASSUME NEW log, NEW wire, NEW asked \in Nat, NEW lost,
           NEW requests \in Seq(Requests), requests # <<>>,
           Flow(log, wire, requests, asked, lost),
           Head(requests).type \in AskTypes => Head(requests).question \in lost
    PROVE  Flow(log, wire, Tail(requests), asked, lost)
<1> DEFINE t == Tail(requests)
<1>1. /\ Len(requests) \in Nat \ {0}
      /\ DOMAIN requests = 1..Len(requests) /\ DOMAIN t = 1..(Len(requests) - 1)
      /\ \A i \in DOMAIN t : t[i] = requests[i + 1]
      /\ requests[1].type \in AskTypes => requests[1].question \in lost
  BY TailPlaces
<1> HIDE DEF t
<1>2. /\ \A i \in DOMAIN t : i + 1 \in DOMAIN requests /\ t[i] = requests[i + 1]
      /\ \A i \in DOMAIN requests : i = 1 \/ (i - 1 \in DOMAIN t /\ t[i - 1] = requests[i])
      /\ \A i, j \in DOMAIN t : i < j => i + 1 < j + 1
  BY <1>1
<1>3. InOrder(log, wire, t, asked)
  BY <1>2 DEF Flow, InOrder
<1>4. Accounted(log, wire, t, asked, lost)
  <2> SUFFICES ASSUME NEW n \in (1..asked) \ lost
               PROVE  \/ \E i \in DOMAIN t : t[i].type \in AskTypes /\ t[i].question = n
                      \/ \E i \in DOMAIN wire :
                             wire[i].type = "AUDIO_READY" /\ wire[i].answers = n
                      \/ \E i \in DOMAIN log : log[i].audio = n
    BY DEF Accounted
  <2>1. ASSUME NEW i \in DOMAIN requests,
               requests[i].type \in AskTypes, requests[i].question = n
        PROVE  \E j \in DOMAIN t : t[j].type \in AskTypes /\ t[j].question = n
    BY <1>1, <1>2, <2>1
  <2>2. QED
    BY <2>1 DEF Flow, Accounted
<1>5. QED
  BY <1>3, <1>4 DEF Flow, t

\* A refusal written disturbs nothing.
LEMMA FlowRefused ==
    ASSUME NEW log, NEW wire \in Seq(WireEvents), NEW asked \in Nat, NEW lost,
           NEW requests, Flow(log, wire, requests, asked, lost),
           NEW e \in WireEvents, e.type = "ERROR"
    PROVE  Flow(log, Append(wire, e), requests, asked, lost)
<1> DEFINE more == Append(wire, e)
<1>1. /\ \A i \in DOMAIN wire : i \in DOMAIN more /\ more[i] = wire[i]
      /\ \A i \in DOMAIN more :
             \/ i \in DOMAIN wire /\ more[i] = wire[i]
             \/ more[i].type # "AUDIO_READY"
  BY AppendPlaces
<1> HIDE DEF more
<1>2. InOrder(log, more, requests, asked)
  BY <1>1 DEF Flow, InOrder
<1>3. Accounted(log, more, requests, asked, lost)
  BY <1>1 DEF Flow, Accounted
<1>4. QED
  BY <1>2, <1>3 DEF Flow, more

\* Fewer questions need to be accounted for when more were spoken outside.
LEMMA FlowFewer ==
    ASSUME NEW log, NEW wire, NEW requests, NEW asked, NEW lost, NEW lost2,
           Flow(log, wire, requests, asked, lost), lost \subseteq lost2
    PROVE  Flow(log, wire, requests, asked, lost2)
BY DEF Flow, Accounted

\* An event other than AUDIO_READY was received.
LEMMA FlowReceived ==
    ASSUME NEW log, NEW wire \in Seq(WireEvents), wire # <<>>, NEW asked \in Nat, NEW lost,
           NEW requests, Flow(log, wire, requests, asked, lost),
           Head(wire).type # "AUDIO_READY", NEW new, KeepsAudio(log, new)
    PROVE  Flow(new, Tail(wire), requests, asked, lost)
<1> DEFINE t == Tail(wire)
<1>1. /\ Len(wire) \in Nat \ {0}
      /\ DOMAIN wire = 1..Len(wire) /\ DOMAIN t = 1..(Len(wire) - 1)
      /\ \A i \in DOMAIN t : t[i] = wire[i + 1]
      /\ wire[1].type # "AUDIO_READY"
  BY TailPlaces
<1> HIDE DEF t
<1>2. /\ \A i \in DOMAIN t : i + 1 \in DOMAIN wire /\ t[i] = wire[i + 1]
      /\ \A i \in DOMAIN wire : i = 1 \/ (i - 1 \in DOMAIN t /\ t[i - 1] = wire[i])
      /\ \A i, j \in DOMAIN t : i < j => i + 1 < j + 1
  BY <1>1
<1>3. /\ \A k \in 1..asked : 0 < k
      /\ 0 \in 0..asked
  OBVIOUS
<1>4. \A i \in DOMAIN new : \/ i \in DOMAIN log /\ new[i].audio = log[i].audio
                            \/ new[i].audio = 0
  BY DEF KeepsAudio
<1>5. \A i \in DOMAIN new, j \in DOMAIN requests :
          requests[j].type \in AskTypes => new[i].audio < requests[j].question
  BY <1>3, <1>4 DEF Flow, InOrder
<1>6. \A i \in DOMAIN new, j \in DOMAIN t :
          t[j].type = "AUDIO_READY" => new[i].audio < t[j].answers
  <2> SUFFICES ASSUME NEW i \in DOMAIN new, NEW j \in DOMAIN t, t[j].type = "AUDIO_READY"
               PROVE  new[i].audio < t[j].answers
    OBVIOUS
  <2>1. j + 1 \in DOMAIN wire /\ t[j] = wire[j + 1]
    BY <1>2
  <2>2. t[j].answers \in 1..asked /\ (i \in DOMAIN log => log[i].audio < t[j].answers)
    BY <2>1 DEF Flow, InOrder
  <2>3. QED
    BY <1>3, <1>4, <2>2
<1>7. \A i, j \in DOMAIN new : new[i].audio # 0 /\ new[i].audio = new[j].audio => i = j
  BY <1>4 DEF Flow, InOrder
<1>8. \A i \in DOMAIN new : new[i].audio \in 0..asked
  BY <1>3, <1>4 DEF Flow, InOrder
<1>9. InOrder(new, t, requests, asked)
  BY <1>2, <1>5, <1>6, <1>7, <1>8 DEF Flow, InOrder
<1>10. Accounted(new, t, requests, asked, lost)
  <2>1. \A n : (\E i \in DOMAIN wire : wire[i].type = "AUDIO_READY" /\ wire[i].answers = n)
            => \E i \in DOMAIN t : t[i].type = "AUDIO_READY" /\ t[i].answers = n
    BY <1>1, <1>2
  <2>2. \A n : (\E i \in DOMAIN log : log[i].audio = n) => \E i \in DOMAIN new : new[i].audio = n
    BY DEF KeepsAudio
  <2>3. QED
    BY <2>1, <2>2 DEF Flow, Accounted
<1>11. QED
  BY <1>9, <1>10 DEF Flow, t

\* Audio answers the questions asked in a session, refusals the others.
Sorted(wire, lost) ==
    \A j \in DOMAIN wire :
        /\ wire[j].type = "AUDIO_READY" => wire[j].answers \notin lost
        /\ wire[j].type = "ERROR" => wire[j].answers \in lost \union {0}

\* One message more offers audio, that of question n.
OffersAt(log, new, k, n) ==
    /\ k \in DOMAIN new /\ new[k].audio = n
    /\ DOMAIN new = DOMAIN log \union {k}
    /\ k \in DOMAIN log => log[k].audio = 0
    /\ \A i \in DOMAIN log : i # k => new[i].audio = log[i].audio

\* An AUDIO_READY was received.
LEMMA FlowOffered ==
    ASSUME NEW log, NEW wire \in Seq(WireEvents), wire # <<>>, NEW asked \in Nat, NEW lost,
           NEW requests, Flow(log, wire, requests, asked, lost),
           NEW e, e = Head(wire), e.type = "AUDIO_READY",
           NEW new, NEW k, OffersAt(log, new, k, e.answers)
    PROVE  Flow(new, Tail(wire), requests, asked, lost)
<1> DEFINE t == Tail(wire)
<1>1. /\ Len(wire) \in Nat \ {0}
      /\ DOMAIN wire = 1..Len(wire) /\ DOMAIN t = 1..(Len(wire) - 1)
      /\ \A i \in DOMAIN t : t[i] = wire[i + 1]
      /\ wire[1] = e
  BY TailPlaces
<1> HIDE DEF t
<1>2. /\ 1 \in DOMAIN wire
      /\ \A i \in DOMAIN t : i + 1 \in DOMAIN wire /\ 1 < i + 1 /\ t[i] = wire[i + 1]
      /\ \A i \in DOMAIN wire : i = 1 \/ (i - 1 \in DOMAIN t /\ t[i - 1] = wire[i])
      /\ \A i, j \in DOMAIN t : i < j => i + 1 < j + 1
  BY <1>1
<1>3. /\ e.answers \in 1..asked
      /\ \A j \in DOMAIN t : t[j].type = "AUDIO_READY" => e.answers < t[j].answers
      /\ \A j \in DOMAIN requests : requests[j].type \in AskTypes
             => e.answers < requests[j].question
      /\ \A i \in DOMAIN log : log[i].audio < e.answers
  BY <1>1, <1>2 DEF Flow, InOrder
<1>4. \A i \in DOMAIN new : \/ i \in DOMAIN log /\ i # k /\ new[i].audio = log[i].audio
                            \/ i = k /\ new[i].audio = e.answers
  BY DEF OffersAt
<1>5. /\ 1..asked \subseteq 0..asked
      /\ \A n \in 0..asked : ~(n < n)
  OBVIOUS
<1>6. \A i \in DOMAIN new : new[i].audio \in 0..asked
  BY <1>3, <1>4, <1>5 DEF Flow, InOrder
<1>7. \A i \in DOMAIN new, j \in DOMAIN requests :
          requests[j].type \in AskTypes => new[i].audio < requests[j].question
  BY <1>3, <1>4 DEF Flow, InOrder
<1>8. \A i \in DOMAIN new, j \in DOMAIN t :
          t[j].type = "AUDIO_READY" => new[i].audio < t[j].answers
  BY <1>2, <1>3, <1>4 DEF Flow, InOrder
<1>9. \A i \in DOMAIN log : log[i].audio # e.answers
  BY <1>3, <1>5
<1>10. \A i, j \in DOMAIN new : new[i].audio # 0 /\ new[i].audio = new[j].audio => i = j
  BY <1>4, <1>9 DEF Flow, InOrder
<1>11. InOrder(new, t, requests, asked)
  BY <1>2, <1>6, <1>7, <1>8, <1>10 DEF Flow, InOrder
<1>12. Accounted(new, t, requests, asked, lost)
  <2> SUFFICES ASSUME NEW n \in (1..asked) \ lost
               PROVE  \/ \E i \in DOMAIN requests :
                             requests[i].type \in AskTypes /\ requests[i].question = n
                      \/ \E i \in DOMAIN t : t[i].type = "AUDIO_READY" /\ t[i].answers = n
                      \/ \E i \in DOMAIN new : new[i].audio = n
    BY DEF Accounted
  <2>1. CASE n = e.answers
    BY <2>1 DEF OffersAt
  <2>2. CASE \E i \in DOMAIN wire : wire[i].type = "AUDIO_READY" /\ wire[i].answers = n
    BY <1>1, <1>2, <2>1, <2>2
  <2>3. CASE \E i \in DOMAIN log : log[i].audio = n
    <3>1. PICK i \in DOMAIN log : log[i].audio = n
      BY <2>3
    <3>2. n # 0
      OBVIOUS
    <3>3. i \in DOMAIN new /\ new[i].audio = n
      BY <3>1, <3>2 DEF OffersAt
    <3>4. QED
      BY <3>3
  <2>4. QED
    BY <2>2, <2>3 DEF Flow, Accounted
<1>13. QED
  BY <1>11, <1>12 DEF Flow, t

-----------------------------------------------------------------------------
(* A reply on the wire *)

\* The messages that wait for audio.
Pending(log) == {i \in DOMAIN log : log[i].phase = "pending"}

\* A SPEAKING on the wire is followed by its AUDIO_READY and, later, by a
\* STOPPED; an AUDIO_READY follows its SPEAKING, which once received left a
\* message that waits for it, the only one with a generation that waits.
Whole(log, wire) ==
    /\ \A j \in DOMAIN wire : wire[j].type = "ASSISTANT_SPEAKING" =>
           /\ j + 1 \in DOMAIN wire
           /\ wire[j + 1].type = "AUDIO_READY" /\ wire[j + 1].gen = wire[j].gen
           /\ \E i \in DOMAIN wire : j < i /\ wire[i].type = "ASSISTANT_STOPPED"
    /\ \A j \in DOMAIN wire : wire[j].type = "AUDIO_READY" =>
           \/ /\ j = 1
              /\ \E i \in DOMAIN log : log[i].phase = "pending" /\ log[i].gen = wire[j].gen
           \/ j - 1 \in DOMAIN wire /\ wire[j - 1].type = "ASSISTANT_SPEAKING"
    /\ \A i \in DOMAIN log : log[i].phase = "pending" /\ log[i].gen # NoGen =>
           /\ 1 \in DOMAIN wire /\ wire[1].type = "AUDIO_READY"
           /\ wire[1].gen = log[i].gen
    /\ \A i \in DOMAIN log : ~log[i].stale

\* The messages that a question adds have no generation.
LEMMA WholeAsked ==
    ASSUME NEW log, NEW wire, Whole(log, wire), NEW new,
           \A i \in DOMAIN log : i \in DOMAIN new /\ new[i] = log[i],
           \A i \in DOMAIN new : i \in DOMAIN log \/ (new[i].gen = NoGen /\ ~new[i].stale)
    PROVE  Whole(new, wire)
<1>1. \A j \in DOMAIN wire : wire[j].type = "AUDIO_READY" =>
          \/ /\ j = 1
             /\ \E i \in DOMAIN new : new[i].phase = "pending" /\ new[i].gen = wire[j].gen
          \/ j - 1 \in DOMAIN wire /\ wire[j - 1].type = "ASSISTANT_SPEAKING"
  BY DEF Whole
<1>2. QED
  BY <1>1 DEF Whole

\* A reply written is whole.
LEMMA WholeReplied ==
    ASSUME NEW log, NEW wire \in Seq(WireEvents), Whole(log, wire), NEW g, NEW n,
           ReplyOnWire(g, n) \in Seq(WireEvents)
    PROVE  /\ Whole(log, wire \o ReplyOnWire(g, n))
           /\ \A i \in DOMAIN wire : /\ i \in DOMAIN (wire \o ReplyOnWire(g, n))
                                     /\ (wire \o ReplyOnWire(g, n))[i] = wire[i]
<1> DEFINE w == ReplyOnWire(g, n)
           new == wire \o w
           l == Len(wire)
<1>1. /\ DOMAIN w = 1..4 /\ Len(w) = 4
      /\ w[1].type = "ASSISTANT_SPEAKING" /\ w[1].gen = g
      /\ w[2].type = "AUDIO_READY" /\ w[2].gen = g
      /\ w[3].type = "METRICS_UPDATE" /\ w[4].type = "ASSISTANT_STOPPED"
  BY DEF ReplyOnWire, On
<1>2. /\ l \in Nat /\ DOMAIN wire = 1..l
      /\ Len(new) = l + Len(w) /\ DOMAIN new = 1..Len(new)
      /\ \A i \in 1..Len(new) : new[i] = IF i <= l THEN wire[i] ELSE w[i - l]
  BY LenProperties, ConcatProperties
<1> HIDE DEF new, w, l
<1>3. DOMAIN new = 1..(l + 4)
  BY <1>1, <1>2
<1>4. \A i \in DOMAIN wire : i \in DOMAIN new /\ new[i] = wire[i]
  BY <1>2, <1>3
<1>5. \A i \in 1..4 : l + i \in DOMAIN new /\ new[l + i] = w[i]
  <2> SUFFICES ASSUME NEW i \in 1..4 PROVE l + i \in DOMAIN new /\ new[l + i] = w[i]
    OBVIOUS
  <2> DEFINE k == l + i
  <2>1. k \in 1..Len(new) /\ ~(k <= l) /\ k - l = i
    BY <1>2, <1>3
  <2> HIDE DEF k
  <2>2. new[k] = w[i]
    BY <1>2, <2>1
  <2>3. QED
    BY <1>2, <2>1, <2>2 DEF k
<1>6. /\ new[l + 1].type = "ASSISTANT_SPEAKING" /\ new[l + 1].gen = g
      /\ new[l + 2].type = "AUDIO_READY" /\ new[l + 2].gen = g
      /\ new[l + 3].type = "METRICS_UPDATE" /\ new[l + 4].type = "ASSISTANT_STOPPED"
      /\ l + 1 \in DOMAIN new /\ l + 2 \in DOMAIN new /\ l + 4 \in DOMAIN new
  BY <1>1, <1>5
<1>7. \A j \in DOMAIN new :
          \/ j \in DOMAIN wire /\ new[j] = wire[j]
          \/ j = l + 1 \/ j = l + 2 \/ j = l + 3 \/ j = l + 4
  BY <1>2, <1>3, <1>4
<1>8. ASSUME NEW j \in DOMAIN new, new[j].type = "ASSISTANT_SPEAKING"
      PROVE  /\ j + 1 \in DOMAIN new
             /\ new[j + 1].type = "AUDIO_READY" /\ new[j + 1].gen = new[j].gen
             /\ \E i \in DOMAIN new : j < i /\ new[i].type = "ASSISTANT_STOPPED"
  <2>1. CASE j \in DOMAIN wire /\ new[j] = wire[j]
    BY <1>4, <1>8, <2>1 DEF Whole
  <2>2. CASE j = l + 1
    <3>1. j + 1 = l + 2 /\ j < l + 4
      BY <1>2, <2>2
    <3>2. QED
      BY <1>6, <2>2, <3>1
  <2>3. QED
    BY <1>6, <1>7, <1>8, <2>1, <2>2
<1>9. ASSUME NEW j \in DOMAIN new, new[j].type = "AUDIO_READY"
      PROVE  \/ /\ j = 1
                /\ \E i \in DOMAIN log : log[i].phase = "pending" /\ log[i].gen = new[j].gen
             \/ j - 1 \in DOMAIN new /\ new[j - 1].type = "ASSISTANT_SPEAKING"
  <2>1. CASE j \in DOMAIN wire /\ new[j] = wire[j]
    BY <1>4, <1>9, <2>1 DEF Whole
  <2>2. CASE j = l + 2
    <3>1. j - 1 = l + 1
      BY <1>2, <2>2
    <3>2. QED
      BY <1>6, <3>1
  <2>3. QED
    BY <1>6, <1>7, <1>9, <2>1, <2>2
<1>11. \A i \in DOMAIN log : log[i].phase = "pending" /\ log[i].gen # NoGen =>
           /\ 1 \in DOMAIN new /\ new[1].type = "AUDIO_READY"
           /\ new[1].gen = log[i].gen
  BY <1>4 DEF Whole
<1>12. Whole(log, new)
  BY <1>8, <1>9, <1>11 DEF Whole
<1>13. QED
  BY <1>4, <1>12 DEF new, w

\* A refusal behind whole replies leaves them whole.
LEMMA WholeRefused ==
    ASSUME NEW log, NEW wire \in Seq(WireEvents), Whole(log, wire),
           NEW e \in WireEvents, e.type = "ERROR"
    PROVE  Whole(log, Append(wire, e))
<1> DEFINE more == Append(wire, e)
<1>1. /\ \A i \in DOMAIN wire : i \in DOMAIN more /\ more[i] = wire[i]
      /\ \A i \in DOMAIN more :
             \/ i \in DOMAIN wire /\ more[i] = wire[i]
             \/ more[i].type \notin {"AUDIO_READY", "ASSISTANT_SPEAKING"}
  BY AppendPlaces
<1> HIDE DEF more
<1>2. ASSUME NEW j \in DOMAIN more, more[j].type = "ASSISTANT_SPEAKING"
      PROVE  /\ j + 1 \in DOMAIN more
             /\ more[j + 1].type = "AUDIO_READY" /\ more[j + 1].gen = more[j].gen
             /\ \E i \in DOMAIN more : j < i /\ more[i].type = "ASSISTANT_STOPPED"
  <2>1. j \in DOMAIN wire /\ more[j] = wire[j]
    BY <1>1, <1>2
  <2>2. QED
    BY <1>1, <1>2, <2>1 DEF Whole
<1>3. ASSUME NEW j \in DOMAIN more, more[j].type = "AUDIO_READY"
      PROVE  \/ /\ j = 1
                /\ \E i \in DOMAIN log : log[i].phase = "pending" /\ log[i].gen = more[j].gen
             \/ j - 1 \in DOMAIN more /\ more[j - 1].type = "ASSISTANT_SPEAKING"
  <2>1. j \in DOMAIN wire /\ more[j] = wire[j]
    BY <1>1, <1>3
  <2>2. QED
    BY <1>1, <1>3, <2>1 DEF Whole
<1>4. \A i \in DOMAIN log : log[i].phase = "pending" /\ log[i].gen # NoGen =>
           /\ 1 \in DOMAIN more /\ more[1].type = "AUDIO_READY"
           /\ more[1].gen = log[i].gen
  BY <1>1 DEF Whole
<1>5. Whole(log, more)
  BY <1>2, <1>3, <1>4 DEF Whole
<1>6. QED
  BY <1>5 DEF more

\* What is left of whole replies when the first event was received.
LEMMA WholeTail ==
    ASSUME NEW log, NEW wire \in Seq(WireEvents), wire # <<>>, Whole(log, wire)
    PROVE  LET t == Tail(wire) IN
           /\ \A j \in DOMAIN t : t[j].type = "ASSISTANT_SPEAKING" =>
                  /\ j + 1 \in DOMAIN t
                  /\ t[j + 1].type = "AUDIO_READY" /\ t[j + 1].gen = t[j].gen
                  /\ \E i \in DOMAIN t : j < i /\ t[i].type = "ASSISTANT_STOPPED"
           /\ \A j \in DOMAIN t : t[j].type = "AUDIO_READY" =>
                  \/ j = 1 /\ wire[1].type = "ASSISTANT_SPEAKING"
                  \/ j - 1 \in DOMAIN t /\ t[j - 1].type = "ASSISTANT_SPEAKING"
           /\ wire[1].type = "ASSISTANT_SPEAKING" =>
                  /\ 1 \in DOMAIN t /\ t[1].type = "AUDIO_READY" /\ t[1].gen = wire[1].gen
                  /\ \E i \in DOMAIN t : t[i].type = "ASSISTANT_STOPPED"
<1> DEFINE t == Tail(wire)
           n == Len(wire)
<1>1. /\ n \in Nat \ {0}
      /\ DOMAIN wire = 1..n /\ DOMAIN t = 1..(n - 1)
      /\ \A i \in DOMAIN t : t[i] = wire[i + 1]
  BY TailPlaces
<1> HIDE DEF t, n
<1>2. /\ 1 \in DOMAIN wire
      /\ \A i \in DOMAIN t : i + 1 \in DOMAIN wire /\ t[i] = wire[i + 1]
      /\ \A i \in DOMAIN wire : 1 < i => i - 1 \in DOMAIN t /\ t[i - 1] = wire[i]
  BY <1>1
<1>3. ASSUME NEW j \in DOMAIN wire, wire[j].type = "ASSISTANT_SPEAKING"
      PROVE  /\ j \in DOMAIN t /\ t[j].type = "AUDIO_READY" /\ t[j].gen = wire[j].gen
             /\ \E i \in DOMAIN t : j < i + 1 /\ t[i].type = "ASSISTANT_STOPPED"
  <2>1. /\ j + 1 \in DOMAIN wire
        /\ wire[j + 1].type = "AUDIO_READY" /\ wire[j + 1].gen = wire[j].gen
    BY <1>3 DEF Whole
  <2>2. PICK i \in DOMAIN wire : j < i /\ wire[i].type = "ASSISTANT_STOPPED"
    BY <1>3 DEF Whole
  <2>3. j \in DOMAIN t /\ t[j] = wire[j + 1]
    BY <1>1, <2>1
  <2>4. i - 1 \in DOMAIN t /\ t[i - 1] = wire[i] /\ j < (i - 1) + 1
    BY <1>1, <1>2, <2>2
  <2>5. QED
    BY <2>1, <2>2, <2>3, <2>4
<1>4. ASSUME NEW j \in DOMAIN t, t[j].type = "ASSISTANT_SPEAKING"
      PROVE  /\ j + 1 \in DOMAIN t
             /\ t[j + 1].type = "AUDIO_READY" /\ t[j + 1].gen = t[j].gen
             /\ \E i \in DOMAIN t : j < i /\ t[i].type = "ASSISTANT_STOPPED"
  <2>1. j + 1 \in DOMAIN wire /\ wire[j + 1].type = "ASSISTANT_SPEAKING" /\ t[j] = wire[j + 1]
    BY <1>2, <1>4
  <2>2. /\ j + 1 \in DOMAIN t /\ t[j + 1].type = "AUDIO_READY"
        /\ t[j + 1].gen = wire[j + 1].gen
    BY <1>3, <2>1
  <2>3. PICK i \in DOMAIN t : j + 1 < i + 1 /\ t[i].type = "ASSISTANT_STOPPED"
    BY <1>3, <2>1
  <2>4. j < i
    BY <1>1, <2>3
  <2>5. QED
    BY <2>1, <2>2, <2>3, <2>4
<1>5. ASSUME NEW j \in DOMAIN t, t[j].type = "AUDIO_READY"
      PROVE  \/ j = 1 /\ wire[1].type = "ASSISTANT_SPEAKING"
             \/ j - 1 \in DOMAIN t /\ t[j - 1].type = "ASSISTANT_SPEAKING"
  <2>1. j + 1 \in DOMAIN wire /\ wire[j + 1].type = "AUDIO_READY" /\ j + 1 # 1
    BY <1>1, <1>2, <1>5
  <2>2. (j + 1) - 1 \in DOMAIN wire /\ wire[(j + 1) - 1].type = "ASSISTANT_SPEAKING"
    BY <2>1 DEF Whole
  <2>3. (j + 1) - 1 = j
    BY <1>1
  <2>4. wire[j].type = "ASSISTANT_SPEAKING"
    BY <2>2, <2>3
  <2>5. j = 1 \/ (j - 1 \in DOMAIN t /\ t[j - 1] = wire[j])
    BY <1>1, <1>2
  <2>6. QED
    BY <2>4, <2>5
<1>6. wire[1].type = "ASSISTANT_SPEAKING" =>
          /\ 1 \in DOMAIN t /\ t[1].type = "AUDIO_READY" /\ t[1].gen = wire[1].gen
          /\ \E i \in DOMAIN t : t[i].type = "ASSISTANT_STOPPED"
  BY <1>2, <1>3
<1>7. QED
  BY <1>4, <1>5, <1>6 DEF t

\* A SPEAKING received: its generation is the one that waits.
LEMMA WholeSpeaks ==
    ASSUME NEW log \in Seq(Message), NEW wire \in Seq(WireEvents), wire # <<>>,
           Whole(log, wire), NEW e, e = Head(wire), e.type = "ASSISTANT_SPEAKING",
           NEW new, Speaks(log, new, e)
    PROVE  /\ Whole(new, Tail(wire))
           /\ KeepsAudio(log, new)
           /\ \/ /\ \A i \in DOMAIN log : log[i].phase # "pending"
                 /\ \E k : Pending(new) = {k}
              \/ Pending(new) = Pending(log)
<1> DEFINE t == Tail(wire)
<1>1. /\ e = wire[1] /\ wire[1].type = "ASSISTANT_SPEAKING"
      /\ \A i \in DOMAIN log : log[i] \in Message
  BY TailPlaces, LenProperties
<1>2. /\ \A j \in DOMAIN t : t[j].type = "ASSISTANT_SPEAKING" =>
             /\ j + 1 \in DOMAIN t
             /\ t[j + 1].type = "AUDIO_READY" /\ t[j + 1].gen = t[j].gen
             /\ \E i \in DOMAIN t : j < i /\ t[i].type = "ASSISTANT_STOPPED"
      /\ \A j \in DOMAIN t : t[j].type = "AUDIO_READY" =>
             j = 1 \/ (j - 1 \in DOMAIN t /\ t[j - 1].type = "ASSISTANT_SPEAKING")
      /\ 1 \in DOMAIN t /\ t[1].type = "AUDIO_READY" /\ t[1].gen = e.gen
  <2>1. 1 \in DOMAIN t /\ t[1].type = "AUDIO_READY" /\ t[1].gen = wire[1].gen
    BY <1>1, WholeTail
  <2>2. \A j \in DOMAIN t : t[j].type = "AUDIO_READY" =>
            j = 1 \/ (j - 1 \in DOMAIN t /\ t[j - 1].type = "ASSISTANT_SPEAKING")
    BY WholeTail
  <2>3. \A j \in DOMAIN t : t[j].type = "ASSISTANT_SPEAKING" =>
            /\ j + 1 \in DOMAIN t
            /\ t[j + 1].type = "AUDIO_READY" /\ t[j + 1].gen = t[j].gen
            /\ \E i \in DOMAIN t : j < i /\ t[i].type = "ASSISTANT_STOPPED"
    BY WholeTail
  <2> HIDE DEF t
  <2>4. QED
    BY <1>1, <2>1, <2>2, <2>3
<1> HIDE DEF t
<1>3. \A i \in DOMAIN log : log[i].phase = "pending" => log[i].gen = NoGen
  BY <1>1 DEF Whole
<1>4. PICK k, m :
          /\ Puts(log, new, k, m)
          /\ m.phase = "pending" /\ m.gen = e.gen /\ ~m.stale
          /\ \/ k \notin DOMAIN log /\ m.audio = 0
                /\ \A i \in DOMAIN log : log[i].phase # "pending"
             \/ k \in DOMAIN log /\ m.audio = log[k].audio /\ log[k].phase = "pending"
  <2>1. CASE /\ \A i \in DOMAIN log : log[i].phase # "pending"
             /\ Len(log) + 1 \notin DOMAIN log
             /\ Puts(log, new, Len(log) + 1, [PendingAssistant(0) EXCEPT !.gen = e.gen])
    <3> DEFINE m == [PendingAssistant(0) EXCEPT !.gen = e.gen]
    <3>1. m.phase = "pending" /\ m.gen = e.gen /\ ~m.stale /\ m.audio = 0
      BY DEF PendingAssistant, User
    <3> HIDE DEF m
    <3>2. Puts(log, new, Len(log) + 1, m)
      BY <2>1 DEF m
    <3>3. QED
      BY <2>1, <3>1, <3>2
  <2>2. ASSUME NEW k \in DOMAIN log, log[k].phase = "pending",
               Puts(log, new, k, [log[k] EXCEPT !.gen = e.gen])
        PROVE  \E m : /\ Puts(log, new, k, m)
                      /\ m.phase = "pending" /\ m.gen = e.gen /\ ~m.stale
                      /\ m.audio = log[k].audio
    <3> DEFINE m == [log[k] EXCEPT !.gen = e.gen]
    <3>1. /\ m.phase = "pending" /\ m.gen = e.gen /\ m.audio = log[k].audio
          /\ m.stale = log[k].stale
      BY <1>1, <2>2 DEF Message
    <3>2. ~m.stale
      BY <3>1 DEF Whole
    <3> HIDE DEF m
    <3>3. Puts(log, new, k, m)
      BY <2>2 DEF m
    <3>4. QED
      BY <3>1, <3>2, <3>3
  <2>3. QED
    BY <2>1, <2>2 DEF Speaks
<1>5. /\ k \in DOMAIN new /\ new[k] = m
      /\ \A i \in DOMAIN new : i = k \/ (i \in DOMAIN log /\ new[i] = log[i])
      /\ \A i \in DOMAIN log : i \in DOMAIN new /\ (i = k \/ new[i] = log[i])
  BY <1>4 DEF Puts
<1>6. KeepsAudio(log, new)
  BY <1>4, <1>5 DEF KeepsAudio
<1>7. Whole(new, t)
  <2>1. \A j \in DOMAIN t : t[j].type = "AUDIO_READY" =>
            \/ j = 1 /\ \E i \in DOMAIN new : new[i].phase = "pending" /\ new[i].gen = t[j].gen
            \/ j - 1 \in DOMAIN t /\ t[j - 1].type = "ASSISTANT_SPEAKING"
    BY <1>2, <1>4, <1>5
  <2>2. \A i \in DOMAIN new : new[i].phase = "pending" /\ new[i].gen # NoGen =>
            new[i].gen = e.gen
    BY <1>3, <1>4, <1>5
  <2>3. \A i \in DOMAIN new : ~new[i].stale
    BY <1>4, <1>5 DEF Whole
  <2>4. QED
    BY <1>2, <2>1, <2>2, <2>3 DEF Whole
<1>8. CASE k \notin DOMAIN log /\ \A i \in DOMAIN log : log[i].phase # "pending"
  <2>1. Pending(new) = {k}
    BY <1>4, <1>5, <1>8 DEF Pending
  <2>2. QED
    BY <1>6, <1>7, <1>8, <2>1 DEF t
<1>9. CASE k \in DOMAIN log /\ log[k].phase = "pending"
  <2>1. Pending(new) = Pending(log)
    BY <1>4, <1>5, <1>9 DEF Pending
  <2>2. QED
    BY <1>6, <1>7, <2>1 DEF t
<1>10. QED
  BY <1>4, <1>8, <1>9

\* An AUDIO_READY received: the message that waits for it offers it, and no
\* other does.
OffersOne(log, new, n) ==
    \E k \in Pending(log) : OffersAt(log, new, k, n) /\ Pending(new) = Pending(log) \ {k}

LEMMA WholeOffers ==
    ASSUME NEW log \in Seq(Message), NEW wire \in Seq(WireEvents), wire # <<>>,
           LogOK(log), Whole(log, wire),
           \A i, j \in DOMAIN log : log[i].gen # NoGen /\ log[i].gen = log[j].gen => i = j,
           NEW e, e = Head(wire), e.type = "AUDIO_READY", e.gen # NoGen,
           NEW new, Offers(log, new, e)
    PROVE  Whole(new, Tail(wire)) /\ OffersOne(log, new, e.answers)
<1> DEFINE t == Tail(wire)
<1>1. /\ e = wire[1] /\ 1 \in DOMAIN wire /\ 0 \notin DOMAIN wire
      /\ \A i \in DOMAIN log : log[i] \in Message /\ MessageOK(log[i])
  BY TailPlaces, LenProperties DEF LogOK
<1>2. PICK k \in DOMAIN log : log[k].phase = "pending" /\ log[k].gen = e.gen
  <2>1. 1 - 1 = 0
    OBVIOUS
  <2>2. QED
    BY <1>1, <2>1 DEF Whole
<1>3. e.gen # NoGen /\ OfGeneration(log[k], e.gen) /\ log[k].audio = 0
  BY <1>1, <1>2 DEF MessageOK, OfGeneration
<1>4. \A i \in DOMAIN log : OfGeneration(log[i], e.gen) => i = k
  BY <1>2, <1>3 DEF OfGeneration
<1>5. OffersMine(log, new, e)
  <2>1. ~Superseded(log, e)
    BY DEF Superseded, Whole
  <2>2. ~OffersOther(log, new, e)
    BY <1>3 DEF OffersOther
  <2>3. QED
    BY <2>1, <2>2 DEF Offers
<1>6. /\ DOMAIN new = DOMAIN log /\ new[k] = Offered(log[k], e)
      /\ \A i \in DOMAIN log : i # k => new[i] = log[i]
  BY <1>3, <1>4, <1>5 DEF OffersMine
<1>7. /\ new[k].phase = "ready" /\ new[k].audio = e.answers /\ new[k].stale = log[k].stale
  BY <1>1, <1>6 DEF Offered, Message
<1>8. OffersAt(log, new, k, e.answers)
  BY <1>3, <1>6, <1>7 DEF OffersAt
<1>9. Pending(new) = Pending(log) \ {k}
  BY <1>6, <1>7 DEF Pending
<1>10. \A i \in DOMAIN new : new[i].phase = "pending" => new[i].gen = NoGen
  <2> SUFFICES ASSUME NEW i \in DOMAIN new, new[i].phase = "pending", new[i].gen # NoGen
               PROVE  FALSE
    OBVIOUS
  <2>1. i \in DOMAIN log /\ i # k /\ new[i] = log[i]
    BY <1>6, <1>7
  <2>2. log[i].gen = e.gen
    BY <1>1, <2>1 DEF Whole
  <2>3. OfGeneration(log[i], e.gen)
    BY <1>1, <1>3, <2>1, <2>2 DEF OfGeneration, MessageOK
  <2>4. QED
    BY <1>4, <2>1, <2>3
<1>11. /\ \A j \in DOMAIN t : t[j].type = "ASSISTANT_SPEAKING" =>
              /\ j + 1 \in DOMAIN t
              /\ t[j + 1].type = "AUDIO_READY" /\ t[j + 1].gen = t[j].gen
              /\ \E i \in DOMAIN t : j < i /\ t[i].type = "ASSISTANT_STOPPED"
       /\ \A j \in DOMAIN t : t[j].type = "AUDIO_READY" =>
              j - 1 \in DOMAIN t /\ t[j - 1].type = "ASSISTANT_SPEAKING"
  BY <1>1, WholeTail
<1> HIDE DEF t
<1>12. \A i \in DOMAIN new : ~new[i].stale
  BY <1>6, <1>7 DEF Whole
<1>13. Whole(new, t)
  BY <1>10, <1>11, <1>12 DEF Whole
<1>14. QED
  BY <1>2, <1>8, <1>9, <1>13 DEF t, Pending, OffersOne

\* Any other event received.
LEMMA WholeReceived ==
    ASSUME NEW log, NEW wire \in Seq(WireEvents), wire # <<>>, Whole(log, wire),
           Head(wire).type \notin {"ASSISTANT_SPEAKING", "AUDIO_READY"}
    PROVE  Whole(log, Tail(wire))
<1> DEFINE t == Tail(wire)
<1>1. wire[1].type \notin {"ASSISTANT_SPEAKING", "AUDIO_READY"}
  BY TailPlaces
<1>2. /\ \A j \in DOMAIN t : t[j].type = "ASSISTANT_SPEAKING" =>
             /\ j + 1 \in DOMAIN t
             /\ t[j + 1].type = "AUDIO_READY" /\ t[j + 1].gen = t[j].gen
             /\ \E i \in DOMAIN t : j < i /\ t[i].type = "ASSISTANT_STOPPED"
      /\ \A j \in DOMAIN t : t[j].type = "AUDIO_READY" =>
             j - 1 \in DOMAIN t /\ t[j - 1].type = "ASSISTANT_SPEAKING"
  BY <1>1, WholeTail
<1> HIDE DEF t
<1>3. \A i \in DOMAIN log : log[i].phase = "pending" => log[i].gen = NoGen
  BY <1>1 DEF Whole
<1>4. Whole(log, t)
  BY <1>2, <1>3 DEF Whole
<1>5. QED
  BY <1>4 DEF t

-----------------------------------------------------------------------------
(* The messages that wait and the questions that are due *)

\* The questions asked in a session whose audio no message offers.
Due(log, asked, lost) == {n \in (1..asked) \ lost : \A i \in DOMAIN log : log[i].audio # n}

\* Any message that waits may be the one a reply is shown in, so that which of
\* them it is cannot be known, but there are never more of them than replies due.
Balanced(log, asked, lost) == Cardinality(Pending(log)) <= Cardinality(Due(log, asked, lost))

LEMMA FiniteCounts ==
    ASSUME NEW log \in Seq(Message), NEW asked \in Nat, NEW lost
    PROVE  /\ IsFiniteSet(Pending(log)) /\ Cardinality(Pending(log)) \in Nat
           /\ IsFiniteSet(Due(log, asked, lost)) /\ Cardinality(Due(log, asked, lost)) \in Nat
<1>1. Len(log) \in Nat /\ DOMAIN log = 1..Len(log)
  BY LenProperties
<1>2. IsFiniteSet(1..Len(log)) /\ IsFiniteSet(1..asked)
  BY <1>1, FS_Interval
<1>3. Pending(log) \subseteq 1..Len(log) /\ Due(log, asked, lost) \subseteq 1..asked
  BY <1>1 DEF Pending, Due
<1>4. IsFiniteSet(Pending(log)) /\ IsFiniteSet(Due(log, asked, lost))
  BY <1>2, <1>3, FS_Subset
<1>5. QED
  BY <1>4, FS_CardinalityType

\* A question asked in a session is due, and at most one message waits for it;
\* for one spoken outside, none does.
LEMMA BalancedAsked ==
    ASSUME NEW log \in Seq(Message), NEW asked \in Nat, NEW lost, NEW lost2,
           Balanced(log, asked, lost),
           lost2 \in {lost, lost \union {asked + 1}}, asked + 1 \notin lost,
           \A i \in DOMAIN log : log[i].audio \in 0..asked,
           NEW new \in Seq(Message), KeepsAudio(log, new),
           \/ Pending(new) = Pending(log)
           \/ asked + 1 \notin lost2 /\ \E k : Pending(new) = Pending(log) \union {k}
    PROVE  Balanced(new, asked + 1, lost2)
<1> DEFINE due == Due(log, asked, lost)
<1>0. /\ 1..(asked + 1) = 1..asked \union {asked + 1}
      /\ \A n \in 0..asked : n # asked + 1
      /\ \A n \in 1..(asked + 1) : n # 0
      /\ \A n \in 1..asked : n # asked + 1
  OBVIOUS
<1>1. \A n \in 1..asked : n \in Due(new, asked + 1, lost2) <=> n \in due
  <2>1. \A n \in 1..asked : n \in lost2 <=> n \in lost
    BY <1>0
  <2>2. QED
    BY <1>0, <2>1 DEF Due, KeepsAudio
<1>2. asked + 1 \in Due(new, asked + 1, lost2) <=> asked + 1 \notin lost2
  BY <1>0 DEF Due, KeepsAudio
<1>3. Due(new, asked + 1, lost2) \subseteq 1..(asked + 1) /\ due \subseteq 1..asked
  BY DEF Due
<1>4. asked + 1 \notin due
  BY <1>0, <1>3
<1>5. Due(new, asked + 1, lost2) = IF asked + 1 \in lost2 THEN due ELSE due \union {asked + 1}
  <2> DEFINE more == Due(new, asked + 1, lost2)
             n == asked + 1
  <2>1. 1..n = 1..asked \union {n}
    BY <1>0
  <2>2. \A k \in 1..asked : k \in more <=> k \in due
    BY <1>1
  <2>3. n \in more <=> n \notin lost2
    BY <1>2
  <2>4. more \subseteq 1..n /\ due \subseteq 1..asked
    BY <1>3
  <2>0. n \notin due
    BY <1>4
  <2> HIDE DEF due, more, n
  <2>5. more = IF n \in lost2 THEN due ELSE due \union {n}
    <3> DEFINE A == 1..asked
    <3>1. /\ 1..n = A \union {n} /\ more \subseteq A \union {n} /\ due \subseteq A
          /\ \A k \in A : k \in more <=> k \in due
      BY <2>1, <2>2, <2>4
    <3> HIDE DEF A
    <3>2. CASE n \in lost2
      <4>1. more = due
        BY <2>0, <2>3, <3>1, <3>2
      <4>2. QED
        BY <3>2, <4>1
    <3>3. CASE n \notin lost2
      <4>1. more = due \union {n}
        BY <2>0, <2>3, <3>1, <3>3
      <4>2. QED
        BY <3>3, <4>1
    <3>4. QED
      BY <3>2, <3>3
  <2>6. QED
    BY <2>5 DEF more, n
<1>6. /\ IsFiniteSet(Pending(log)) /\ Cardinality(Pending(log)) \in Nat
      /\ IsFiniteSet(due) /\ Cardinality(due) \in Nat
  BY FiniteCounts
<1> HIDE DEF due
<1>7. Cardinality(due \union {asked + 1}) = Cardinality(due) + 1
  BY <1>4, <1>6, FS_AddElement
<1>8. \/ Cardinality(Pending(new)) = Cardinality(Pending(log))
      \/ /\ asked + 1 \notin lost2
         /\ Cardinality(Pending(new)) = Cardinality(Pending(log)) + 1
  <2>1. ASSUME NEW k, Pending(new) = Pending(log) \union {k}
        PROVE  \/ Cardinality(Pending(new)) = Cardinality(Pending(log))
               \/ Cardinality(Pending(new)) = Cardinality(Pending(log)) + 1
    BY <1>6, <2>1, FS_AddElement
  <2>2. QED
    BY <2>1
<1>9. Cardinality(Pending(log)) <= Cardinality(due)
  BY DEF Balanced, due
<1>10. Cardinality(Pending(new)) <= Cardinality(Due(new, asked + 1, lost2))
  <2>1. CASE asked + 1 \in lost2
    BY <1>5, <1>8, <1>9, <2>1
  <2>2. CASE asked + 1 \notin lost2
    <3>1. Cardinality(Due(new, asked + 1, lost2)) = Cardinality(due) + 1
      BY <1>5, <1>7, <2>2
    <3>2. \/ Cardinality(Pending(new)) = Cardinality(Pending(log))
          \/ Cardinality(Pending(new)) = Cardinality(Pending(log)) + 1
      BY <1>8
    <3>3. QED
      BY <1>6, <1>9, <3>1, <3>2
  <2>3. QED
    BY <2>1, <2>2
<1>11. QED
  BY <1>10 DEF Balanced

\* A message is added for a reply only when none waits, and its audio is due.
LEMMA BalancedSpeaks ==
    ASSUME NEW log \in Seq(Message), NEW asked \in Nat, NEW lost, Balanced(log, asked, lost),
           NEW new \in Seq(Message), KeepsAudio(log, new), Due(log, asked, lost) # {},
           \A i \in DOMAIN log : log[i].audio \in 0..asked,
           \/ \E k : Pending(new) = {k}
           \/ Pending(new) = Pending(log)
    PROVE  Balanced(new, asked, lost)
<1>1. Due(new, asked, lost) = Due(log, asked, lost)
  <2>1. \A n \in 1..asked : n # 0
    OBVIOUS
  <2>2. QED
    BY <2>1 DEF Due, KeepsAudio
<1>2. /\ IsFiniteSet(Due(log, asked, lost)) /\ Cardinality(Due(log, asked, lost)) \in Nat
  BY FiniteCounts
<1>3. Cardinality(Due(log, asked, lost)) # 0
  BY <1>2, FS_EmptySet
<1>4. \A k : Pending(new) = {k} => Cardinality(Pending(new)) = 1
  BY FS_Singleton
<1>5. CASE \E k : Pending(new) = {k}
  <2>1. Cardinality(Pending(new)) = 1
    BY <1>4, <1>5
  <2>2. 1 <= Cardinality(Due(log, asked, lost))
    BY <1>2, <1>3
  <2>3. QED
    BY <1>1, <2>1, <2>2 DEF Balanced
<1>6. CASE Pending(new) = Pending(log)
  BY <1>1, <1>6 DEF Balanced
<1>7. QED
  BY <1>5, <1>6

\* Audio is offered by a message that waited.
LEMMA BalancedOffers ==
    ASSUME NEW log \in Seq(Message), NEW asked \in Nat, NEW lost, Balanced(log, asked, lost),
           NEW new, NEW n \in (1..asked) \ lost, NEW k \in Pending(log),
           \A i \in DOMAIN log : log[i].audio # n,
           OffersAt(log, new, k, n), Pending(new) = Pending(log) \ {k}
    PROVE  Balanced(new, asked, lost)
<1>1. /\ IsFiniteSet(Pending(log)) /\ Cardinality(Pending(log)) \in Nat
      /\ IsFiniteSet(Due(log, asked, lost)) /\ Cardinality(Due(log, asked, lost)) \in Nat
  BY FiniteCounts
<1>2. n \in Due(log, asked, lost) /\ k \in DOMAIN log
  BY DEF Due, Pending
<1>3. Due(new, asked, lost) = Due(log, asked, lost) \ {n}
  <2>1. \A i \in 1..asked : i # 0
    OBVIOUS
  <2>2. DOMAIN new = DOMAIN log
    BY <1>2 DEF OffersAt
  <2>3. \A i \in 1..asked : i \in Due(new, asked, lost) <=> i \in Due(log, asked, lost) /\ i # n
    <3> SUFFICES ASSUME NEW i \in 1..asked
                 PROVE  (\A j \in DOMAIN new : new[j].audio # i)
                            <=> (\A j \in DOMAIN log : log[j].audio # i) /\ i # n
      BY DEF Due
    <3>1. ASSUME \A j \in DOMAIN new : new[j].audio # i
          PROVE  (\A j \in DOMAIN log : log[j].audio # i) /\ i # n
      BY <2>1, <2>2, <3>1 DEF OffersAt
    <3>2. ASSUME \A j \in DOMAIN log : log[j].audio # i, i # n
          PROVE  \A j \in DOMAIN new : new[j].audio # i
      BY <2>2, <3>2 DEF OffersAt
    <3>3. QED
      BY <3>1, <3>2
  <2>4. Due(new, asked, lost) \subseteq 1..asked /\ Due(log, asked, lost) \subseteq 1..asked
    BY DEF Due
  <2>5. QED
    BY <2>3, <2>4
<1>4. Cardinality(Due(new, asked, lost)) = Cardinality(Due(log, asked, lost)) - 1
  <2>1. Cardinality(Due(log, asked, lost) \ {n}) = Cardinality(Due(log, asked, lost)) - 1
    BY <1>1, <1>2, FS_RemoveElement
  <2>2. QED
    BY <1>3, <2>1
<1>5. Cardinality(Pending(new)) = Cardinality(Pending(log)) - 1
  <2>1. Cardinality(Pending(log) \ {k}) = Cardinality(Pending(log)) - 1
    BY <1>1, FS_RemoveElement
  <2>2. QED
    BY <2>1
<1>6. QED
  BY <1>1, <1>4, <1>5 DEF Balanced

\* A question that finds the session it needs, which a typed one does not, is
\* answered with a whole reply, one that does not with a refusal at most.
LEMMA RequestServed ==
    ASSUME SMTypeOK, session[Page].active => Page \in known,
           NEW q \in Requests, HandleRequest(q)
    PROVE  /\ \/ q.type = "TEXT_INPUT"
              \/ q.type = "USER_SPEECH_END" /\ RequireActive(Page)
              => Written(q) = ReplyOnWire(session[Page].nextGen, q.question)
           /\ \/ q.type \notin AskTypes
              \/ q.type = "USER_SPEECH_END" /\ ~RequireActive(Page)
              => Written(q) \in {<<>>, <<On("ERROR", NoGen, q.question, FALSE)>>}
           /\ RequireActive(Page)' <=> \/ q.type = "START_SESSION"
                                       \/ q.type # "STOP_SESSION" /\ RequireActive(Page)
           /\ session'[Page].active => Page \in known'
<1>0. /\ Page \in Sessions /\ Conn \in Callers
      /\ session \in [Sessions -> Session] /\ DOMAIN result = Callers
      /\ session[Page] \in Session
  BY PageAssumption DEF SMTypeOK
<1>1. ASSUME NEW events, Return(Conn, events) PROVE result'[Conn] = events
  BY <1>0, <1>1 DEF Return
<1>2. ASSUME NEW t, HandlePipeline(Conn, Page, t)
      PROVE  /\ session'[Page].nextGen = session[Page].nextGen + 1
             /\ session'[Page].active = session[Page].active
  <2>1. session'[Page] = AfterTurn(session[Page], t)
    BY <1>0, <1>2 DEF HandlePipeline
  <2>2. /\ AfterTurn(session[Page], t).nextGen = session[Page].nextGen + 1
        /\ AfterTurn(session[Page], t).active = session[Page].active
    BY <1>0 DEF AfterTurn, Session
  <2>3. QED
    BY <2>1, <2>2
<1>a. ASSUME session'[Page].nextGen = session[Page].nextGen
      PROVE  Written(q) \in {<<>>, <<On("ERROR", NoGen, q.question, FALSE)>>}
  <2>1. session'[Page].nextGen # session[Page].nextGen + 1
    BY <1>0, <1>a, MaxGenerationAssumption DEF Session
  <2>2. QED
    BY <2>1, RequestAnswers, WrittenIs
<1>b. ASSUME session'[Page].nextGen = session[Page].nextGen + 1
      PROVE  Written(q) = ReplyOnWire(session[Page].nextGen, q.question)
  <2>1. session'[Page].nextGen # session[Page].nextGen
    BY <1>0, <1>b, MaxGenerationAssumption DEF Session
  <2>2. QED
    BY <2>1, RequestAnswers, WrittenIs
<1>3. CASE q.type = "START_SESSION" /\ StartSession(Conn, Page)
  <2>1. session'[Page].active /\ session'[Page].nextGen = session[Page].nextGen
    BY <1>0, <1>3 DEF StartSession, Session
  <2>2. Page \in known'
    BY <1>3 DEF StartSession
  <2>3. QED
    BY <1>3, <1>a, <2>1, <2>2 DEF RequireActive
<1>4. CASE q.type = "STOP_SESSION" /\ StopSession(Conn, Page)
  <2>1. session'[Page].nextGen = session[Page].nextGen /\ ~session'[Page].active
    <3>1. CASE Page \in known
      <4>1. session' = [session EXCEPT ![Page] =
                [session[Page] EXCEPT !.active = FALSE, !.state = "idle", !.activeGen = NoGen]]
        BY <1>4, <3>1 DEF StopSession
      <4>2. session'[Page].nextGen = session[Page].nextGen
        BY <1>0, <4>1 DEF Session
      <4>3. session'[Page].active = FALSE
        BY <1>0, <4>1 DEF Session
      <4>4. QED
        BY <4>2, <4>3
    <3>2. CASE Page \notin known
      <4>1. session' = session
        BY <1>4, <3>2 DEF StopSession, Refuse
      <4>2. ~session[Page].active
        BY <3>2
      <4>3. QED
        BY <4>1, <4>2
    <3>3. QED
      BY <3>1, <3>2
  <2>2. QED
    BY <1>4, <1>a, <2>1 DEF RequireActive
<1>5. CASE q.type = "USER_SPEECH_END" /\ UserSpeechEnd(Conn, Page)
  <2>1. CASE RequireActive(Page) /\ HandlePipeline(Conn, Page, VoiceText) /\ UNCHANGED known
    <3>1. /\ session'[Page].nextGen = session[Page].nextGen + 1
          /\ session'[Page].active = session[Page].active
      BY <1>2, <2>1
    <3>2. QED
      BY <1>5, <1>b, <2>1, <3>1 DEF RequireActive, AskTypes
  <2>2. CASE ~RequireActive(Page) /\ Refuse(Conn, Page)
    <3>1. UNCHANGED <<known, session>>
      BY <2>2 DEF Refuse
    <3>2. QED
      BY <1>5, <1>a, <2>2, <3>1 DEF RequireActive, AskTypes
  <2>3. QED
    BY <1>5, <2>1, <2>2 DEF UserSpeechEnd
<1>6. CASE q.type = "TEXT_INPUT" /\ \E text \in Texts : TextInput(Conn, Page, text)
  <2>1. PICK t : HandlePipeline(Conn, Page, t) /\ known' = known \union {Page}
    BY <1>6, TextsAssumption DEF TextInput
  <2>2. /\ session'[Page].nextGen = session[Page].nextGen + 1
        /\ session'[Page].active = session[Page].active
    BY <1>2, <2>1
  <2>3. QED
    BY <1>6, <1>b, <2>1, <2>2 DEF RequireActive, AskTypes
<1>7. QED
  BY <1>3, <1>4, <1>5, <1>6 DEF HandleRequest

-----------------------------------------------------------------------------
(* Every reply is offered *)

\* While nothing is lost and nobody but the backend sends events: requests find
\* the session as the page believes it to be, every question asked in a session
\* is on its way or answered, replies are whole, no more messages wait than
\* replies are due, and the status "speaking" will be taken back.
Answering ==
    /\ outside \subseteq 1..count.question
    /\ session[Page].active => Page \in known
    /\ ~online => ~RequireActive(Page)
    /\ Welcome(toServer, RequireActive(Page), sessionActive, outside)
    /\ Flow(messages, toClient, toServer, count.question, outside)
    /\ Sorted(toClient, outside)
    /\ Whole(messages, toClient)
    /\ Balanced(messages, count.question, outside)
    /\ uiState = "speaking" =>
           \E i \in DOMAIN toClient : toClient[i].type = "ASSISTANT_STOPPED"

\* Replies and refusals are told apart by what they answer.
LEMMA SortedReplied ==
    ASSUME NEW wire \in Seq(WireEvents), NEW lost, Sorted(wire, lost), NEW g, NEW n,
           n \notin lost, ReplyOnWire(g, n) \in Seq(WireEvents)
    PROVE  Sorted(wire \o ReplyOnWire(g, n), lost)
<1> DEFINE w == ReplyOnWire(g, n)
           new == wire \o w
<1>1. /\ DOMAIN w = 1..4 /\ Len(w) = 4
      /\ \A i \in 1..4 : w[i].answers = n /\ w[i].type # "ERROR"
  <2>1. \A i \in 1..4 : i = 1 \/ i = 2 \/ i = 3 \/ i = 4
    OBVIOUS
  <2>2. /\ w[1] = On("ASSISTANT_SPEAKING", g, n, FALSE)
        /\ w[2] = On("AUDIO_READY", g, n, FALSE)
        /\ w[3] = On("METRICS_UPDATE", g, n, FALSE)
        /\ w[4] = On("ASSISTANT_STOPPED", g, n, FALSE)
    BY DEF ReplyOnWire
  <2>3. DOMAIN w = 1..4 /\ Len(w) = 4
    BY DEF ReplyOnWire
  <2> HIDE DEF w
  <2>4. /\ w[1].answers = n /\ w[1].type # "ERROR"
        /\ w[2].answers = n /\ w[2].type # "ERROR"
        /\ w[3].answers = n /\ w[3].type # "ERROR"
        /\ w[4].answers = n /\ w[4].type # "ERROR"
    BY <2>2 DEF On
  <2>5. QED
    BY <2>1, <2>3, <2>4
<1>2. /\ Len(wire) \in Nat /\ DOMAIN wire = 1..Len(wire)
      /\ Len(new) = Len(wire) + Len(w) /\ DOMAIN new = 1..Len(new)
      /\ \A i \in 1..Len(new) :
             new[i] = IF i <= Len(wire) THEN wire[i] ELSE w[i - Len(wire)]
  BY LenProperties, ConcatProperties
<1> HIDE DEF new, w
<1>3. ASSUME NEW i \in DOMAIN new
      PROVE  \/ i \in DOMAIN wire /\ new[i] = wire[i]
             \/ new[i].answers = n /\ new[i].type # "ERROR"
  <2>1. CASE i <= Len(wire)
    BY <1>2, <2>1
  <2>2. CASE ~(i <= Len(wire))
    <3>1. i - Len(wire) \in 1..4 /\ new[i] = w[i - Len(wire)]
      BY <1>1, <1>2, <2>2
    <3>2. QED
      BY <1>1, <3>1
  <2>3. QED
    BY <2>1, <2>2
<1>4. Sorted(new, lost)
  BY <1>3 DEF Sorted
<1>5. QED
  BY <1>4 DEF new, w

LEMMA SortedRefused ==
    ASSUME NEW wire \in Seq(WireEvents), NEW lost, Sorted(wire, lost),
           NEW e \in WireEvents, e.type = "ERROR", e.answers \in lost \union {0}
    PROVE  Sorted(Append(wire, e), lost)
<1> DEFINE more == Append(wire, e)
<1>1. \A i \in DOMAIN more :
          \/ i \in DOMAIN wire /\ more[i] = wire[i]
          \/ more[i] = e
  BY AppendPlaces
<1> HIDE DEF more
<1>2. Sorted(more, lost)
  BY <1>1 DEF Sorted
<1>3. QED
  BY <1>2 DEF more

LEMMA SortedTail ==
    ASSUME NEW wire \in Seq(WireEvents), wire # <<>>, NEW lost, Sorted(wire, lost)
    PROVE  Sorted(Tail(wire), lost)
<1> DEFINE t == Tail(wire)
<1>1. \A i \in DOMAIN t : i + 1 \in DOMAIN wire /\ t[i] = wire[i + 1]
  <2>1. /\ Len(wire) \in Nat \ {0}
        /\ DOMAIN wire = 1..Len(wire) /\ DOMAIN t = 1..(Len(wire) - 1)
        /\ \A i \in DOMAIN t : t[i] = wire[i + 1]
    BY TailPlaces
  <2> HIDE DEF t
  <2>2. QED
    BY <2>1
<1> HIDE DEF t
<1>2. Sorted(t, lost)
  BY <1>1 DEF Sorted
<1>3. QED
  BY <1>2 DEF t

\* A question asked adds messages without a generation or audio, of which at
\* most one waits.
LEMMA AskedAnswering ==
    ASSUME ChatInv, Answering, NEW type \in AskTypes, NEW added \in Seq(Message),
           Ask(type, added), messages' \in Seq(Message),
           outside' = IF type = "TEXT_INPUT" \/ sessionActive THEN outside
                      ELSE outside \union {count.question + 1},
           \A i \in DOMAIN added : added[i].gen = NoGen /\ added[i].audio = 0 /\ ~added[i].stale,
           \E p : \A i \in DOMAIN added :
               added[i].phase = "pending" => i = p /\ type = "TEXT_INPUT"
    PROVE  Answering'
<1> DEFINE n == count.question
           q == Request(type, n + 1)
           l == Len(messages)
<1>0. /\ messages \in Seq(Message) /\ toServer \in Seq(Requests)
      /\ n \in Nat /\ n + 1 \in Questions /\ n < MaxQuestions
      /\ count'.question = n + 1
      /\ messages' = messages \o added /\ toServer' = Append(toServer, q)
      /\ UNCHANGED <<smVars, uiState, sessionActive, online, toClient>>
  <2>1. /\ count \in [question : Questions, toggle : Nat, loss : Nat,
                      restart : Nat, stray : Nat]
        /\ n < MaxQuestions /\ count' = [count EXCEPT !["question"] = n + 1]
    BY DEF ChatInv, TypeInv, CountOK, Ask, Counted
  <2>2. n \in Nat /\ n + 1 \in Questions
    BY <2>1, ChatBounds DEF Questions
  <2> HIDE DEF n
  <2>3. count'.question = n + 1
    BY <2>1
  <2>4. messages \in Seq(Message) /\ toServer \in Seq(Requests)
    BY DEF ChatInv, TypeInv, ChatTypeOK, Requests
  <2>5. /\ messages' = messages \o added /\ toServer' = Append(toServer, q)
        /\ UNCHANGED <<smVars, uiState, sessionActive, online, toClient>>
    BY DEF Ask, n
  <2>6. QED
    BY <2>1, <2>2, <2>3, <2>4, <2>5
<1>1. q \in Requests /\ q.type = type /\ q.question = n + 1
  BY <1>0 DEF Request, Requests, AskTypes
<1>2. /\ RequireActive(Page)' = RequireActive(Page)
      /\ known' = known /\ session' = session
  BY <1>0 DEF smVars, RequireActive
<1>a. /\ outside' \in {outside, outside \union {n + 1}}
      /\ n + 1 \in outside' <=> (type # "TEXT_INPUT" /\ ~sessionActive)
      /\ n + 1 \notin outside /\ outside' \subseteq 1..(n + 1)
      /\ \A k \in 1..n : k \in outside' <=> k \in outside
  <2>1. outside \subseteq 1..n
    BY DEF Answering
  <2>2. /\ \A k \in 1..n : k # n + 1
        /\ 1..n \subseteq 1..(n + 1) /\ n + 1 \in 1..(n + 1)
    BY <1>0
  <2>3. outside' = IF type = "TEXT_INPUT" \/ sessionActive THEN outside
                   ELSE outside \union {n + 1}
    OBVIOUS
  <2> DEFINE m == n + 1
  <2> HIDE DEF n, m
  <2>4. CASE type = "TEXT_INPUT" \/ sessionActive
    BY <2>1, <2>2, <2>3, <2>4
  <2>5. CASE ~(type = "TEXT_INPUT" \/ sessionActive)
    <3>1. outside' = outside \union {n + 1}
      BY <2>3, <2>5
    <3>2. QED
      BY <2>1, <2>2, <2>5, <3>1
  <2>6. QED
    BY <2>4, <2>5
<1> HIDE DEF n, q
<1>3. /\ l \in Nat /\ DOMAIN messages = 1..l
      /\ \A i \in DOMAIN messages : i \in DOMAIN messages' /\ messages'[i] = messages[i]
      /\ \A i \in DOMAIN messages' :
             \/ i \in DOMAIN messages
             \/ i - l \in DOMAIN added /\ messages'[i] = added[i - l]
  <2>1. /\ Len(messages) \in Nat /\ DOMAIN messages = 1..Len(messages)
        /\ Len(added) \in Nat /\ DOMAIN added = 1..Len(added)
        /\ Len(messages') = Len(messages) + Len(added)
        /\ DOMAIN messages' = 1..Len(messages')
        /\ \A i \in 1..Len(messages') :
               messages'[i] = IF i <= Len(messages) THEN messages[i]
                                                    ELSE added[i - Len(messages)]
    BY <1>0, LenProperties, ConcatProperties
  <2> HIDE DEF l
  <2>2. \A i \in DOMAIN messages : i \in DOMAIN messages' /\ messages'[i] = messages[i]
    BY <2>1
  <2>3. \A i \in DOMAIN messages' : i \in DOMAIN messages \/ i - Len(messages) \in DOMAIN added
    BY <2>1
  <2>4. \A i \in DOMAIN messages' : i \notin DOMAIN messages =>
            messages'[i] = added[i - Len(messages)]
    BY <2>1
  <2>5. QED
    BY <2>1, <2>2, <2>3, <2>4 DEF l
<1> HIDE DEF l
<1>4. KeepsAudio(messages, messages')
  BY <1>3 DEF KeepsAudio
<1>5. Welcome(toServer, RequireActive(Page), sessionActive, outside)'
  <2>1. type # "START_SESSION" /\ type # "STOP_SESSION"
    BY DEF AskTypes
  <2>2. \A k \in DOMAIN toServer : toServer[k].type \in AskTypes =>
            (toServer[k].question \in outside' <=> toServer[k].question \in outside)
    BY <1>a DEF Answering, Flow, InOrder, n
  <2>3. /\ q.type = "USER_SPEECH_END" => (q.question \notin outside' <=> sessionActive)
        /\ q.type = "TEXT_INPUT" => q.question \notin outside'
        /\ q.type \notin AskTypes => q.question = 0
    BY <1>1, <1>a
  <2>4. Welcome(toServer, RequireActive(Page), sessionActive, outside)
    BY DEF Answering
  <2>5. Welcome(Append(toServer, q), RequireActive(Page), sessionActive, outside')
    BY <1>0, <1>1, <2>1, <2>2, <2>3, <2>4, WelcomeAppend
  <2>6. QED
    BY <1>0, <1>2, <2>5
<1>6. Flow(messages, toClient, toServer, count.question, outside)'
  <2>1. Flow(messages', toClient, Append(toServer, q), n + 1, outside)
    BY <1>0, <1>1, <1>4, FlowAsked DEF Answering, n
  <2>2. Flow(messages', toClient, Append(toServer, q), n + 1, outside')
    <3>1. outside \subseteq outside'
      BY <1>a
    <3>2. QED
      BY <2>1, <3>1, FlowFewer
  <2>3. QED
    BY <1>0, <2>2
<1>b. Sorted(toClient, outside)'
  <2>1. Sorted(toClient, outside')
    BY <1>a DEF Answering, Flow, InOrder, Sorted, n
  <2>2. QED
    BY <1>0, <2>1
<1>7. Whole(messages, toClient)'
  <2>1. \A i \in DOMAIN messages' : i \in DOMAIN messages
            \/ (messages'[i].gen = NoGen /\ ~messages'[i].stale)
    BY <1>3
  <2>2. Whole(messages', toClient)
    BY <1>3, <2>1, WholeAsked DEF Answering
  <2>3. QED
    BY <1>0, <2>2
<1>8. Balanced(messages, count.question, outside)'
  <2>1. PICK p : \A i \in DOMAIN added :
            added[i].phase = "pending" => i = p /\ type = "TEXT_INPUT"
    OBVIOUS
  <2>2. \A i \in Pending(messages') :
            i \in Pending(messages) \/ (i - l = p /\ type = "TEXT_INPUT")
    BY <1>3, <2>1 DEF Pending
  <2>3. \A i \in Pending(messages) : i \in Pending(messages')
    BY <1>3 DEF Pending
  <2>4. \A i, j \in Pending(messages') :
            i \in Pending(messages) \/ j \in Pending(messages) \/ i = j
    <3> SUFFICES ASSUME NEW i \in Pending(messages'), NEW j \in Pending(messages'),
                        i \notin Pending(messages), j \notin Pending(messages)
                 PROVE  i = j
      OBVIOUS
    <3>1. i - l = j - l
      BY <2>2
    <3>2. i \in Nat /\ j \in Nat
      BY LenProperties DEF Pending
    <3>3. QED
      BY <1>3, <3>1, <3>2
  <2>5. \/ Pending(messages') = Pending(messages)
        \/ n + 1 \notin outside' /\ \E k : Pending(messages') = Pending(messages) \union {k}
    <3>1. CASE \A k \in Pending(messages') : k \in Pending(messages)
      BY <2>3, <3>1
    <3>2. ASSUME NEW k \in Pending(messages'), k \notin Pending(messages)
          PROVE  /\ n + 1 \notin outside'
                 /\ Pending(messages') = Pending(messages) \union {k}
      <4>1. Pending(messages') = Pending(messages) \union {k}
        BY <2>3, <2>4, <3>2
      <4>2. QED
        BY <1>a, <2>2, <3>2, <4>1
    <3>3. QED
      BY <3>1, <3>2
  <2>6. \A i \in DOMAIN messages : messages[i].audio \in 0..n
    BY DEF Answering, Flow, InOrder, n
  <2>7. Balanced(messages, n, outside)
    BY DEF Answering, n
  <2>8. Balanced(messages', n + 1, outside')
    BY <1>0, <1>4, <1>a, <2>5, <2>6, <2>7, BalancedAsked
  <2>9. QED
    BY <1>0, <2>8
<1>9. /\ (~online => ~RequireActive(Page))'
      /\ (uiState = "speaking" =>
             \E i \in DOMAIN toClient : toClient[i].type = "ASSISTANT_STOPPED")'
  BY <1>0, <1>2 DEF Answering
<1>10. /\ (outside \subseteq 1..count.question)'
       /\ (session[Page].active => Page \in known)'
  BY <1>0, <1>2, <1>a DEF Answering
<1>11. QED
  BY <1>5, <1>6, <1>b, <1>7, <1>8, <1>9, <1>10 DEF Answering

\* A typed question adds one message that waits, speech none.
LEMMA TextAnswering ==
    ASSUME ChatInv, Answering, SendText, messages' \in Seq(Message) PROVE Answering'
<1> DEFINE n == count.question + 1
           added == <<User(n), PendingAssistant(n)>>
<1>1. Ask("TEXT_INPUT", added) /\ count.question < MaxQuestions
  BY DEF SendText, Ask, Counted
<1>2. CountOK
  BY DEF ChatInv, TypeInv
<1>3. added \in Seq(Message)
  BY <1>1, <1>2, AskedMessages
<1>4. /\ DOMAIN added = 1..2 /\ added[1] = User(n) /\ added[2] = PendingAssistant(n)
      /\ User(n).gen = NoGen /\ User(n).audio = 0 /\ ~User(n).stale
      /\ User(n).phase # "pending"
      /\ PendingAssistant(n).gen = NoGen /\ PendingAssistant(n).audio = 0
      /\ ~PendingAssistant(n).stale
  BY DEF User, PendingAssistant
<1>5. \A i \in 1..2 : i = 1 \/ i = 2
  OBVIOUS
<1> HIDE DEF added
<1>6. /\ \A i \in DOMAIN added : added[i].gen = NoGen /\ added[i].audio = 0 /\ ~added[i].stale
      /\ \A i \in DOMAIN added : added[i].phase = "pending" => i = 2
  BY <1>4, <1>5
<1>7. outside' = outside
  BY DEF SendText
<1>8. QED
  BY <1>1, <1>3, <1>6, <1>7, AskedAnswering DEF AskTypes

LEMMA SpeechAnswering ==
    ASSUME ChatInv, Answering, SpeechEnds, messages' \in Seq(Message) PROVE Answering'
<1> DEFINE n == count.question + 1
           added == <<VoicePlaceholder(n)>>
<1>1. /\ Ask("USER_SPEECH_END", added) /\ count.question < MaxQuestions
      /\ outside' = IF sessionActive THEN outside ELSE outside \union {n}
  BY DEF SpeechEnds, Ask, Counted
<1>2. CountOK
  BY DEF ChatInv, TypeInv
<1>3. added \in Seq(Message)
  BY <1>1, <1>2, AskedMessages
<1>4. /\ DOMAIN added = 1..1 /\ added[1] = VoicePlaceholder(n)
      /\ VoicePlaceholder(n).gen = NoGen /\ VoicePlaceholder(n).audio = 0
      /\ ~VoicePlaceholder(n).stale /\ VoicePlaceholder(n).phase # "pending"
      /\ \A i \in 1..1 : i = 1
  BY DEF User, VoicePlaceholder
<1> HIDE DEF added
<1>5. /\ \A i \in DOMAIN added : added[i].gen = NoGen /\ added[i].audio = 0 /\ ~added[i].stale
      /\ \A i \in DOMAIN added : added[i].phase # "pending"
  BY <1>4
<1>6. QED
  BY <1>1, <1>3, <1>5, AskedAnswering DEF AskTypes

\* A START_SESSION or STOP_SESSION sent, as the client now believes the session.
LEMMA SentAnswering ==
    ASSUME ChatInv, Answering, NEW type \in {"START_SESSION", "STOP_SESSION"},
           toServer' = Append(toServer, Request(type, 0)),
           sessionActive' <=> type = "START_SESSION",
           UNCHANGED <<known, session, messages, outside, online, toClient>>,
           count'.question = count.question,
           uiState' = "speaking" => uiState = "speaking"
    PROVE  Answering'
<1> DEFINE q == Request(type, 0)
           n == count.question
<1>0. toServer \in Seq(Requests) /\ n \in Nat /\ 0 \in Questions
  <2>1. count \in [question : Questions, toggle : Nat, loss : Nat,
                   restart : Nat, stray : Nat]
    BY DEF ChatInv, TypeInv, CountOK
  <2>2. n \in Nat /\ 0 \in Questions
    BY <2>1, ChatBounds DEF Questions
  <2>3. toServer \in Seq(Requests)
    BY DEF ChatInv, TypeInv, ChatTypeOK, Requests
  <2>4. QED
    BY <2>2, <2>3
<1>1. /\ q \in Requests /\ q.type \notin AskTypes
      /\ q.type = type /\ q.question = 0
  BY <1>0 DEF Request, Requests, AskTypes
<1>2. RequireActive(Page)' = RequireActive(Page)
  BY DEF RequireActive
<1> HIDE DEF q
<1>3. Welcome(Append(toServer, q), RequireActive(Page), sessionActive', outside)
  <2>1. sessionActive' <=> (q.type = "START_SESSION"
                                \/ (q.type # "STOP_SESSION" /\ sessionActive))
    BY <1>1
  <2>2. Welcome(toServer, RequireActive(Page), sessionActive, outside)
    BY DEF Answering
  <2>3. q.type # "USER_SPEECH_END" /\ q.type # "TEXT_INPUT"
    BY <1>1
  <2>4. QED
    BY <1>0, <1>1, <2>1, <2>2, <2>3, WelcomeAppend
<1>4. Welcome(toServer, RequireActive(Page), sessionActive, outside)'
  BY <1>2, <1>3 DEF q
<1>5. Flow(messages, toClient, Append(toServer, q), n, outside)
  BY <1>0, <1>1, FlowSent DEF Answering
<1>6. Flow(messages, toClient, toServer, count.question, outside)'
  BY <1>5 DEF q
<1>7. /\ Sorted(toClient, outside)' /\ Whole(messages, toClient)'
      /\ Balanced(messages, count.question, outside)'
      /\ (outside \subseteq 1..count.question)'
      /\ (session[Page].active => Page \in known)'
      /\ (~online => ~RequireActive(Page))'
  BY <1>2 DEF Answering
<1>8. (uiState = "speaking" =>
           \E i \in DOMAIN toClient : toClient[i].type = "ASSISTANT_STOPPED")'
  BY DEF Answering
<1>9. QED
  BY <1>4, <1>6, <1>7, <1>8 DEF Answering

\* Nothing sent, received or handled.
LEMMA CalmAnswering ==
    ASSUME Answering,
           UNCHANGED <<known, session, messages, sessionActive, outside, toServer, toClient>>,
           count'.question = count.question, online => online',
           uiState' = "speaking" => uiState = "speaking"
    PROVE  Answering'
<1>1. RequireActive(Page)' = RequireActive(Page)
  BY DEF RequireActive
<1>2. /\ Welcome(toServer, RequireActive(Page), sessionActive, outside)'
      /\ Flow(messages, toClient, toServer, count.question, outside)'
      /\ Sorted(toClient, outside)' /\ Whole(messages, toClient)'
      /\ Balanced(messages, count.question, outside)'
      /\ (outside \subseteq 1..count.question)'
      /\ (session[Page].active => Page \in known)'
  BY <1>1 DEF Answering
<1>3. (~online => ~RequireActive(Page))'
  BY <1>1 DEF Answering
<1>4. (uiState = "speaking" =>
           \E i \in DOMAIN toClient : toClient[i].type = "ASSISTANT_STOPPED")'
  BY DEF Answering
<1>5. QED
  BY <1>2, <1>3, <1>4 DEF Answering

\* The user starts, stops, retries or ends, or hears of an error.
LEMMA VoiceAnswering ==
    ASSUME ChatInv, Answering,
           StartVoice \/ StopVoice \/ Retry \/ SafeEnd \/ WorkletError \/ AttemptFails
    PROVE  Answering'
<1>1. CountOK
  BY DEF ChatInv, TypeInv
<1>2. count'.question = count.question
  <2>1. Toggled \/ UNCHANGED count
    BY DEF StartVoice, StopVoice, Retry, SafeEnd, WorkletError, AttemptFails
  <2>2. QED
    BY <1>1, <2>1 DEF CountOK, Toggled
<1>3. /\ UNCHANGED <<known, session, messages, outside, online, toClient>>
      /\ uiState' = "speaking" => uiState = "speaking"
  BY DEF StartVoice, StopVoice, Retry, SafeEnd, WorkletError, AttemptFails, smVars, wires,
         voiceVars
<1>4. CASE StartsSession
  <2>1. /\ toServer' = Append(toServer, Request("START_SESSION", 0))
        /\ sessionActive' = TRUE
    BY <1>4 DEF StartsSession
  <2>2. QED
    BY <1>2, <1>3, <2>1, SentAnswering
<1>5. CASE StopsSession
  <2>1. /\ toServer' = Append(toServer, Request("STOP_SESSION", 0))
        /\ sessionActive' = FALSE
    BY <1>5 DEF StopsSession
  <2>2. QED
    BY <1>2, <1>3, <2>1, SentAnswering
<1>6. CASE UNCHANGED <<sessionActive, toServer>>
  BY <1>2, <1>3, <1>6, CalmAnswering
<1>7. QED
  BY <1>4, <1>5, <1>6
     DEF StartVoice, StopVoice, Retry, SafeEnd, WorkletError, AttemptFails, wires, voiceVars

\* The backend handles a request.
LEMMA BackendAnswering ==
    ASSUME ChatInv, Answering, BackendHandles, Written(Head(toServer)) \in Seq(WireEvents)
    PROVE  Answering'
<1> DEFINE q == Head(toServer)
           n == count.question
           g == session[Page].nextGen
<1>0. /\ toServer \in Seq(Requests) /\ toServer # <<>> /\ toClient \in Seq(WireEvents)
      /\ n \in Nat /\ SMTypeOK
      /\ HandleRequest(q) /\ toClient' = toClient \o Written(q)
      /\ toServer' = Tail(toServer)
      /\ online /\ UNCHANGED <<messages, uiState, sessionActive, outside, online, count>>
  <2>1. n \in Nat
    BY ChatBounds DEF ChatInv, TypeInv, CountOK, Questions
  <2>2. toServer \in Seq(Requests) /\ toClient \in Seq(WireEvents) /\ SMTypeOK
    BY DEF ChatInv, TypeInv, ChatTypeOK, Requests, WireEvents
  <2>3. HandleRequest(q) /\ toClient' = toClient \o Written(q) /\ toServer' = Tail(toServer)
    BY DEF BackendHandles, Written
  <2>4. /\ toServer # <<>> /\ online
        /\ UNCHANGED <<messages, uiState, sessionActive, outside, online, count>>
    BY DEF BackendHandles, pageVars, voiceVars
  <2> HIDE DEF n, q
  <2>5. QED
    BY <2>1, <2>2, <2>3, <2>4
<1>1. q \in Requests /\ q = toServer[1] /\ 1 \in DOMAIN toServer /\ DOMAIN toServer \subseteq Nat \ {0}
  BY <1>0, TailPlaces
<1> HIDE DEF q, n, g
<1>2. /\ q.type = "USER_SPEECH_END" => (q.question \notin outside <=> RequireActive(Page))
      /\ q.type = "TEXT_INPUT" => q.question \notin outside
      /\ q.type \notin AskTypes => q.question = 0
  <2>1. \A j \in DOMAIN toServer : ~(j < 1)
    BY <1>1
  <2>2. OpenAt(toServer, 1, RequireActive(Page)) <=> RequireActive(Page)
    BY <2>1 DEF OpenAt
  <2>3. QED
    BY <1>1, <2>2 DEF Answering, Welcome
<1>3. /\ q.type = "TEXT_INPUT" \/ (q.type = "USER_SPEECH_END" /\ RequireActive(Page))
             => Written(q) = ReplyOnWire(g, q.question)
      /\ q.type \notin AskTypes \/ (q.type = "USER_SPEECH_END" /\ ~RequireActive(Page))
             => Written(q) \in {<<>>, <<On("ERROR", NoGen, q.question, FALSE)>>}
      /\ RequireActive(Page)' <=> (q.type = "START_SESSION"
                                       \/ (q.type # "STOP_SESSION" /\ RequireActive(Page)))
      /\ session'[Page].active => Page \in known'
  BY <1>0, <1>1, RequestServed DEF g, Answering
<1>4. Welcome(toServer, RequireActive(Page), sessionActive, outside)'
  <2>1. Welcome(toServer, RequireActive(Page), sessionActive, outside)
    BY DEF Answering
  <2>2. Welcome(Tail(toServer), RequireActive(Page)', sessionActive, outside)
    BY <1>0, <1>3, <2>1, WelcomeTail DEF q
  <2>3. QED
    BY <1>0, <2>2
<1>5. /\ Flow(messages, toClient', Tail(toServer), n, outside)
      /\ Whole(messages, toClient')
      /\ Sorted(toClient', outside)
      /\ \A i \in DOMAIN toClient : i \in DOMAIN toClient' /\ toClient'[i] = toClient[i]
  <2>0. /\ Flow(messages, toClient, toServer, n, outside) /\ Whole(messages, toClient)
        /\ Sorted(toClient, outside)
    BY DEF Answering, n
  <2>1. CASE q.type = "TEXT_INPUT" \/ (q.type = "USER_SPEECH_END" /\ RequireActive(Page))
    <3>1. /\ ReplyOnWire(g, q.question) \in Seq(WireEvents)
          /\ Written(q) = ReplyOnWire(g, q.question)
          /\ q.type \in AskTypes /\ q.question \notin outside
      BY <1>2, <1>3, <2>1 DEF q, AskTypes
    <3>2. Flow(messages, toClient \o ReplyOnWire(g, q.question), Tail(toServer), n, outside)
      BY <1>0, <2>0, <3>1, FlowReplied DEF q
    <3>3. /\ Whole(messages, toClient \o ReplyOnWire(g, q.question))
          /\ \A i \in DOMAIN toClient :
                 /\ i \in DOMAIN (toClient \o ReplyOnWire(g, q.question))
                 /\ (toClient \o ReplyOnWire(g, q.question))[i] = toClient[i]
      BY <1>0, <2>0, <3>1, WholeReplied
    <3>4. Sorted(toClient \o ReplyOnWire(g, q.question), outside)
      BY <1>0, <2>0, <3>1, SortedReplied
    <3>5. toClient' = toClient \o ReplyOnWire(g, q.question)
      BY <1>0, <3>1
    <3>6. QED
      BY <3>2, <3>3, <3>4, <3>5
  <2>2. CASE q.type \notin AskTypes \/ (q.type = "USER_SPEECH_END" /\ ~RequireActive(Page))
    <3> DEFINE e == On("ERROR", NoGen, q.question, FALSE)
    <3>1. /\ q.type \in AskTypes => q.question \in outside
          /\ q.question \in outside \union {0}
      BY <1>2, <2>2 DEF AskTypes
    <3>2. e \in WireEvents /\ e.type = "ERROR" /\ e.answers = q.question
      <4>1. q.question \in Questions
        BY <1>1 DEF Requests
      <4>2. NoGen \in Generations
        BY MaxGenerationAssumption DEF NoGen, Generations
      <4>3. QED
        BY <4>1, <4>2 DEF On, WireEvents, EventTypes
    <3>3. Flow(messages, toClient, Tail(toServer), n, outside)
      BY <1>0, <2>0, <3>1, FlowHandled DEF q
    <3> HIDE DEF e
    <3>4. CASE Written(q) = <<>>
      <4>1. toClient' = toClient
        <5>1. toClient \o <<>> = toClient
          BY <1>0
        <5>2. QED
          BY <1>0, <3>4, <5>1
      <4>2. QED
        BY <2>0, <3>3, <4>1
    <3>5. CASE Written(q) = <<e>>
      <4>1. toClient' = Append(toClient, e)
        <5>1. toClient \o <<e>> = Append(toClient, e)
          BY <1>0, <3>2, AppendIsConcat
        <5>2. QED
          BY <1>0, <3>5, <5>1
      <4>2. Flow(messages, Append(toClient, e), Tail(toServer), n, outside)
        BY <1>0, <3>2, <3>3, FlowRefused
      <4>3. Whole(messages, Append(toClient, e))
        BY <1>0, <2>0, <3>2, WholeRefused
      <4>4. Sorted(Append(toClient, e), outside)
        BY <1>0, <2>0, <3>1, <3>2, SortedRefused
      <4>5. \A i \in DOMAIN toClient :
                i \in DOMAIN Append(toClient, e) /\ Append(toClient, e)[i] = toClient[i]
        BY <1>0, <3>2, AppendPlaces
      <4>6. QED
        BY <4>1, <4>2, <4>3, <4>4, <4>5
    <3>6. QED
      BY <1>3, <2>2, <3>4, <3>5 DEF e
  <2>3. QED
    BY <1>1, <2>1, <2>2 DEF Requests, AskTypes
<1>6. /\ Flow(messages, toClient, toServer, count.question, outside)'
      /\ Whole(messages, toClient)' /\ Sorted(toClient, outside)'
      /\ Balanced(messages, count.question, outside)'
      /\ (outside \subseteq 1..count.question)'
      /\ (session[Page].active => Page \in known)'
  BY <1>0, <1>3, <1>5 DEF Answering, n
<1>7. (uiState = "speaking" =>
           \E i \in DOMAIN toClient : toClient[i].type = "ASSISTANT_STOPPED")'
  BY <1>0, <1>5 DEF Answering
<1>8. QED
  BY <1>0, <1>4, <1>6, <1>7 DEF Answering

\* The page receives an event.
LEMMA ReceiveAnswering ==
    ASSUME ChatInv, Steady, Answering, Receive, messages' \in Seq(Message) PROVE Answering'
<1> DEFINE e == Head(toClient)
           n == count.question
           next == session[Page].nextGen
<1>0. /\ toClient \in Seq(WireEvents) /\ toClient # <<>> /\ messages \in Seq(Message)
      /\ n \in Nat
      /\ OnEvent(e) /\ toClient' = Tail(toClient)
      /\ UNCHANGED <<smVars, online, toServer, count, sessionActive, outside>>
      /\ LogOK(messages) /\ Named(messages, toClient, next)
  <2>1. n \in Nat
    BY ChatBounds DEF ChatInv, TypeInv, CountOK, Questions
  <2>2. QED
    BY <2>1 DEF ChatInv, TypeInv, ChatTypeOK, WireEvents, Receive, OnEvent, voiceVars
<1>1. /\ e \in WireEvents /\ e = toClient[1] /\ 1 \in DOMAIN toClient
      /\ \A i \in DOMAIN toClient : i = 1 \/ (i - 1 \in DOMAIN Tail(toClient)
                                              /\ Tail(toClient)[i - 1] = toClient[i])
  <2>1. /\ Len(toClient) \in Nat \ {0}
        /\ DOMAIN toClient = 1..Len(toClient) /\ DOMAIN Tail(toClient) = 1..(Len(toClient) - 1)
        /\ \A i \in DOMAIN Tail(toClient) : Tail(toClient)[i] = toClient[i + 1]
        /\ e = toClient[1] /\ e \in WireEvents
    BY <1>0, TailPlaces
  <2> DEFINE t == Tail(toClient)
  <2> HIDE DEF e, t
  <2>2. \A i \in DOMAIN toClient : i = 1 \/ (i - 1 \in DOMAIN t /\ (i - 1) + 1 = i)
    BY <2>1 DEF t
  <2>3. QED
    BY <2>1, <2>2 DEF t
<1>2. e \in AnyEvent
  BY <1>1 DEF WireEvents, AnyEvent
<1>3. /\ RequireActive(Page)' = RequireActive(Page)
      /\ known' = known /\ session' = session
  BY <1>0 DEF smVars, RequireActive
<1> HIDE DEF e, n, next
<1>4. \A i \in DOMAIN messages : messages[i].audio \in 0..n
  BY DEF Answering, Flow, InOrder, n
<1>5. SUFFICES /\ Flow(messages', Tail(toClient), toServer, n, outside)
               /\ Whole(messages', Tail(toClient))
               /\ Balanced(messages', n, outside)
               /\ uiState' = "speaking" =>
                      \E i \in DOMAIN Tail(toClient) :
                          Tail(toClient)[i].type = "ASSISTANT_STOPPED"
  <2>1. Welcome(toServer, RequireActive(Page), sessionActive, outside)'
    BY <1>0, <1>3 DEF Answering
  <2>2. /\ (~online => ~RequireActive(Page))'
        /\ (outside \subseteq 1..count.question)'
        /\ (session[Page].active => Page \in known)'
    BY <1>0, <1>3 DEF Answering
  <2>a. Sorted(toClient, outside)'
    <3>1. Sorted(Tail(toClient), outside)
      BY <1>0, SortedTail DEF Answering
    <3>2. QED
      BY <1>0, <3>1
  <2>3. /\ Flow(messages, toClient, toServer, count.question, outside)'
        /\ Whole(messages, toClient)'
        /\ Balanced(messages, count.question, outside)'
    BY <1>0, <1>5 DEF n
  <2>4. (uiState = "speaking" =>
             \E i \in DOMAIN toClient : toClient[i].type = "ASSISTANT_STOPPED")'
    BY <1>0, <1>5
  <2>5. QED
    BY <2>1, <2>2, <2>a, <2>3, <2>4 DEF Answering
<1>6. CASE e.type = "ASSISTANT_SPEAKING"
  <2>1. Speaks(messages, messages', e)
    <3>1. messages' = AfterSpeaking(messages, e)
      BY <1>0, <1>6 DEF OnEvent
    <3>2. QED
      BY <1>0, <1>2, <3>1, SpeakingEffect
  <2>2. /\ Whole(messages', Tail(toClient)) /\ KeepsAudio(messages, messages')
        /\ \/ \E k : Pending(messages') = {k}
           \/ Pending(messages') = Pending(messages)
    BY <1>0, <1>6, <2>1, WholeSpeaks DEF Answering, e
  <2>3. Flow(messages', Tail(toClient), toServer, n, outside)
    BY <1>0, <1>6, <2>2, FlowReceived DEF Answering, e, n
  <2>4. Due(messages, n, outside) # {}
    <3>1. 1 + 1 \in DOMAIN toClient /\ toClient[1 + 1].type = "AUDIO_READY"
      BY <1>1, <1>6 DEF Answering, Whole
    <3>2. /\ toClient[1 + 1].answers \in (1..n) \ outside
          /\ \A i \in DOMAIN messages : messages[i].audio < toClient[1 + 1].answers
      BY <3>1 DEF Answering, Flow, InOrder, Sorted, n
    <3>3. \A i \in DOMAIN messages : messages[i].audio # toClient[1 + 1].answers
      BY <1>4, <3>2
    <3>4. QED
      BY <3>2, <3>3 DEF Due
  <2>5. Balanced(messages', n, outside)
    BY <1>0, <1>4, <2>2, <2>4, BalancedSpeaks DEF Answering, n
  <2>6. \E i \in DOMAIN Tail(toClient) : Tail(toClient)[i].type = "ASSISTANT_STOPPED"
    BY <1>0, <1>1, <1>6, WholeTail DEF Answering
  <2>7. QED
    BY <2>2, <2>3, <2>5, <2>6
<1>7. ASSUME e.type \notin {"ASSISTANT_STOPPED", "ASSISTANT_SPEAKING"}
      PROVE  uiState' = "speaking" =>
                 \E i \in DOMAIN Tail(toClient) : Tail(toClient)[i].type = "ASSISTANT_STOPPED"
  <2>1. uiState' = "speaking" => uiState = "speaking"
    BY <1>0, <1>7 DEF OnEvent
  <2>2. \A i \in DOMAIN toClient : toClient[i].type = "ASSISTANT_STOPPED" => i # 1
    BY <1>1, <1>7
  <2>3. QED
    BY <1>1, <2>1, <2>2 DEF Answering
<1>8. CASE e.type = "AUDIO_READY"
  <2>1. Offers(messages, messages', e)
    <3>1. messages' = AfterAudio(messages, e)
      BY <1>0, <1>8 DEF OnEvent
    <3>2. QED
      BY <1>0, <1>2, <3>1, AudioEffect
  <2>2. Whole(messages', Tail(toClient)) /\ OffersOne(messages, messages', e.answers)
    <3>1. e.gen # NoGen
      BY <1>0, <1>1, <1>8 DEF Named
    <3>2. \A i, j \in DOMAIN messages :
              messages[i].gen # NoGen /\ messages[i].gen = messages[j].gen => i = j
      BY <1>0 DEF Named
    <3>3. Whole(messages, toClient) /\ e = Head(toClient)
      BY DEF Answering, e
    <3>4. QED
      BY <1>0, <1>8, <2>1, <3>1, <3>2, <3>3, WholeOffers
  <2>3. PICK k \in Pending(messages) :
            /\ OffersAt(messages, messages', k, e.answers)
            /\ Pending(messages') = Pending(messages) \ {k}
    BY <2>2 DEF OffersOne
  <2>4. Flow(messages', Tail(toClient), toServer, n, outside)
    BY <1>0, <1>8, <2>3, FlowOffered DEF Answering, e, n
  <2>5. /\ e.answers \in (1..n) \ outside
        /\ \A i \in DOMAIN messages : messages[i].audio < e.answers
    BY <1>1, <1>8 DEF Answering, Flow, InOrder, Sorted, n
  <2>6. \A i \in DOMAIN messages : messages[i].audio # e.answers
    BY <1>4, <2>5
  <2>7. Balanced(messages', n, outside)
    BY <1>0, <2>3, <2>5, <2>6, BalancedOffers DEF Answering, n
  <2>8. QED
    BY <1>7, <1>8, <2>2, <2>4, <2>7
<1>9. CASE e.type \notin {"ASSISTANT_SPEAKING", "AUDIO_READY"}
  <2>1. messages' = messages
    BY <1>0, <1>1, <1>9 DEF OnEvent, WireEvents, EventTypes
  <2>2. KeepsAudio(messages, messages')
    BY <2>1 DEF KeepsAudio
  <2>3. Flow(messages', Tail(toClient), toServer, n, outside)
    BY <1>0, <1>9, <2>2, FlowReceived DEF Answering, e, n
  <2>4. Whole(messages', Tail(toClient))
    BY <1>0, <1>9, <2>1, WholeReceived DEF Answering, e
  <2>5. Balanced(messages', n, outside)
    BY <2>1 DEF Answering, n
  <2>6. e.type = "ASSISTANT_STOPPED" => uiState' # "speaking"
    BY <1>0 DEF OnEvent
  <2>7. QED
    BY <1>7, <1>9, <2>3, <2>4, <2>5, <2>6
<1>10. QED
  BY <1>6, <1>8, <1>9

\* No step disturbs the way of the questions, as long as nothing gets lost.
LEMMA AnsweringStep ==
    ASSUME ChatInv, [ChatNext]_chatVars, Reliable => Answering, Reliable'
    PROVE  Answering'
<1>0. /\ CountOK /\ ChatTypeOK /\ toServer \in Seq(Requests) /\ toClient \in Seq(WireEvents)
  BY DEF ChatInv, TypeInv, ChatTypeOK, Requests, WireEvents
<1>1. Reliable
  <2>1. /\ count.loss \in Nat /\ count.restart \in Nat /\ count.stray \in Nat
        /\ count'.loss >= count.loss /\ count'.restart >= count.restart
        /\ count'.stray >= count.stray
    <3>1. CASE \E what \in {"question", "toggle", "loss", "restart", "stray"} :
                   count' = [count EXCEPT ![what] = @ + 1]
      BY <1>0, <3>1 DEF CountOK
    <3>2. CASE UNCHANGED count
      BY <1>0, <3>2 DEF CountOK
    <3>3. QED
      BY <3>1, <3>2
         DEF ChatNext, SendText, SpeechEnds, Ask, StartVoice, StopVoice, WorkletError,
             Retry, SafeEnd, BackendHandles, Receive, ConnectionLost, BackendRestarts,
             AttemptFails, Opens, StrayEvent, Counted, Toggled, Fault, chatVars
  <2>2. QED
    BY <2>1 DEF Reliable
<1>2. Answering /\ Steady
  BY <1>1 DEF Reliable, Steady
<1>3. ChatInv'
  BY ChatInvStep
<1>4. messages' \in Seq(Message) /\ toClient' \in Seq(WireEvents)
  BY <1>3 DEF ChatInv, TypeInv, ChatTypeOK, WireEvents
<1>5. CASE SendText
  BY <1>2, <1>4, <1>5, TextAnswering
<1>6. CASE SpeechEnds
  BY <1>2, <1>4, <1>6, SpeechAnswering
<1>7. CASE StartVoice \/ StopVoice \/ Retry \/ SafeEnd \/ WorkletError \/ AttemptFails
  BY <1>2, <1>7, VoiceAnswering
<1>8. CASE BackendHandles
  <2> DEFINE q == Head(toServer)
  <2>1. q \in Requests
    BY <1>0, <1>8, HeadTailProperties DEF BackendHandles
  <2>2. result'[Conn] \in Seq(ServerEvent)
    BY <1>3, PageAssumption DEF ChatInv, TypeInv, ChatTypeOK, SMTypeOK
  <2>3. q.question \in Questions
    BY <2>1 DEF Requests
  <2> HIDE DEF q
  <2>4. Written(q) \in Seq(WireEvents)
    BY <2>2, <2>3, WrittenEvents DEF Written
  <2>5. QED
    BY <1>2, <1>8, <2>4, BackendAnswering DEF q
<1>9. CASE Receive
  BY <1>2, <1>4, <1>9, ReceiveAnswering
<1>10. CASE ConnectionLost \/ BackendRestarts \/ StrayEvent
  <2>1. count'.loss # 0 \/ count'.restart # 0 \/ count'.stray # 0
    BY <1>0, <1>10 DEF ConnectionLost, BackendRestarts, StrayEvent, Fault, CountOK
  <2>2. QED
    BY <2>1 DEF Reliable
<1>11. CASE Opens
  <2>1. ~RequireActive(Page)
    BY <1>2, <1>11 DEF Answering, Opens
  <2>2. sessionActive => \E i \in DOMAIN toServer : toServer[i].type = "START_SESSION"
    BY <1>2, <2>1 DEF Answering, Welcome, OpenAt
  <2>3. toServer' = toServer
    BY <1>11, <2>2 DEF Opens
  <2>4. /\ online'
        /\ UNCHANGED <<known, session, messages, sessionActive, outside, toClient,
                       uiState, count>>
    BY <1>11 DEF Opens, smVars, pageVars, voiceVars
  <2>5. QED
    BY <1>2, <2>3, <2>4, CalmAnswering
<1>12. CASE UNCHANGED chatVars
  <2>1. UNCHANGED <<known, session, messages, sessionActive, outside, toServer, toClient,
                    online, uiState, count>>
    BY <1>12 DEF chatVars, smVars, pageVars, voiceVars, wires
  <2>2. QED
    BY <1>2, <2>1, CalmAnswering
<1>13. QED
  BY <1>5, <1>6, <1>7, <1>8, <1>9, <1>10, <1>11, <1>12 DEF ChatNext

LEMMA AnsweringInit == ChatInit => Answering
<1> SUFFICES ASSUME ChatInit PROVE Answering
  OBVIOUS
<1>1. /\ messages = <<>> /\ toClient = <<>> /\ toServer = <<>> /\ count.question = 0
      /\ uiState = "idle" /\ ~sessionActive /\ known = {} /\ DOMAIN <<>> = {} /\ 1..0 = {}
      /\ outside = {} /\ ~online
  BY DEF ChatInit, SMInit
<1>2. Pending(messages) = {} /\ Due(messages, count.question, outside) = {}
  BY <1>1 DEF Pending, Due
<1>3. Balanced(messages, count.question, outside)
  BY <1>2, FS_EmptySet DEF Balanced
<1>4. ~session[Page].active
  BY PageAssumption DEF ChatInit, SMInit, Fresh
<1>5. ~RequireActive(Page)
  BY <1>1 DEF RequireActive
<1>6. Welcome(toServer, RequireActive(Page), sessionActive, outside)
  BY <1>1, <1>5 DEF Welcome, OpenAt
<1>7. QED
  BY <1>1, <1>3, <1>4, <1>5, <1>6
     DEF Answering, Flow, InOrder, Accounted, Sorted, Whole

\* When all requests were handled and all events received, nothing is left that
\* could be due.
LEMMA QuietAnswers ==
    ASSUME ChatInv, Reliable => Answering PROVE EveryReplyOffered
<1> SUFFICES ASSUME Reliable, Quiet PROVE EveryReplyOffered
  BY DEF EveryReplyOffered
<1> DEFINE n == count.question
<1>0. /\ Answering /\ toServer = <<>> /\ toClient = <<>> /\ DOMAIN <<>> = {}
      /\ messages \in Seq(Message) /\ n \in Nat
  BY ChatBounds DEF Quiet, ChatInv, TypeInv, ChatTypeOK, CountOK, Questions
<1> HIDE DEF n
<1>1. uiState # "speaking"
  BY <1>0 DEF Answering
<1>2. \A k \in (1..n) \ outside : \E i \in DOMAIN messages : messages[i].audio = k
  BY <1>0 DEF Answering, Flow, Accounted, n
<1>3. \A k \in 1..n : \A i, j \in DOMAIN messages :
          messages[i].audio = k /\ messages[j].audio = k => j = i
  <2>1. \A k \in 1..n : k # 0
    OBVIOUS
  <2>2. QED
    BY <1>0, <2>1 DEF Answering, Flow, InOrder
<1>4. Pending(messages) = {}
  <2>1. Due(messages, n, outside) = {}
    BY <1>2 DEF Due
  <2>2. /\ IsFiniteSet(Pending(messages)) /\ Cardinality(Pending(messages)) \in Nat
        /\ Cardinality(Pending(messages)) <= Cardinality(Due(messages, n, outside))
    BY <1>0, FiniteCounts DEF Answering, Balanced, n
  <2>3. Cardinality(Due(messages, n, outside)) = 0
    BY <2>1, FS_EmptySet
  <2>4. Cardinality(Pending(messages)) = 0
    BY <2>2, <2>3
  <2>5. QED
    BY <2>2, <2>4, FS_EmptySet
<1>5. \A i \in DOMAIN messages : messages[i].phase # "pending"
  BY <1>4 DEF Pending
<1>6. \A k \in Asked \ outside :
          \E i \in DOMAIN messages :
              /\ messages[i].audio = k
              /\ \A j \in DOMAIN messages : messages[j].audio = k => j = i
  BY <1>2, <1>3 DEF Asked, n
<1>7. QED
  BY <1>1, <1>5, <1>6 DEF EveryReplyOffered

\* While nothing is lost each question is in one place, on its way, being answered
\* or in the log, and no more messages wait than questions are due (onEvent,
\* handleSendText, onSpeechEnd, handlePipeline).
THEOREM AnsweringInvariant == ChatSpec => [](ChatInv /\ (Reliable => Answering))
<1>1. ChatInit => ChatInv /\ (Reliable => Answering)
  BY ChatInvInit, AnsweringInit
<1>2. ChatInv /\ (Reliable => Answering) /\ [ChatNext]_chatVars
          => (ChatInv /\ (Reliable => Answering))'
  BY ChatInvStep, AnsweringStep
<1>3. QED
  BY <1>1, <1>2, PTL DEF ChatSpec

\* Every question typed, or spoken while the client had a session, however many
\* and however they overlap with the replies and with the questions that a
\* stopped capture still reports, is answered by the audio of exactly one
\* message, and no message and no status stays behind (onEvent, handleSendText,
\* onSpeechEnd, handleStop, handleRetry, handleSafeEnd, handlePipeline).
THEOREM RepliesOffered == ChatSpec => []EveryReplyOffered
<1>1. ChatInv /\ (Reliable => Answering) => EveryReplyOffered
  BY QuietAnswers
<1>2. QED
  BY <1>1, AnsweringInvariant, PTL

\* While nothing is lost, nothing is refused but the questions that a stopped
\* capture reported outside a session, and a STOP_SESSION without a session.
THEOREM RefusalsAreLate ==
    ChatSpec => [](Reliable => \A i \in DOMAIN toClient :
                       toClient[i].type = "ERROR" => toClient[i].answers \in outside \union {0})
<1>1. (Reliable => Answering)
          => (Reliable => \A i \in DOMAIN toClient :
                  toClient[i].type = "ERROR" => toClient[i].answers \in outside \union {0})
  BY DEF Answering, Sorted
<1>2. QED
  BY <1>1, AnsweringInvariant, PTL

=============================================================================
