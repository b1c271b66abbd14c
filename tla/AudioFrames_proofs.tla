--------------------------- MODULE AudioFrames_proofs ---------------------------
(***************************************************************************)
(* Proofs about AudioFrames: that the counters of the worklet decide as    *)
(* the definition of speech does, and that the capture loses and mixes     *)
(* nothing, for every frame size, chunk size and pair of thresholds and    *)
(* however far the port lags behind.                                       *)
(***************************************************************************)
EXTENDS AudioFrames, FiniteSetTheorems, FunctionTheorems, SequenceTheorems, TLAPS

-----------------------------------------------------------------------------
(* Arithmetic *)

LEMMA TimesGrows ==
    ASSUME NEW b \in Nat, NEW m \in Int, NEW n \in Int, m <= n
    PROVE  b * m <= b * n /\ b * m \in Int /\ b * n \in Int
OBVIOUS

LEMMA TimesNext ==
    ASSUME NEW b \in Int, NEW n \in Int
    PROVE  b * (n + 1) = b * n + b /\ b * n \in Int
OBVIOUS

\* What \div means.
LEMMA Division ==
    ASSUME NEW a \in Int, NEW b \in Nat \ {0}
    PROVE  /\ a \div b \in Int /\ a % b \in 0..(b - 1)
           /\ a = b * (a \div b) + (a % b)
OBVIOUS

LEMMA DivisionUnique ==
    ASSUME NEW b \in Nat \ {0}, NEW q \in Int, NEW r \in 0..(b - 1)
    PROVE  (b * q + r) \div b = q /\ (b * q + r) % b = r
<1> DEFINE a == b * q + r
           d == a \div b
           m == a % b
<1>1. a \in Int
  OBVIOUS
<1>2. d \in Int /\ m \in 0..(b - 1) /\ a = b * d + m
  BY <1>1, Division
<1>3. b * q \in Int /\ b * d \in Int /\ b * q + r = b * d + m
  BY <1>2
<1> HIDE DEF a, d, m
<1>4. ~(d + 1 <= q)
  <2>1. SUFFICES ASSUME d + 1 <= q PROVE FALSE
    OBVIOUS
  <2>2. b * (d + 1) <= b * q /\ b * (d + 1) = b * d + b
    BY <1>2, <2>1, TimesGrows, TimesNext
  <2>3. QED
    BY <1>2, <1>3, <2>2
<1>5. ~(q + 1 <= d)
  <2>1. SUFFICES ASSUME q + 1 <= d PROVE FALSE
    OBVIOUS
  <2>2. b * (q + 1) <= b * d /\ b * (q + 1) = b * q + b
    BY <1>2, <2>1, TimesGrows, TimesNext
  <2>3. QED
    BY <1>2, <1>3, <2>2
<1>6. d = q
  BY <1>2, <1>4, <1>5
<1>7. m = r
  BY <1>2, <1>3, <1>6
<1>8. QED
  BY <1>6, <1>7 DEF a, d, m

LEMMA ChunkSamplesPositive == ChunkSamples \in Nat \ {0}
<1> DEFINE clamped == IF ChunkDurationMs < 20 THEN 20
                      ELSE IF ChunkDurationMs > 50 THEN 50 ELSE ChunkDurationMs
           samples == (2 * SampleRate * clamped + 1000) \div 2000
<1>1. clamped \in Int /\ SampleRate \in Int
  BY FramesAssumption
<1>2. 2 * SampleRate * clamped + 1000 \in Int
  <2> HIDE DEF clamped
  <2> QED BY <1>1
<1>3. samples \in Int
  <2> HIDE DEF clamped
  <2> QED BY <1>2, Division
<1>4. ChunkSamples = IF samples < 1 THEN 1 ELSE samples
  BY DEF ChunkSamples, ResolveChunkSamples
<1> HIDE DEF samples
<1>5. QED
  BY <1>3, <1>4
-----------------------------------------------------------------------------
(* Speech by definition, in a history h of frames *)

History == Seq(BOOLEAN)

RunIn(h, n, length, loud) ==
    n >= length /\ \A i \in (n - length + 1)..n : h[i] = loud
SpeechIn(h, n) ==
    \E i \in 1..n : /\ RunIn(h, i, SpeechStartFrames, TRUE)
                    /\ \A j \in (i + 1)..n : ~RunIn(h, j, SpeechEndFrames, FALSE)

LEMMA SpeechIsIn == \A n : /\ SpeechAfter(n) <=> SpeechIn(heard, n)
                           /\ SpeechAfter(n)' <=> SpeechIn(heard', n)
BY Zenon DEF SpeechAfter, SpeechIn, RunEnds, RunIn

LEMMA HistoryGrows ==
    ASSUME NEW h \in History, NEW loud \in BOOLEAN
    PROVE  /\ Append(h, loud) \in History /\ Len(h) \in Nat
           /\ Len(Append(h, loud)) = Len(h) + 1
           /\ \A i \in 1..Len(h) : Append(h, loud)[i] = h[i]
           /\ Append(h, loud)[Len(h) + 1] = loud
BY LenProperties, AppendProperties DEF History

\* Another frame leaves the past as it was.
LEMMA RunKept ==
    ASSUME NEW h \in History, NEW loud \in BOOLEAN,
           NEW n \in 0..Len(h), NEW length \in Nat \ {0}, NEW b
    PROVE  RunIn(Append(h, loud), n, length, b) <=> RunIn(h, n, length, b)
<1> DEFINE g == Append(h, loud)
<1>1. Len(h) \in Nat /\ \A i \in 1..Len(h) : g[i] = h[i]
  BY HistoryGrows
<1> HIDE DEF g
<1>2. n >= length => \A i \in (n - length + 1)..n : g[i] = h[i]
  BY <1>1
<1>3. RunIn(g, n, length, b) <=> RunIn(h, n, length, b)
  BY <1>2 DEF RunIn
<1>4. QED
  BY <1>3 DEF g

LEMMA SpeechKept ==
    ASSUME NEW h \in History, NEW loud \in BOOLEAN, NEW n \in 0..Len(h)
    PROVE  SpeechIn(Append(h, loud), n) <=> SpeechIn(h, n)
<1> DEFINE g == Append(h, loud)
<1>1. \A i \in 0..Len(h) :
         /\ RunIn(g, i, SpeechStartFrames, TRUE) <=> RunIn(h, i, SpeechStartFrames, TRUE)
         /\ RunIn(g, i, SpeechEndFrames, FALSE) <=> RunIn(h, i, SpeechEndFrames, FALSE)
  BY RunKept, FramesAssumption
<1>2. Len(h) \in Nat
  BY HistoryGrows
<1>3. \A i \in 1..n : i \in 0..Len(h) /\ \A j \in (i + 1)..n : j \in 0..Len(h)
  BY <1>2
<1> HIDE DEF g
<1>4. SpeechIn(g, n) <=> SpeechIn(h, n)
  BY <1>1, <1>3 DEF SpeechIn
<1>5. QED
  BY <1>4 DEF g

\* Speech goes on after frame n if that frame completes the run that begins it,
\* or if it went on before and the frame does not complete the run that ends it.
LEMMA SpeechByFrame ==
    ASSUME NEW h \in History, NEW n \in 1..Len(h)
    PROVE  SpeechIn(h, n) <=> \/ RunIn(h, n, SpeechStartFrames, TRUE)
                              \/ /\ SpeechIn(h, n - 1)
                                 /\ ~RunIn(h, n, SpeechEndFrames, FALSE)
<1> DEFINE begins(i) == RunIn(h, i, SpeechStartFrames, TRUE)
           ends(j) == RunIn(h, j, SpeechEndFrames, FALSE)
<1>1. /\ SpeechIn(h, n) <=> \E i \in 1..n : begins(i) /\ \A j \in (i + 1)..n : ~ends(j)
      /\ SpeechIn(h, n - 1) <=>
             \E i \in 1..(n - 1) : begins(i) /\ \A j \in (i + 1)..(n - 1) : ~ends(j)
  BY DEF SpeechIn
<1>2. n \in Nat \ {0}
  BY LenProperties DEF History
<1> HIDE DEF begins, ends
<1>3. ASSUME begins(n) PROVE \E i \in 1..n : begins(i) /\ \A j \in (i + 1)..n : ~ends(j)
  <2>1. n \in 1..n /\ \A j \in (n + 1)..n : ~ends(j)
    BY <1>2
  <2>2. QED
    BY <1>3, <2>1
<1>4. ASSUME SpeechIn(h, n - 1), ~ends(n)
      PROVE  \E i \in 1..n : begins(i) /\ \A j \in (i + 1)..n : ~ends(j)
  <2>1. PICK i \in 1..(n - 1) : begins(i) /\ \A j \in (i + 1)..(n - 1) : ~ends(j)
    BY <1>1, <1>4
  <2>2. i \in 1..n /\ \A j \in (i + 1)..n : j = n \/ j \in (i + 1)..(n - 1)
    BY <1>2
  <2>3. QED
    BY <1>4, <2>1, <2>2
<1>5. ASSUME NEW i \in 1..n, begins(i), \A j \in (i + 1)..n : ~ends(j), ~begins(n)
      PROVE  SpeechIn(h, n - 1) /\ ~ends(n)
  <2>1. i \in 1..(n - 1)
    BY <1>2, <1>5
  <2>2. n \in (i + 1)..n /\ \A j \in (i + 1)..(n - 1) : j \in (i + 1)..n
    BY <1>2, <2>1
  <2>3. QED
    BY <1>1, <1>5, <2>1, <2>2
<1>6. SpeechIn(h, n) <=> begins(n) \/ (SpeechIn(h, n - 1) /\ ~ends(n))
  BY <1>1, <1>3, <1>4, <1>5
<1>7. QED
  BY <1>6 DEF begins, ends

LEMMA NoSpeechAtFirst == ASSUME NEW h PROVE ~SpeechIn(h, 0)
BY DEF SpeechIn

-----------------------------------------------------------------------------
(* The counters *)

\* The count is the length of the run of equal frames that the history ends in.
CountsRun(h, count, loud) ==
    /\ count \in 0..Len(h)
    /\ \A i \in (Len(h) - count + 1)..Len(h) : h[i] = loud
    /\ count < Len(h) => h[Len(h) - count] # loud

LEMMA CountStarts == \A loud : CountsRun(<<>>, 0, loud)
BY DEF CountsRun

LEMMA CountGrows ==
    ASSUME NEW h \in History, NEW count, NEW loud \in BOOLEAN, CountsRun(h, count, loud)
    PROVE  CountsRun(Append(h, loud), count + 1, loud)
<1> DEFINE g == Append(h, loud)
<1>1. /\ Len(h) \in Nat /\ Len(g) = Len(h) + 1
      /\ \A i \in 1..Len(h) : g[i] = h[i]
      /\ g[Len(h) + 1] = loud
  BY HistoryGrows
<1> HIDE DEF g
<1>2. CountsRun(g, count + 1, loud)
  <2>1. count + 1 \in 0..Len(g)
    BY <1>1 DEF CountsRun
  <2>2. ASSUME NEW i \in (Len(g) - (count + 1) + 1)..Len(g) PROVE g[i] = loud
    <3>1. CASE i = Len(h) + 1
      BY <1>1, <3>1
    <3>2. CASE i # Len(h) + 1
      <4>1. i \in (Len(h) - count + 1)..Len(h) /\ i \in 1..Len(h)
        BY <1>1, <3>2 DEF CountsRun
      <4>2. QED
        BY <1>1, <4>1 DEF CountsRun
    <3>3. QED
      BY <3>1, <3>2
  <2>3. ASSUME count + 1 < Len(g) PROVE g[Len(g) - (count + 1)] # loud
    <3>1. Len(g) - (count + 1) = Len(h) - count /\ count < Len(h) /\ Len(h) - count \in 1..Len(h)
      BY <1>1, <2>3 DEF CountsRun
    <3>2. QED
      BY <1>1, <3>1 DEF CountsRun
  <2>4. QED
    BY <2>1, <2>2, <2>3 DEF CountsRun
<1>3. QED
  BY <1>2 DEF g

LEMMA CountEnds ==
    ASSUME NEW h \in History, NEW loud \in BOOLEAN, NEW other, other # loud
    PROVE  CountsRun(Append(h, loud), 0, other)
<1> DEFINE g == Append(h, loud)
<1>1. Len(h) \in Nat /\ Len(g) = Len(h) + 1 /\ g[Len(h) + 1] = loud
  BY HistoryGrows
<1> HIDE DEF g
<1>2. Len(g) \in Nat /\ Len(g) - 0 = Len(h) + 1 /\ (Len(g) - 0 + 1)..Len(g) = {}
  BY <1>1
<1>3. CountsRun(g, 0, other)
  BY <1>1, <1>2 DEF CountsRun
<1>4. QED
  BY <1>3 DEF g

\* A counter reaches a threshold exactly when the run of that length is complete.
LEMMA CountDecides ==
    ASSUME NEW h \in History, NEW count, NEW loud, CountsRun(h, count, loud),
           NEW length \in Nat \ {0}
    PROVE  RunIn(h, Len(h), length, loud) <=> count >= length
<1>0. Len(h) \in Nat
  BY LenProperties DEF History
<1>1. ASSUME count >= length PROVE RunIn(h, Len(h), length, loud)
  <2>1. Len(h) >= length
    BY <1>0, <1>1 DEF CountsRun
  <2>2. \A i \in (Len(h) - length + 1)..Len(h) : i \in (Len(h) - count + 1)..Len(h)
    BY <1>0, <1>1 DEF CountsRun
  <2>3. QED
    BY <2>1, <2>2 DEF RunIn, CountsRun
<1>2. ASSUME RunIn(h, Len(h), length, loud), ~(count >= length) PROVE FALSE
  <2>1. count < Len(h) /\ Len(h) - count \in (Len(h) - length + 1)..Len(h)
    BY <1>0, <1>2 DEF RunIn, CountsRun
  <2>2. QED
    BY <1>2, <2>1 DEF RunIn, CountsRun
<1>3. QED
  BY <1>1, <1>2

-----------------------------------------------------------------------------
(* Reports among messages *)

Messages == [type : {"speech_start", "speech_end", "audio_frame"}, samples : Seq(Int)]
IsReport(m) == m.type # "audio_frame"
Marks(p, i) == {j \in 1..i : IsReport(p[j])}

LEMMA MarksFinite ==
    ASSUME NEW p, NEW i \in Nat
    PROVE  /\ IsFiniteSet(Marks(p, i)) /\ Cardinality(Marks(p, i)) \in Nat
           /\ \A j \in Marks(p, i) : j \in 1..i
<1>1. IsFiniteSet(1..i)
  BY FS_Interval
<1>2. Marks(p, i) \in SUBSET (1..i)
  BY DEF Marks
<1>3. QED
  BY <1>1, <1>2, FS_Subset, FS_CardinalityType

LEMMA NoMarks == ASSUME NEW p PROVE Cardinality(Marks(p, 0)) = 0
<1>1. Marks(p, 0) = {}
  BY DEF Marks
<1>2. QED
  BY <1>1, FS_EmptySet

\* One place more.
LEMMA MarksNext ==
    ASSUME NEW p, NEW i \in Nat
    PROVE  Cardinality(Marks(p, i + 1)) =
               Cardinality(Marks(p, i)) + (IF IsReport(p[i + 1]) THEN 1 ELSE 0)
<1>1. IsFiniteSet(Marks(p, i)) /\ Cardinality(Marks(p, i)) \in Nat /\ i + 1 \notin Marks(p, i)
  BY MarksFinite
<1>2. CASE IsReport(p[i + 1])
  <2>1. Marks(p, i + 1) = Marks(p, i) \union {i + 1}
    BY <1>2 DEF Marks
  <2>2. Cardinality(Marks(p, i) \union {i + 1}) = Cardinality(Marks(p, i)) + 1
    BY <1>1, FS_AddElement
  <2>3. QED
    BY <1>2, <2>1, <2>2
<1>3. CASE ~IsReport(p[i + 1])
  <2>1. Marks(p, i + 1) = Marks(p, i)
    BY <1>3 DEF Marks
  <2>2. QED
    BY <1>1, <1>3, <2>1
<1>4. QED
  BY <1>2, <1>3

LEMMA MarksSame ==
    ASSUME NEW p, NEW q, NEW i \in Nat, \A j \in 1..i : q[j] = p[j]
    PROVE  Marks(q, i) = Marks(p, i)
BY DEF Marks

\* One place less at the front.
LEMMA MarksShift ==
    ASSUME NEW p, NEW q, NEW i \in Nat, \A j \in 1..i : q[j] = p[j + 1]
    PROVE  Cardinality(Marks(p, i + 1)) =
               Cardinality(Marks(q, i)) + (IF IsReport(p[1]) THEN 1 ELSE 0)
<1> DEFINE S == Marks(q, i)
           T == Marks(p, i + 1) \ {1}
           f == [j \in S |-> j + 1]
<1>1. IsFiniteSet(S) /\ \A j \in S : j \in 1..i
  BY MarksFinite
<1>2. \A j \in 1..i : j \in S <=> j + 1 \in T
  BY DEF Marks
<1>3. \A k \in T : k - 1 \in 1..i /\ (k - 1) + 1 = k
  BY DEF Marks
<1> HIDE DEF S, T
<1>4. f \in [S -> T] /\ \A a, b \in S : f[a] = f[b] => a = b
  BY <1>1, <1>2
<1>5. \A k \in T : \E j \in S : f[j] = k
  BY <1>2, <1>3
<1>6. f \in Bijection(S, T)
  <2> HIDE DEF f
  <2> QED BY <1>4, <1>5, Fun_IsBij
<1>7. Cardinality(T) = Cardinality(S)
  <2>1. ExistsBijection(S, T)
    BY <1>6 DEF ExistsBijection
  <2>2. QED
    BY <1>1, <2>1, FS_Bijection
<1>8. IsFiniteSet(Marks(p, i + 1)) /\ Cardinality(Marks(p, i + 1)) \in Nat
  BY MarksFinite
<1>9. Cardinality(T) = IF 1 \in Marks(p, i + 1) THEN Cardinality(Marks(p, i + 1)) - 1
                                                ELSE Cardinality(Marks(p, i + 1))
  <2>1. Cardinality(Marks(p, i + 1) \ {1}) =
            IF 1 \in Marks(p, i + 1) THEN Cardinality(Marks(p, i + 1)) - 1
                                     ELSE Cardinality(Marks(p, i + 1))
    BY <1>8, FS_RemoveElement
  <2>2. QED
    BY <2>1 DEF T
<1>10. 1 \in Marks(p, i + 1) <=> IsReport(p[1])
  BY DEF Marks
<1>11. QED
  BY <1>7, <1>8, <1>9, <1>10 DEF S

ReportTypes == {"speech_start", "speech_end"}

\* How many reports there are once i messages of the port p follow the reports r.
ToldIn(r, p, i) == Len(r) + Cardinality(Marks(p, i))

\* Those made and those on their way begin and end utterances by turns.
Alternate(r, p) ==
    /\ \A k \in 1..Len(r) : r[k] = Report(k)
    /\ \A i \in 1..Len(p) : IsReport(p[i]) => p[i].type = Report(ToldIn(r, p, i))

LEMMA ToldIsIn == \A i : /\ Told(i) = ToldIn(reports, port, i)
                         /\ Told(i)' = ToldIn(reports', port', i)
BY DEF Told, ToldIn, Marks, IsReport

\* A message that is posted.
LEMMA PostedMessage ==
    ASSUME NEW p \in Seq(Messages), NEW m \in Messages
    PROVE  /\ Append(p, m) \in Seq(Messages) /\ Len(p) \in Nat
           /\ Len(Append(p, m)) = Len(p) + 1
           /\ \A i \in 1..Len(p) : Append(p, m)[i] = p[i]
           /\ Append(p, m)[Len(p) + 1] = m
BY LenProperties, AppendProperties

LEMMA PostedCounts ==
    ASSUME NEW r \in Seq(ReportTypes), NEW p \in Seq(Messages), NEW m \in Messages
    PROVE  /\ ToldIn(r, p, Len(p)) \in Nat
           /\ ToldIn(r, Append(p, m), Len(p) + 1) =
                  ToldIn(r, p, Len(p)) + (IF IsReport(m) THEN 1 ELSE 0)
           /\ \A i \in 0..Len(p) : ToldIn(r, Append(p, m), i) = ToldIn(r, p, i)
<1> DEFINE q == Append(p, m)
<1>1. /\ Len(p) \in Nat /\ Len(r) \in Nat
      /\ \A i \in 1..Len(p) : q[i] = p[i]
      /\ q[Len(p) + 1] = m
  BY PostedMessage, LenProperties
<1> HIDE DEF q
<1>2. \A i \in 0..Len(p) : Marks(q, i) = Marks(p, i)
  <2>1. ASSUME NEW i \in 0..Len(p) PROVE Marks(q, i) = Marks(p, i)
    <3>1. i \in Nat /\ \A j \in 1..i : q[j] = p[j]
      BY <1>1
    <3>2. QED
      BY <3>1, MarksSame
  <2>2. QED
    BY <2>1
<1>3. Cardinality(Marks(q, Len(p) + 1)) =
          Cardinality(Marks(q, Len(p))) + (IF IsReport(m) THEN 1 ELSE 0)
  BY <1>1, MarksNext
<1>4. Cardinality(Marks(p, Len(p))) \in Nat
  BY <1>1, MarksFinite
<1>5. Marks(q, Len(p)) = Marks(p, Len(p))
  BY <1>1, <1>2
<1>6. ToldIn(r, q, Len(p) + 1) = ToldIn(r, p, Len(p)) + (IF IsReport(m) THEN 1 ELSE 0)
  BY <1>1, <1>3, <1>4, <1>5 DEF ToldIn
<1>7. QED
  BY <1>1, <1>2, <1>4, <1>6 DEF ToldIn, q

LEMMA PostedInTurn ==
    ASSUME NEW r \in Seq(ReportTypes), NEW p \in Seq(Messages), NEW m \in Messages,
           Alternate(r, p), IsReport(m) => m.type = Report(ToldIn(r, p, Len(p)) + 1)
    PROVE  Alternate(r, Append(p, m))
<1> DEFINE q == Append(p, m)
<1>1. /\ Len(p) \in Nat /\ Len(q) = Len(p) + 1
      /\ \A i \in 1..Len(p) : q[i] = p[i]
      /\ q[Len(p) + 1] = m
  BY PostedMessage
<1>2. /\ ToldIn(r, q, Len(p) + 1) =
             ToldIn(r, p, Len(p)) + (IF IsReport(m) THEN 1 ELSE 0)
      /\ \A i \in 0..Len(p) : ToldIn(r, q, i) = ToldIn(r, p, i)
  BY PostedCounts
<1> HIDE DEF q
<1>3. ASSUME NEW i \in 1..Len(q), IsReport(q[i]) PROVE q[i].type = Report(ToldIn(r, q, i))
  <2>1. CASE i = Len(p) + 1
    BY <1>1, <1>2, <1>3, <2>1
  <2>2. CASE i # Len(p) + 1
    <3>1. i \in 1..Len(p) /\ i \in 0..Len(p)
      BY <1>1, <2>2
    <3>2. QED
      BY <1>1, <1>2, <1>3, <3>1 DEF Alternate
  <2>3. QED
    BY <2>1, <2>2
<1>4. Alternate(r, q)
  BY <1>3 DEF Alternate
<1>5. QED
  BY <1>4 DEF q

\* A message that is delivered.
LEMMA DeliveredMessage ==
    ASSUME NEW p \in Seq(Messages), p # <<>>
    PROVE  /\ Tail(p) \in Seq(Messages) /\ Len(p) \in Nat \ {0} /\ Len(Tail(p)) = Len(p) - 1
           /\ \A i \in 1..(Len(p) - 1) : Tail(p)[i] = p[i + 1]
           /\ Head(p) = p[1] /\ p[1] \in Messages
BY EmptySeq, LenProperties, HeadTailProperties

LEMMA DeliveredCounts ==
    ASSUME NEW p \in Seq(Messages), p # <<>>, NEW r \in Seq(ReportTypes),
           NEW s, Len(s) = Len(r) + (IF IsReport(p[1]) THEN 1 ELSE 0)
    PROVE  \A i \in 0..Len(Tail(p)) : ToldIn(s, Tail(p), i) = ToldIn(r, p, i + 1)
<1> DEFINE q == Tail(p)
<1>1. /\ Len(p) \in Nat \ {0} /\ Len(q) = Len(p) - 1 /\ Len(r) \in Nat
      /\ \A i \in 1..(Len(p) - 1) : q[i] = p[i + 1]
  BY DeliveredMessage, LenProperties
<1> HIDE DEF q
<1>2. ASSUME NEW i \in 0..Len(q) PROVE ToldIn(s, q, i) = ToldIn(r, p, i + 1)
  <2>1. i \in Nat /\ \A j \in 1..i : q[j] = p[j + 1]
    BY <1>1
  <2>2. Cardinality(Marks(p, i + 1)) =
            Cardinality(Marks(q, i)) + (IF IsReport(p[1]) THEN 1 ELSE 0)
    BY <2>1, MarksShift
  <2>3. Cardinality(Marks(q, i)) \in Nat
    BY <2>1, MarksFinite
  <2>4. QED
    BY <1>1, <2>2, <2>3 DEF ToldIn
<1>3. QED
  BY <1>2 DEF q

LEMMA ToldAtFirst ==
    ASSUME NEW r \in Seq(ReportTypes), NEW p
    PROVE  /\ ToldIn(r, p, 0) = Len(r)
           /\ ToldIn(r, p, 1) = Len(r) + (IF IsReport(p[1]) THEN 1 ELSE 0)
<1>1. Len(r) \in Nat /\ Cardinality(Marks(p, 0)) = 0
  BY NoMarks, LenProperties
<1>2. Cardinality(Marks(p, 0 + 1)) =
          Cardinality(Marks(p, 0)) + (IF IsReport(p[0 + 1]) THEN 1 ELSE 0)
  BY MarksNext
<1>3. QED
  BY <1>1, <1>2 DEF ToldIn

LEMMA DeliveredInTurn ==
    ASSUME NEW p \in Seq(Messages), p # <<>>, NEW r \in Seq(ReportTypes), Alternate(r, p)
    PROVE  /\ IsReport(p[1]) => Alternate(Append(r, p[1].type), Tail(p))
           /\ ~IsReport(p[1]) => Alternate(r, Tail(p))
<1> DEFINE q == Tail(p)
           s == IF IsReport(p[1]) THEN Append(r, p[1].type) ELSE r
<1>1. /\ Len(p) \in Nat \ {0} /\ Len(q) = Len(p) - 1 /\ Len(r) \in Nat
      /\ \A i \in 1..(Len(p) - 1) : q[i] = p[i + 1]
      /\ p[1] \in Messages
  BY DeliveredMessage, LenProperties
<1>2. /\ IsReport(p[1]) => /\ p[1].type \in ReportTypes
                           /\ Len(s) = Len(r) + 1 /\ s[Len(r) + 1] = p[1].type
                           /\ \A k \in 1..Len(r) : s[k] = r[k]
      /\ ~IsReport(p[1]) => s = r
  <2>1. IsReport(p[1]) => p[1].type \in ReportTypes
    BY <1>1 DEF IsReport, Messages, ReportTypes
  <2>2. QED
    BY <2>1, LenProperties, AppendProperties
<1>3. \A i \in 0..Len(q) : ToldIn(s, q, i) = ToldIn(r, p, i + 1)
  <2>1. Len(s) = Len(r) + (IF IsReport(p[1]) THEN 1 ELSE 0)
    BY <1>1, <1>2
  <2> HIDE DEF s
  <2>2. QED
    BY <2>1, DeliveredCounts
<1>4. IsReport(p[1]) => p[1].type = Report(Len(r) + 1)
  <2>1. IsReport(p[1]) => p[1].type = Report(ToldIn(r, p, 1))
    BY <1>1 DEF Alternate
  <2>2. QED
    BY <2>1, ToldAtFirst
<1> HIDE DEF q, s
<1>5. ASSUME NEW k \in 1..Len(s) PROVE s[k] = Report(k)
  <2>1. k \in 1..Len(r) \/ (IsReport(p[1]) /\ k = Len(r) + 1)
    BY <1>1, <1>2
  <2>2. QED
    BY <1>2, <1>4, <2>1 DEF Alternate
<1>6. ASSUME NEW i \in 1..Len(q), IsReport(q[i]) PROVE q[i].type = Report(ToldIn(s, q, i))
  <2>1. i \in 1..(Len(p) - 1) /\ i \in 0..Len(q) /\ i + 1 \in 1..Len(p)
    BY <1>1
  <2>2. QED
    BY <1>1, <1>3, <1>6, <2>1 DEF Alternate
<1>7. Alternate(s, q)
  BY <1>5, <1>6 DEF Alternate
<1>8. QED
  BY <1>7 DEF s, q

-----------------------------------------------------------------------------
(* Where utterances begin and end in a history *)

ChangesIn(h) == {n \in 1..Len(h) : ~(SpeechIn(h, n) <=> SpeechIn(h, n - 1))}

LEMMA ChangesAreIn == heard \in History => Changes = ChangesIn(heard)
<1> SUFFICES ASSUME heard \in History PROVE Changes = ChangesIn(heard)
  OBVIOUS
<1>1. DOMAIN heard = 1..Len(heard)
  BY LenProperties DEF History
<1>2. \A n : SpeechAfter(n) \in BOOLEAN
  BY DEF SpeechAfter
<1>3. \A n : (SpeechAfter(n) # SpeechAfter(n - 1)) <=> ~(SpeechIn(heard, n) <=> SpeechIn(heard, n - 1))
  BY <1>2, SpeechIsIn, Zenon
<1>4. QED
  BY <1>1, <1>3 DEF Changes, ChangesIn

LEMMA ChangesGrow ==
    ASSUME NEW h \in History, NEW loud \in BOOLEAN
    PROVE  /\ Cardinality(ChangesIn(h)) \in Nat
           /\ Cardinality(ChangesIn(Append(h, loud))) =
                  Cardinality(ChangesIn(h))
                  + (IF SpeechIn(Append(h, loud), Len(h) + 1) <=> SpeechIn(h, Len(h)) THEN 0 ELSE 1)
<1> DEFINE g == Append(h, loud)
           same == SpeechIn(g, Len(h) + 1) <=> SpeechIn(h, Len(h))
<1>1. Len(h) \in Nat /\ Len(g) = Len(h) + 1
  BY HistoryGrows
<1>2. \A n \in 0..Len(h) : SpeechIn(g, n) <=> SpeechIn(h, n)
  BY SpeechKept
<1> HIDE DEF g
<1>3. \A n \in 1..Len(h) : n \in 0..Len(h) /\ n - 1 \in 0..Len(h)
  BY <1>1
<1>4. IsFiniteSet(ChangesIn(h)) /\ Cardinality(ChangesIn(h)) \in Nat
      /\ Len(h) + 1 \notin ChangesIn(h)
  <2>1. IsFiniteSet(1..Len(h)) /\ ChangesIn(h) \in SUBSET (1..Len(h))
    BY <1>1, FS_Interval DEF ChangesIn
  <2>2. IsFiniteSet(ChangesIn(h))
    BY <2>1, FS_Subset
  <2>3. QED
    BY <1>1, <2>1, <2>2, FS_CardinalityType
<1>5. 1..Len(g) = (1..Len(h)) \union {Len(h) + 1} /\ (Len(h) + 1) - 1 = Len(h)
      /\ Len(h) \in 0..Len(h)
  BY <1>1
<1>6. same <=> (SpeechIn(g, Len(h) + 1) <=> SpeechIn(g, (Len(h) + 1) - 1))
  BY <1>2, <1>5
<1> HIDE DEF same
<1>7. \A n \in 1..Len(h) : /\ SpeechIn(g, n) <=> SpeechIn(h, n)
                           /\ SpeechIn(g, n - 1) <=> SpeechIn(h, n - 1)
  BY <1>2, <1>3
<1>8. CASE same
  <2>1. ChangesIn(g) = ChangesIn(h)
    BY <1>5, <1>6, <1>7, <1>8 DEF ChangesIn
  <2>2. QED
    BY <1>4, <1>8, <2>1 DEF g, same
<1>9. CASE ~same
  <2>1. ChangesIn(g) = ChangesIn(h) \union {Len(h) + 1}
    BY <1>5, <1>6, <1>7, <1>9 DEF ChangesIn
  <2>2. Cardinality(ChangesIn(h) \union {Len(h) + 1}) = Cardinality(ChangesIn(h)) + 1
    BY <1>4, FS_AddElement
  <2>3. QED
    BY <1>4, <1>9, <2>1, <2>2 DEF g, same
<1>10. QED
  BY <1>8, <1>9

LEMMA NoChangeAtFirst == Cardinality(ChangesIn(<<>>)) = 0
<1>1. ChangesIn(<<>>) = {}
  BY EmptySeq DEF ChangesIn
<1>2. QED
  BY <1>1, FS_EmptySet

-----------------------------------------------------------------------------
(* What the worklet does with a frame *)

Chunks == [sequence : Nat, samples : Seq(Int)]

\* Every variable keeps its type.
AudioTypeOK ==
    /\ speaking \in BOOLEAN /\ active \in BOOLEAN
    /\ heard \in History /\ port \in Seq(Messages) /\ reports \in Seq(ReportTypes)
    /\ pendingSamples \in Seq(Int) /\ sequence \in Nat /\ chunks \in Seq(Chunks)

Counted == CountsRun(heard, aboveCount, TRUE) /\ CountsRun(heard, belowCount, FALSE)

Below(loud) == IF loud THEN 0 ELSE belowCount + 1
Goes(loud) == speaking \/ Starts(loud)
Ends(loud) == Goes(loud) /\ Below(loud) >= SpeechEndFrames
Audio(n) == Message("audio_frame", SamplesOf(n))

LEMMA MessageTypes ==
    /\ Message("speech_start", <<>>) \in Messages /\ Message("speech_end", <<>>) \in Messages
    /\ \A n \in Nat : SamplesOf(n) \in Seq(Int) /\ Audio(n) \in Messages
<1>1. <<>> \in Seq(Int)
  BY EmptySeq
<1>2. ASSUME NEW n \in Nat PROVE SamplesOf(n) \in Seq(Int)
  <2>1. FrameSamples \in Nat
    BY FramesAssumption
  <2>2. \A i \in 1..FrameSamples : (n - 1) * FrameSamples + i \in Int
    BY <2>1
  <2>3. QED
    BY <2>1, <2>2, IsASeq DEF SamplesOf
<1>3. QED
  BY <1>1, <1>2 DEF Message, Messages, Audio

\* A loud frame that starts an utterance never ends it.
LEMMA StartGoesOn ==
    ASSUME NEW loud \in BOOLEAN, Starts(loud)
    PROVE  loud /\ ~speaking /\ ~Ends(loud)
BY FramesAssumption DEF Starts, Above, Ends, Below

LEMMA ProcessMoves ==
    ASSUME AudioTypeOK, NEW loud \in BOOLEAN, Process(loud)
    PROVE  /\ heard' = Append(heard, loud)
           /\ aboveCount' = Above(loud) /\ belowCount' = Below(loud)
           /\ speaking' = (Goes(loud) /\ ~Ends(loud))
           /\ active /\ UNCHANGED <<active, pendingSamples, sequence, chunks, reports>>
BY DEF Process, Below, Goes, Ends

LEMMA ProcessPosts ==
    ASSUME AudioTypeOK, NEW loud \in BOOLEAN, Process(loud)
    PROVE  \/ /\ Starts(loud)
              /\ port' = Append(Append(port, Message("speech_start", <<>>)), Audio(Len(heard) + 1))
           \/ /\ speaking /\ Ends(loud)
              /\ port' = Append(port, Message("speech_end", <<>>))
           \/ /\ speaking /\ ~Ends(loud)
              /\ port' = Append(port, Audio(Len(heard) + 1))
           \/ /\ ~Goes(loud) /\ port' = port
<1> DEFINE post(cond, m) == IF cond THEN <<m>> ELSE <<>>
           ss == Message("speech_start", <<>>)
           se == Message("speech_end", <<>>)
           af == Audio(Len(heard) + 1)
<1>1. Len(heard') = Len(heard) + 1 /\ Len(heard) \in Nat
  BY ProcessMoves, HistoryGrows DEF AudioTypeOK
<1>2. port' = port \o post(Starts(loud), ss) \o post(Ends(loud), se)
                   \o post(Goes(loud) /\ ~Ends(loud), af)
  BY <1>1 DEF Process, Below, Goes, Ends, Audio
<1>3. port \in Seq(Messages) /\ ss \in Messages /\ se \in Messages /\ af \in Messages
  BY <1>1, MessageTypes DEF AudioTypeOK
<1> HIDE DEF ss, se, af
<1>4. \A p \in Seq(Messages) : p \o <<>> = p
  BY ConcatEmptySeq
<1>5. \A p \in Seq(Messages), m \in Messages : p \o <<m>> = Append(p, m) /\ Append(p, m) \in Seq(Messages)
  BY AppendIsConcat, AppendProperties
<1>6. CASE Starts(loud)
  <2>1. ~Ends(loud) /\ Goes(loud)
    BY <1>6, StartGoesOn DEF Goes
  <2>2. port' = port \o <<ss>> \o <<>> \o <<af>>
    BY <1>2, <1>6, <2>1
  <2>3. port' = Append(Append(port, ss), af)
    BY <1>3, <1>4, <1>5, <2>2
  <2>4. QED
    BY <1>6, <2>3 DEF ss, af
<1>7. CASE ~Starts(loud) /\ Ends(loud)
  <2>1. port' = port \o <<>> \o <<se>> \o <<>> /\ speaking
    BY <1>2, <1>7 DEF Ends, Goes
  <2>2. port' = Append(port, se)
    BY <1>3, <1>4, <1>5, <2>1
  <2>3. QED
    BY <1>7, <2>1, <2>2 DEF se
<1>8. CASE ~Starts(loud) /\ speaking /\ ~Ends(loud)
  <2>1. port' = port \o <<>> \o <<>> \o <<af>>
    BY <1>2, <1>8 DEF Goes
  <2>2. port' = Append(port, af)
    BY <1>3, <1>4, <1>5, <2>1
  <2>3. QED
    BY <1>8, <2>2 DEF af
<1>9. CASE ~Starts(loud) /\ ~speaking
  <2>1. port' = port \o <<>> \o <<>> \o <<>> /\ ~Goes(loud)
    BY <1>2, <1>9 DEF Ends, Goes
  <2>2. port' = port
    BY <1>3, <1>4, <2>1
  <2>3. QED
    BY <2>1, <2>2
<1>10. QED
  BY <1>6, <1>7, <1>8, <1>9

-----------------------------------------------------------------------------
(* The utterances *)

\* The counters, the decision and the reports, made and on their way, agree with
\* what was heard.  The number of reports tells whether an utterance goes on.
VadInv ==
    /\ Counted
    /\ speaking <=> SpeechIn(heard, Len(heard))
    /\ ToldIn(reports, port, Len(port)) = Cardinality(ChangesIn(heard))
    /\ speaking <=> ToldIn(reports, port, Len(port)) % 2 = 1
    /\ Alternate(reports, port)

LEMMA VadInvInit == Init => VadInv
<1> SUFFICES ASSUME Init PROVE VadInv
  OBVIOUS
<1>1. /\ speaking = FALSE /\ aboveCount = 0 /\ belowCount = 0
      /\ heard = <<>> /\ port = <<>> /\ reports = <<>>
  BY DEF Init
<1>2. Len(<<>>) = 0
  BY EmptySeq
<1>3. ToldIn(<<>>, <<>>, 0) = 0
  BY <1>2, NoMarks DEF ToldIn
<1>4. Alternate(<<>>, <<>>)
  BY <1>2 DEF Alternate
<1>5. ~SpeechIn(<<>>, 0)
  BY NoSpeechAtFirst
<1>6. Counted
  BY <1>1, CountStarts DEF Counted
<1>7. /\ speaking <=> SpeechIn(heard, Len(heard))
      /\ ToldIn(reports, port, Len(port)) = Cardinality(ChangesIn(heard))
      /\ Alternate(reports, port)
  BY <1>1, <1>2, <1>3, <1>4, <1>5, NoChangeAtFirst
<1>8. speaking <=> ToldIn(reports, port, Len(port)) % 2 = 1
  BY <1>1, <1>2, <1>3
<1>9. QED
  BY <1>6, <1>7, <1>8 DEF VadInv

\* The decision for a frame is the definition's.
LEMMA ProcessDecides ==
    ASSUME AudioTypeOK, Counted, speaking <=> SpeechIn(heard, Len(heard)),
           NEW loud \in BOOLEAN, Process(loud)
    PROVE  /\ Counted'
           /\ speaking' <=> SpeechIn(heard', Len(heard'))
<1> DEFINE n == Len(heard) + 1
           g == Append(heard, loud)
<1>1. /\ heard' = g /\ Len(g) = n /\ g \in History /\ heard \in History /\ Len(heard) \in Nat
      /\ aboveCount' = Above(loud) /\ belowCount' = Below(loud)
      /\ speaking' = (Goes(loud) /\ ~Ends(loud))
  BY ProcessMoves, HistoryGrows DEF AudioTypeOK
<1>2. CountsRun(g, Above(loud), TRUE)
  BY <1>1, CountGrows, CountEnds DEF Counted, Above
<1>3. CountsRun(g, Below(loud), FALSE)
  BY <1>1, CountGrows, CountEnds DEF Counted, Below
<1> HIDE DEF g
<1>4. RunIn(g, n, SpeechStartFrames, TRUE) <=> Above(loud) >= SpeechStartFrames
  BY <1>1, <1>2, CountDecides, FramesAssumption
<1>5. RunIn(g, n, SpeechEndFrames, FALSE) <=> Below(loud) >= SpeechEndFrames
  BY <1>1, <1>3, CountDecides, FramesAssumption
<1>6. SpeechIn(g, n) <=> \/ RunIn(g, n, SpeechStartFrames, TRUE)
                         \/ SpeechIn(g, n - 1) /\ ~RunIn(g, n, SpeechEndFrames, FALSE)
  <2>1. n \in 1..Len(g)
    BY <1>1
  <2>2. QED
    BY <1>1, <2>1, SpeechByFrame
<1>7. SpeechIn(g, n - 1) <=> speaking
  <2>1. Len(heard) \in 0..Len(heard) /\ n - 1 = Len(heard)
    BY <1>1
  <2>2. QED
    BY <1>1, <2>1, SpeechKept DEF g
<1>8. Above(loud) >= SpeechStartFrames => ~(Below(loud) >= SpeechEndFrames)
  BY FramesAssumption DEF Above, Below
<1>9. Goes(loud) /\ ~Ends(loud) <=> SpeechIn(g, n)
  BY <1>4, <1>5, <1>6, <1>7, <1>8, Zenon DEF Goes, Ends, Starts
<1>10. Counted'
  BY <1>1, <1>2, <1>3 DEF Counted
<1>11. SpeechIn(g, n) <=> SpeechIn(heard', Len(heard'))
  BY <1>1
<1>12. QED
  BY <1>1, <1>9, <1>10, <1>11, Zenon

\* A change is reported when it happens, and nothing else is.
LEMMA ProcessReports ==
    ASSUME AudioTypeOK, VadInv, NEW loud \in BOOLEAN, Process(loud)
    PROVE  /\ ToldIn(reports', port', Len(port')) =
                  ToldIn(reports, port, Len(port)) + (IF speaking' = speaking THEN 0 ELSE 1)
           /\ Alternate(reports', port')
<1> DEFINE told == ToldIn(reports, port, Len(port))
           ss == Message("speech_start", <<>>)
           se == Message("speech_end", <<>>)
           af == Audio(Len(heard) + 1)
<1>1. /\ port \in Seq(Messages) /\ reports \in Seq(ReportTypes) /\ reports' = reports
      /\ Len(port) \in Nat /\ speaking \in BOOLEAN
      /\ speaking' = (Goes(loud) /\ ~Ends(loud))
  BY ProcessMoves, LenProperties DEF AudioTypeOK
<1>2. ss \in Messages /\ se \in Messages /\ af \in Messages
  <2>1. Len(heard) + 1 \in Nat
    BY HistoryGrows DEF AudioTypeOK
  <2>2. QED
    BY <2>1, MessageTypes
<1>3. /\ IsReport(ss) /\ ss.type = "speech_start"
      /\ IsReport(se) /\ se.type = "speech_end" /\ ~IsReport(af)
  BY DEF IsReport, Message, Audio
<1>4. told \in Nat /\ Alternate(reports, port) /\ (speaking <=> told % 2 = 1)
  BY <1>1, <1>2, PostedCounts DEF VadInv
<1>5. ~speaking => Report(told + 1) = "speech_start"
  BY <1>4 DEF Report
<1>6. speaking => Report(told + 1) = "speech_end"
  BY <1>4 DEF Report
<1> HIDE DEF told, ss, se, af
<1>7. CASE Starts(loud) /\ port' = Append(Append(port, ss), af)
  <2> DEFINE p == Append(port, ss)
  <2>1. ~speaking /\ speaking'
    BY <1>1, <1>7, StartGoesOn DEF Goes
  <2>2. /\ p \in Seq(Messages) /\ Len(p) = Len(port) + 1
        /\ ToldIn(reports, p, Len(p)) = told + 1
    BY <1>1, <1>2, <1>3, PostedMessage, PostedCounts DEF told
  <2>3. Alternate(reports, p)
    BY <1>1, <1>2, <1>3, <1>4, <1>5, <2>1, PostedInTurn DEF told
  <2> HIDE DEF p
  <2>4. /\ Len(Append(p, af)) = Len(p) + 1
        /\ ToldIn(reports, Append(p, af), Len(p) + 1) = told + 1
    BY <1>1, <1>2, <1>3, <1>4, <2>2, PostedMessage, PostedCounts
  <2>5. Alternate(reports, Append(p, af))
    BY <1>1, <1>2, <1>3, <2>2, <2>3, PostedInTurn
  <2>6. port' = Append(p, af)
    BY <1>7 DEF p
  <2>7. QED
    BY <1>1, <2>1, <2>4, <2>5, <2>6 DEF told
<1>8. CASE speaking /\ Ends(loud) /\ port' = Append(port, se)
  <2>1. ~speaking'
    BY <1>1, <1>8
  <2>2. Len(port') = Len(port) + 1 /\ ToldIn(reports, port', Len(port')) = told + 1
    BY <1>1, <1>2, <1>3, <1>8, PostedMessage, PostedCounts DEF told
  <2>3. Alternate(reports, port')
    BY <1>1, <1>2, <1>3, <1>4, <1>6, <1>8, PostedInTurn DEF told
  <2>4. QED
    BY <1>1, <1>8, <2>1, <2>2, <2>3 DEF told
<1>9. CASE speaking /\ ~Ends(loud) /\ port' = Append(port, af)
  <2>1. speaking' = speaking
    <3>1. speaking /\ (Goes(loud) /\ ~Ends(loud))
      BY <1>9 DEF Goes
    <3>2. speaking' <=> speaking
      BY <1>1, <3>1, Zenon
    <3>3. speaking' \in BOOLEAN
      BY <1>1
    <3>4. QED
      BY <1>1, <3>2, <3>3, Zenon
  <2>2. Len(port') = Len(port) + 1 /\ ToldIn(reports, port', Len(port')) = told
    BY <1>1, <1>2, <1>3, <1>4, <1>9, PostedMessage, PostedCounts DEF told
  <2>3. Alternate(reports, port')
    BY <1>1, <1>2, <1>3, <1>4, <1>9, PostedInTurn
  <2> DEFINE more == IF speaking' = speaking THEN 0 ELSE 1
  <2>4. more = 0
    BY <2>1, Zenon
  <2> HIDE DEF more
  <2>5. ToldIn(reports', port', Len(port')) = told + more
    BY <1>1, <1>4, <2>2, <2>4
  <2>6. QED
    BY <1>1, <2>3, <2>5 DEF told, more
<1>10. CASE ~Goes(loud) /\ port' = port
  BY <1>1, <1>4, <1>10 DEF Goes, told
<1>11. QED
  BY <1>7, <1>8, <1>9, <1>10, ProcessPosts DEF ss, se, af

LEMMA VadProcess ==
    ASSUME AudioTypeOK, VadInv, NEW loud \in BOOLEAN, Process(loud)
    PROVE  VadInv'
<1> DEFINE told == ToldIn(reports, port, Len(port))
<1>1. /\ Counted'
      /\ speaking' <=> SpeechIn(heard', Len(heard'))
  BY ProcessDecides DEF VadInv
<1>2. /\ speaking <=> SpeechIn(heard, Len(heard))
      /\ told = Cardinality(ChangesIn(heard))
      /\ speaking <=> told % 2 = 1
  BY DEF VadInv
<1>3. ToldIn(reports', port', Len(port')) = told + (IF speaking' = speaking THEN 0 ELSE 1)
      /\ Alternate(reports', port')
  BY ProcessReports
<1>4. heard' = Append(heard, loud) /\ Len(heard') = Len(heard) + 1
  BY ProcessMoves, HistoryGrows DEF AudioTypeOK
<1>5. speaking \in BOOLEAN /\ speaking' \in BOOLEAN
  BY ProcessMoves DEF AudioTypeOK, Goes, Ends
<1>6. Cardinality(ChangesIn(heard)) \in Nat
      /\ Cardinality(ChangesIn(heard')) =
             Cardinality(ChangesIn(heard))
             + (IF SpeechIn(heard', Len(heard')) <=> SpeechIn(heard, Len(heard)) THEN 0 ELSE 1)
  BY <1>4, ChangesGrow DEF AudioTypeOK
<1>7. speaking' = speaking <=> (SpeechIn(heard', Len(heard')) <=> SpeechIn(heard, Len(heard)))
  BY <1>1, <1>2, <1>5, Zenon
<1> HIDE DEF told
<1>8. ToldIn(reports', port', Len(port')) = Cardinality(ChangesIn(heard'))
  BY <1>2, <1>3, <1>6, <1>7
<1>9. speaking' <=> ToldIn(reports', port', Len(port')) % 2 = 1
  <2>1. CASE speaking' = speaking
    BY <1>2, <1>3, <1>6, <2>1
  <2>2. CASE speaking' # speaking
    BY <1>2, <1>3, <1>5, <1>6, <2>2
  <2>3. QED
    BY <2>1, <2>2
<1>10. QED
  BY <1>1, <1>3, <1>8, <1>9 DEF VadInv

LEMMA DeliverMoves ==
    ASSUME AudioTypeOK, Deliver
    PROVE  /\ port # <<>> /\ port' = Tail(port) /\ port[1] \in Messages
           /\ UNCHANGED <<speaking, aboveCount, belowCount, heard, active>>
           /\ IsReport(port[1]) => /\ port[1].type \in ReportTypes
                                   /\ reports' = Append(reports, port[1].type)
           /\ ~IsReport(port[1]) => reports' = reports
<1>1. port # <<>> /\ Head(port) = port[1] /\ port[1] \in Messages
  BY DeliveredMessage DEF Deliver, AudioTypeOK
<1>2. IsReport(port[1]) => port[1].type \in ReportTypes
  BY <1>1 DEF IsReport, Messages, ReportTypes
<1>3. /\ IsReport(port[1]) => reports' = Append(reports, port[1].type)
      /\ ~IsReport(port[1]) => reports' = reports
  BY <1>1 DEF Deliver, IsReport
<1>4. QED
  BY <1>1, <1>2, <1>3 DEF Deliver

LEMMA VadDeliver == ASSUME AudioTypeOK, VadInv, Deliver PROVE VadInv'
<1>1. /\ port # <<>> /\ port \in Seq(Messages) /\ reports \in Seq(ReportTypes)
      /\ port' = Tail(port)
      /\ UNCHANGED <<speaking, aboveCount, belowCount, heard>>
      /\ IsReport(port[1]) => /\ port[1].type \in ReportTypes
                              /\ reports' = Append(reports, port[1].type)
      /\ ~IsReport(port[1]) => reports' = reports
  BY DeliverMoves DEF AudioTypeOK
<1>2. Len(port) \in Nat \ {0} /\ Len(port') = Len(port) - 1
  BY <1>1, DeliveredMessage
<1>3. Alternate(reports', port')
  BY <1>1, DeliveredInTurn DEF VadInv
<1>4. Len(reports') = Len(reports) + (IF IsReport(port[1]) THEN 1 ELSE 0)
  BY <1>1, LenProperties, AppendProperties
<1>5. ToldIn(reports', port', Len(port')) = ToldIn(reports, port, Len(port))
  <2>1. \A i \in 0..Len(Tail(port)) : ToldIn(reports', Tail(port), i) = ToldIn(reports, port, i + 1)
    BY <1>1, <1>4, DeliveredCounts
  <2>2. Len(port') \in 0..Len(Tail(port)) /\ Len(port') + 1 = Len(port)
    BY <1>1, <1>2
  <2>3. QED
    BY <1>1, <2>1, <2>2
<1>6. Counted'
  BY <1>1 DEF VadInv, Counted
<1>7. speaking' = speaking /\ heard' = heard
  BY <1>1
<1>8. QED
  BY <1>3, <1>5, <1>6, <1>7 DEF VadInv

LEMMA VadElse ==
    ASSUME VadInv, UNCHANGED <<speaking, aboveCount, belowCount, heard, port, reports>>
    PROVE  VadInv'
BY DEF VadInv, Counted

LEMMA VadStep == AudioTypeOK /\ VadInv /\ [Next]_vars => VadInv'
<1> SUFFICES ASSUME AudioTypeOK, VadInv, [Next]_vars PROVE VadInv'
  OBVIOUS
<1>1. ASSUME NEW loud \in BOOLEAN, Process(loud) PROVE VadInv'
  BY <1>1, VadProcess
<1>2. CASE Deliver
  BY <1>2, VadDeliver
<1>3. CASE Stop
  BY <1>3, VadElse DEF Stop
<1>4. CASE UNCHANGED vars
  BY <1>4, VadElse DEF vars
<1>5. QED
  BY <1>1, <1>2, <1>3, <1>4 DEF Next

LEMMA VadInvImplies == AudioTypeOK /\ VadInv => VadMatchesDefinition
<1> SUFFICES ASSUME AudioTypeOK, VadInv PROVE VadMatchesDefinition
  OBVIOUS
<1>1. speaking = SpeechAfter(Len(heard))
  <2>1. SpeechAfter(Len(heard)) \in BOOLEAN /\ speaking \in BOOLEAN
    BY DEF SpeechAfter, AudioTypeOK
  <2>2. speaking <=> SpeechAfter(Len(heard))
    BY SpeechIsIn, Zenon DEF VadInv
  <2>3. QED
    BY <2>1, <2>2, Zenon
<1>2. Told(Len(port)) = Cardinality(Changes)
  <2>1. Changes = ChangesIn(heard)
    BY ChangesAreIn DEF AudioTypeOK
  <2>2. QED
    BY <2>1, ToldIsIn DEF VadInv
<1>3. ASSUME NEW k \in DOMAIN reports PROVE reports[k] = Report(k)
  <2>1. k \in 1..Len(reports)
    BY LenProperties DEF AudioTypeOK
  <2>2. QED
    BY <2>1 DEF VadInv, Alternate
<1>4. ASSUME NEW i \in DOMAIN port PROVE port[i].type \in {"audio_frame", Report(Told(i))}
  <2>1. i \in 1..Len(port)
    BY LenProperties DEF AudioTypeOK
  <2>2. QED
    BY <2>1, ToldIsIn DEF VadInv, Alternate, IsReport
<1>5. QED
  BY <1>1, <1>2, <1>3, <1>4 DEF VadMatchesDefinition

-----------------------------------------------------------------------------
(* Cutting samples into chunks *)

FullChunks(all) == Len(all) \div ChunkSamples
CutFrom(first, all) ==
    [k \in 1..FullChunks(all) |->
        [sequence |-> first + k - 1,
         samples |-> SubSeq(all, (k - 1) * ChunkSamples + 1, k * ChunkSamples)]]

LEMMA FullChunksFit ==
    ASSUME NEW all \in Seq(Int)
    PROVE  /\ FullChunks(all) \in Nat /\ FullChunks(all) * ChunkSamples \in Nat
           /\ FullChunks(all) * ChunkSamples <= Len(all)
           /\ Len(all) < FullChunks(all) * ChunkSamples + ChunkSamples
<1> DEFINE c == ChunkSamples
           d == Len(all) \div c
<1>1. Len(all) \in Nat /\ c \in Nat \ {0}
  BY LenProperties, ChunkSamplesPositive
<1>2. d \in Int /\ \E m \in 0..(c - 1) : Len(all) = c * d + m
  <2>1. d \in Int /\ Len(all) % c \in 0..(c - 1) /\ Len(all) = c * d + (Len(all) % c)
    BY <1>1, Division
  <2> HIDE DEF d, c
  <2>2. QED
    BY <2>1
<1> HIDE DEF c, d
<1>3. c * d \in Int /\ c * d <= Len(all) /\ Len(all) < c * d + c
  BY <1>1, <1>2
<1>4. d >= 0
  <2>1. SUFFICES ASSUME d <= -1 PROVE FALSE
    BY <1>2
  <2>2. c * d <= c * (-1)
    BY <1>1, <1>2, <2>1, TimesGrows
  <2>3. c * (-1) = -c
    BY <1>1
  <2>4. QED
    BY <1>1, <1>3, <2>2, <2>3
<1>5. c * 0 <= c * d /\ c * 0 = 0
  BY <1>1, <1>2, <1>4, TimesGrows
<1>6. d * c = c * d
  BY <1>1, <1>2
<1>7. d \in Nat /\ d * c \in Nat /\ d * c <= Len(all) /\ Len(all) < d * c + c
  BY <1>2, <1>3, <1>4, <1>5, <1>6
<1>8. QED
  BY <1>7 DEF FullChunks, c, d

\* Where chunk k lies.
LEMMA ChunkPlaces ==
    ASSUME NEW all \in Seq(Int), NEW k \in 1..FullChunks(all)
    PROVE  /\ (k - 1) * ChunkSamples \in Nat
           /\ k * ChunkSamples = (k - 1) * ChunkSamples + ChunkSamples
           /\ k * ChunkSamples <= FullChunks(all) * ChunkSamples
           /\ k * ChunkSamples <= Len(all)
<1> DEFINE c == ChunkSamples
           f == FullChunks(all)
<1>1. c \in Nat \ {0} /\ f \in Nat /\ k \in Nat \ {0} /\ k <= f
      /\ f * c <= Len(all) /\ Len(all) \in Nat
  BY ChunkSamplesPositive, FullChunksFit, LenProperties
<1> HIDE DEF c, f
<1>2. c * 0 <= c * (k - 1) /\ c * k <= c * f
  BY <1>1, TimesGrows
<1>3. c * ((k - 1) + 1) = c * (k - 1) + c /\ (k - 1) + 1 = k /\ c * 0 = 0
  BY <1>1, TimesNext
<1>4. c * k = k * c /\ c * (k - 1) = (k - 1) * c /\ c * f = f * c
      /\ (k - 1) * c \in Int /\ k * c \in Int /\ f * c \in Int
  BY <1>1
<1>5. (k - 1) * c \in Nat /\ k * c = (k - 1) * c + c /\ k * c <= f * c /\ k * c <= Len(all)
  BY <1>1, <1>2, <1>3, <1>4
<1>6. QED
  BY <1>5 DEF c, f

LEMMA CutContents ==
    ASSUME NEW all \in Seq(Int), NEW first \in Nat, NEW k \in 1..FullChunks(all)
    PROVE  /\ CutFrom(first, all)[k].sequence = first + k - 1
           /\ CutFrom(first, all)[k].samples \in Seq(Int)
           /\ Len(CutFrom(first, all)[k].samples) = ChunkSamples
           /\ \A i \in 1..ChunkSamples :
                  CutFrom(first, all)[k].samples[i] = all[(k - 1) * ChunkSamples + i]
<1> DEFINE a == (k - 1) * ChunkSamples
           b == k * ChunkSamples
           piece == SubSeq(all, a + 1, b)
<1>1. /\ a \in Nat /\ b = a + ChunkSamples /\ b <= Len(all)
      /\ ChunkSamples \in Nat \ {0} /\ Len(all) \in Nat
  BY ChunkPlaces, ChunkSamplesPositive, LenProperties
<1>2. CutFrom(first, all)[k] = [sequence |-> first + k - 1, samples |-> piece]
  BY DEF CutFrom
<1> HIDE DEF a, b
<1>3. \A i \in (a + 1)..b : all[i] \in Int
  <2>1. \A i \in (a + 1)..b : i \in 1..Len(all)
    BY <1>1
  <2>2. QED
    BY <2>1, LenProperties
<1>4. /\ piece \in Seq(Int)
      /\ Len(piece) = IF a + 1 <= b THEN b - (a + 1) + 1 ELSE 0
      /\ \A i \in 1..(b - (a + 1) + 1) : piece[i] = all[(a + 1) + i - 1]
  <2>1. a + 1 \in Int /\ b \in Int
    BY <1>1
  <2>2. QED
    BY <1>3, <2>1, SubSeqProperties
<1> HIDE DEF piece
<1>5. Len(piece) = ChunkSamples /\ \A i \in 1..ChunkSamples : piece[i] = all[a + i]
  <2>1. b - (a + 1) + 1 = ChunkSamples /\ a + 1 <= b
    BY <1>1
  <2>2. \A i \in 1..ChunkSamples : (a + 1) + i - 1 = a + i
    BY <1>1
  <2>3. QED
    BY <1>4, <2>1, <2>2
<1>6. QED
  BY <1>2, <1>4, <1>5 DEF a

LEMMA CutIsChunks ==
    ASSUME NEW all \in Seq(Int), NEW first \in Nat
    PROVE  /\ CutFrom(first, all) \in Seq(Chunks)
           /\ Len(CutFrom(first, all)) = FullChunks(all)
<1>1. FullChunks(all) \in Nat
  BY FullChunksFit
<1>2. ASSUME NEW k \in 1..FullChunks(all)
      PROVE  [sequence |-> first + k - 1,
              samples |-> SubSeq(all, (k - 1) * ChunkSamples + 1, k * ChunkSamples)] \in Chunks
  <2>1. CutFrom(first, all)[k].samples \in Seq(Int)
    BY CutContents
  <2>2. SubSeq(all, (k - 1) * ChunkSamples + 1, k * ChunkSamples) \in Seq(Int)
    BY <2>1 DEF CutFrom
  <2>3. first + k - 1 \in Nat
    BY <1>1
  <2>4. QED
    BY <2>2, <2>3 DEF Chunks
<1>3. CutFrom(first, all) \in Seq(Chunks)
  BY <1>1, <1>2, IsASeq DEF CutFrom
<1>4. DOMAIN CutFrom(first, all) = 1..FullChunks(all)
  BY DEF CutFrom
<1>5. DOMAIN CutFrom(first, all) = 1..Len(CutFrom(first, all)) /\ Len(CutFrom(first, all)) \in Nat
  BY <1>3, LenProperties
<1> HIDE DEF CutFrom
<1>6. Len(CutFrom(first, all)) = FullChunks(all)
  <2> DEFINE l == Len(CutFrom(first, all))
             f == FullChunks(all)
  <2>1. 1..l = 1..f /\ l \in Nat /\ f \in Nat
    BY <1>1, <1>4, <1>5
  <2> HIDE DEF l, f
  <2>2. (l \in 1..f \/ l = 0) /\ (f \in 1..l \/ f = 0)
    BY <2>1
  <2>3. l = f
    BY <2>1, <2>2
  <2>4. QED
    BY <2>3 DEF l, f
<1>7. QED
  BY <1>3, <1>6

LEMMA RestPlaces ==
    ASSUME NEW all \in Seq(Int)
    PROVE  /\ Rest(all) \in Seq(Int)
           /\ Len(Rest(all)) = Len(all) - FullChunks(all) * ChunkSamples
           /\ Len(Rest(all)) < ChunkSamples
           /\ \A i \in 1..Len(Rest(all)) :
                  Rest(all)[i] = all[FullChunks(all) * ChunkSamples + i]
<1> DEFINE a == FullChunks(all) * ChunkSamples
           n == Len(all)
           rest == SubSeq(all, a + 1, n)
<1>1. a \in Nat /\ a <= n /\ n < a + ChunkSamples /\ n \in Nat /\ ChunkSamples \in Nat
  BY FullChunksFit, ChunkSamplesPositive, LenProperties
<1>2. Rest(all) = rest
  BY DEF Rest, FullChunks
<1> HIDE DEF a
<1>3. \A i \in (a + 1)..n : all[i] \in Int
  <2>1. \A i \in (a + 1)..n : i \in 1..Len(all)
    BY <1>1
  <2>2. QED
    BY <2>1, LenProperties
<1> HIDE DEF n
<1>4. /\ rest \in Seq(Int)
      /\ Len(rest) = IF a + 1 <= n THEN n - (a + 1) + 1 ELSE 0
      /\ \A i \in 1..(n - (a + 1) + 1) : rest[i] = all[(a + 1) + i - 1]
  <2>1. a + 1 \in Int /\ n \in Int
    BY <1>1
  <2>2. QED
    BY <1>3, <2>1, SubSeqProperties
<1> HIDE DEF rest
<1>5. Len(rest) = n - a /\ n - (a + 1) + 1 = n - a
  BY <1>1, <1>4
<1>6. \A i \in 1..(n - a) : (a + 1) + i - 1 = a + i
  BY <1>1
<1>7. \A i \in 1..Len(rest) : rest[i] = all[a + i]
  BY <1>4, <1>5, <1>6
<1>8. Len(rest) < ChunkSamples
  BY <1>1, <1>5
<1>9. QED
  BY <1>2, <1>4, <1>5, <1>7, <1>8 DEF a, n

LEMMA HandleMoves ==
    ASSUME NEW samples, HandleAudioFrame(samples), active
    PROVE  /\ chunks' = chunks \o CutFrom(sequence, pendingSamples \o samples)
           /\ sequence' = sequence + FullChunks(pendingSamples \o samples)
           /\ pendingSamples' = Rest(pendingSamples \o samples)
BY DEF HandleAudioFrame, CutFrom, FullChunks

LEMMA AudioTypeInit == Init => AudioTypeOK
<1>1. /\ <<>> \in Seq(BOOLEAN) /\ <<>> \in Seq(Messages) /\ <<>> \in Seq(ReportTypes)
      /\ <<>> \in Seq(Int) /\ <<>> \in Seq(Chunks)
  BY EmptySeq
<1>2. FALSE \in BOOLEAN /\ TRUE \in BOOLEAN /\ 1 \in Nat
  OBVIOUS
<1>3. QED
  BY <1>1, <1>2, Zenon DEF Init, AudioTypeOK, History

LEMMA AudioTypeStep == AudioTypeOK /\ [Next]_vars => AudioTypeOK'
<1> SUFFICES ASSUME AudioTypeOK, [Next]_vars PROVE AudioTypeOK'
  OBVIOUS
<1>1. ASSUME NEW loud \in BOOLEAN, Process(loud) PROVE AudioTypeOK'
  <2>1. heard' \in History /\ Len(heard) + 1 \in Nat
    BY <1>1, ProcessMoves, HistoryGrows DEF AudioTypeOK
  <2>2. port' \in Seq(Messages)
    <3>1. /\ Message("speech_start", <<>>) \in Messages /\ Message("speech_end", <<>>) \in Messages
          /\ Audio(Len(heard) + 1) \in Messages
      BY <2>1, MessageTypes
    <3>2. \A p \in Seq(Messages), m \in Messages : Append(p, m) \in Seq(Messages)
      BY AppendProperties
    <3>3. QED
      BY <1>1, <3>1, <3>2, ProcessPosts DEF AudioTypeOK
  <2>3. speaking' \in BOOLEAN /\ active' = active
        /\ UNCHANGED <<pendingSamples, sequence, chunks, reports>>
    BY <1>1, ProcessMoves
  <2>4. QED
    BY <2>1, <2>2, <2>3 DEF AudioTypeOK
<1>2. CASE Deliver
  <2>1. /\ port' \in Seq(Messages) /\ UNCHANGED <<speaking, heard, active>>
        /\ port # <<>> /\ Head(port) \in Messages
    BY <1>2, DeliverMoves, DeliveredMessage DEF AudioTypeOK
  <2>2. reports' \in Seq(ReportTypes)
    <3>1. \A r \in Seq(ReportTypes), x \in ReportTypes : Append(r, x) \in Seq(ReportTypes)
      BY AppendProperties
    <3>2. QED
      BY <1>2, <3>1, DeliverMoves DEF AudioTypeOK
  <2>3. pendingSamples' \in Seq(Int) /\ sequence' \in Nat /\ chunks' \in Seq(Chunks)
    <3>1. CASE HandleAudioFrame(Head(port).samples) /\ active
      <4> DEFINE all == pendingSamples \o Head(port).samples
      <4>1. all \in Seq(Int)
        BY <2>1, ConcatProperties DEF AudioTypeOK, Messages
      <4>2. FullChunks(all) \in Nat /\ Rest(all) \in Seq(Int) /\ CutFrom(sequence, all) \in Seq(Chunks)
        BY <4>1, FullChunksFit, RestPlaces, CutIsChunks DEF AudioTypeOK
      <4>3. /\ chunks' = chunks \o CutFrom(sequence, all)
            /\ sequence' = sequence + FullChunks(all) /\ pendingSamples' = Rest(all)
        BY <3>1, HandleMoves
      <4> HIDE DEF all
      <4>4. QED
        BY <4>2, <4>3, ConcatProperties DEF AudioTypeOK
    <3>2. CASE UNCHANGED <<sequence, chunks>> /\ (pendingSamples' = <<>> \/ UNCHANGED pendingSamples)
      BY <3>2, EmptySeq DEF AudioTypeOK
    <3>3. QED
      BY <1>2, <3>1, <3>2 DEF Deliver, HandleAudioFrame
  <2>4. QED
    BY <2>1, <2>2, <2>3 DEF AudioTypeOK
<1>3. CASE Stop
  BY <1>3, EmptySeq DEF Stop, AudioTypeOK
<1>4. CASE UNCHANGED vars
  BY <1>4 DEF vars, AudioTypeOK
<1>5. QED
  BY <1>1, <1>2, <1>3, <1>4 DEF Next

-----------------------------------------------------------------------------
(* Samples, frames and utterances *)

\* A sample of a frame that belongs to an utterance, and the first one of it.
Spoken(h, x) == x \in Int /\ FrameOf(x) \in 1..Len(h) /\ SpeechIn(h, FrameOf(x))
OpensAt(h, x) ==
    (x - 1) % FrameSamples = 0 /\ Spoken(h, x) /\ ~SpeechIn(h, FrameOf(x) - 1)

\* Neighbouring samples of utterances.
Straight(h, s) == \A i \in 1..Len(s) : s[i] = s[1] + i - 1 /\ Spoken(h, s[i])

\* The sample x is the one after the last of chunk k.
Follows(cs, k, x) == k > 0 /\ x = cs[k].samples[ChunkSamples] + 1
\* The sample x is the one after all that the capture took in.
Reached(cs, ps, x) ==
    IF ps = <<>> THEN Follows(cs, Len(cs), x) ELSE x = ps[Len(ps)] + 1

ChunksRight(h, cs) ==
    \A k \in 1..Len(cs) :
        /\ cs[k].sequence = k
        /\ Len(cs[k].samples) = ChunkSamples
        /\ Straight(h, cs[k].samples)
        /\ \/ OpensAt(h, cs[k].samples[1])
           \/ Follows(cs, k - 1, cs[k].samples[1])
PendingRight(h, cs, ps) ==
    /\ Straight(h, ps) /\ Len(ps) < ChunkSamples
    /\ ps # <<>> => OpensAt(h, ps[1]) \/ Follows(cs, Len(cs), ps[1])

\* Another frame changes nothing about the samples of those before it.
LEMMA SpokenKept ==
    ASSUME NEW h \in History, NEW loud \in BOOLEAN, NEW x, Spoken(h, x)
    PROVE  /\ Spoken(Append(h, loud), x)
           /\ OpensAt(h, x) => OpensAt(Append(h, loud), x)
<1> DEFINE f == FrameOf(x)
           g == Append(h, loud)
<1>1. /\ f \in 1..Len(h) /\ x \in Int /\ Len(h) \in Nat /\ Len(g) = Len(h) + 1
      /\ SpeechIn(h, f)
  BY HistoryGrows DEF Spoken
<1>2. \A n \in 0..Len(h) : SpeechIn(g, n) <=> SpeechIn(h, n)
  BY SpeechKept
<1> HIDE DEF f, g
<1>3. f \in 0..Len(h) /\ f - 1 \in 0..Len(h) /\ f \in 1..Len(g)
  BY <1>1
<1>4. SpeechIn(g, f) /\ (SpeechIn(g, f - 1) <=> SpeechIn(h, f - 1))
  BY <1>1, <1>2, <1>3
<1>5. QED
  BY <1>1, <1>3, <1>4 DEF Spoken, OpensAt, f, g

LEMMA ChunksKept ==
    ASSUME NEW h \in History, NEW loud \in BOOLEAN, NEW cs, ChunksRight(h, cs)
    PROVE  ChunksRight(Append(h, loud), cs)
<1> DEFINE g == Append(h, loud)
<1>1. \A x : Spoken(h, x) => /\ Spoken(g, x)
                             /\ OpensAt(h, x) => OpensAt(g, x)
  BY SpokenKept
<1>2. \A x : OpensAt(h, x) => OpensAt(g, x)
  BY <1>1 DEF OpensAt
<1> HIDE DEF g
<1>3. \A s : Straight(h, s) => Straight(g, s)
  BY <1>1 DEF Straight
<1>4. ChunksRight(g, cs)
  BY <1>2, <1>3 DEF ChunksRight
<1>5. QED
  BY <1>4 DEF g

LEMMA PendingKept ==
    ASSUME NEW h \in History, NEW loud \in BOOLEAN, NEW cs, NEW ps, PendingRight(h, cs, ps)
    PROVE  PendingRight(Append(h, loud), cs, ps)
<1> DEFINE g == Append(h, loud)
<1>1. \A x : Spoken(h, x) => /\ Spoken(g, x)
                             /\ OpensAt(h, x) => OpensAt(g, x)
  BY SpokenKept
<1>2. \A x : OpensAt(h, x) => OpensAt(g, x)
  BY <1>1 DEF OpensAt
<1> HIDE DEF g
<1>3. \A s : Straight(h, s) => Straight(g, s)
  BY <1>1 DEF Straight
<1>4. PendingRight(g, cs, ps)
  BY <1>2, <1>3 DEF PendingRight
<1>5. QED
  BY <1>4 DEF g

\* Where the samples of frame n lie.
LEMMA FramePlaces ==
    ASSUME NEW n \in Nat \ {0}
    PROVE  /\ SamplesOf(n) \in Seq(Int) /\ Len(SamplesOf(n)) = FrameSamples
           /\ \A i \in 1..FrameSamples :
                  /\ SamplesOf(n)[i] = (n - 1) * FrameSamples + i
                  /\ FrameOf(SamplesOf(n)[i]) = n
                  /\ (SamplesOf(n)[i] - 1) % FrameSamples = i - 1
           /\ (n - 1) * FrameSamples \in Int
           /\ n * FrameSamples = (n - 1) * FrameSamples + FrameSamples
<1> DEFINE b == FrameSamples
           a == (n - 1) * b
<1>1. b \in Nat \ {0} /\ n - 1 \in Int
  BY FramesAssumption
<1>2. a \in Int /\ a = b * (n - 1) /\ b * (n - 1) \in Int /\ n * b = a + b
  <2>1. b * ((n - 1) + 1) = b * (n - 1) + b /\ (n - 1) + 1 = n
    BY <1>1, TimesNext
  <2> HIDE DEF b
  <2>2. QED
    BY <1>1, <2>1
<1>3. SamplesOf(n) = [i \in 1..b |-> a + i]
  BY DEF SamplesOf
<1> HIDE DEF a, b
<1>4. \A i \in 1..b : SamplesOf(n)[i] = a + i
  BY <1>3
<1>5. SamplesOf(n) \in Seq(Int)
  BY MessageTypes
<1>6. Len(SamplesOf(n)) = b
  <2>1. DOMAIN SamplesOf(n) = 1..b
    BY <1>3
  <2>2. DOMAIN SamplesOf(n) = 1..Len(SamplesOf(n)) /\ Len(SamplesOf(n)) \in Nat
    BY <1>5, LenProperties
  <2> DEFINE l == Len(SamplesOf(n))
  <2> HIDE DEF l
  <2>3. 1..l = 1..b /\ l \in Nat
    BY <2>1, <2>2 DEF l
  <2>4. (l \in 1..b \/ l = 0) /\ b \in 1..l
    BY <1>1, <2>3
  <2>5. l = b
    BY <1>1, <2>3, <2>4
  <2>6. QED
    BY <2>5 DEF l
<1>7. ASSUME NEW i \in 1..b PROVE (a + i - 1) \div b + 1 = n /\ (a + i - 1) % b = i - 1
  <2>1. i - 1 \in 0..(b - 1) /\ a + i - 1 = b * (n - 1) + (i - 1)
    BY <1>1, <1>2
  <2>2. (b * (n - 1) + (i - 1)) \div b = n - 1 /\ (b * (n - 1) + (i - 1)) % b = i - 1
    BY <1>1, <2>1, DivisionUnique
  <2>3. (a + i - 1) \div b = n - 1 /\ (a + i - 1) % b = i - 1
    BY <2>1, <2>2
  <2>4. QED
    BY <2>3
<1>8. \A i \in 1..b : FrameOf(a + i) = n /\ (a + i - 1) % b = i - 1
  <2>1. \A x : FrameOf(x) = (x - 1) \div b + 1
    BY DEF FrameOf, b
  <2>2. QED
    BY <1>1, <1>2, <1>7, <2>1
<1>9. ASSUME NEW i \in 1..b
      PROVE  /\ SamplesOf(n)[i] = a + i
             /\ FrameOf(SamplesOf(n)[i]) = n
             /\ (SamplesOf(n)[i] - 1) % b = i - 1
  <2> DEFINE x == a + i
  <2>1. SamplesOf(n)[i] = x /\ FrameOf(x) = n /\ (x - 1) % b = i - 1
    BY <1>1, <1>2, <1>4, <1>8
  <2> HIDE DEF x
  <2>2. FrameOf(SamplesOf(n)[i]) = n /\ (SamplesOf(n)[i] - 1) % b = i - 1
    BY <2>1
  <2>3. QED
    BY <2>1, <2>2 DEF x
<1>10. QED
  BY <1>2, <1>5, <1>6, <1>9 DEF a, b

\* A frame of an utterance is a run of its samples.
LEMMA FrameSpoken ==
    ASSUME NEW h \in History, NEW n \in 1..Len(h), SpeechIn(h, n)
    PROVE  /\ Straight(h, SamplesOf(n)) /\ 1 \in 1..FrameSamples
           /\ SamplesOf(n)[1] = (n - 1) * FrameSamples + 1
           /\ SamplesOf(n)[FrameSamples] = n * FrameSamples
           /\ ~SpeechIn(h, n - 1) => OpensAt(h, SamplesOf(n)[1])
<1> DEFINE s == SamplesOf(n)
           a == (n - 1) * FrameSamples
<1>1. n \in Nat \ {0} /\ n \in 1..Len(h) /\ FrameSamples \in Nat \ {0}
  BY HistoryGrows, FramesAssumption
<1>2. /\ s \in Seq(Int) /\ Len(s) = FrameSamples /\ a \in Int
      /\ \A i \in 1..FrameSamples : /\ s[i] = a + i /\ FrameOf(s[i]) = n
                                    /\ (s[i] - 1) % FrameSamples = i - 1
      /\ n * FrameSamples = a + FrameSamples
  BY <1>1, FramePlaces
<1> HIDE DEF a, s
<1>3. 1 \in 1..FrameSamples /\ FrameSamples \in 1..FrameSamples
  BY <1>1
<1>4. \A i \in 1..FrameSamples : s[i] = s[1] + i - 1 /\ s[i] \in Int
  BY <1>1, <1>2, <1>3
<1>5. \A i \in 1..FrameSamples : Spoken(h, s[i])
  BY <1>1, <1>2, <1>4 DEF Spoken
<1>6. Straight(h, s)
  BY <1>2, <1>4, <1>5 DEF Straight
<1>7. s[1] = a + 1 /\ s[FrameSamples] = n * FrameSamples /\ FrameOf(s[1]) = n
      /\ (s[1] - 1) % FrameSamples = 0
  BY <1>2, <1>3
<1>8. ~SpeechIn(h, n - 1) => OpensAt(h, s[1])
  BY <1>3, <1>5, <1>7 DEF OpensAt
<1>9. QED
  BY <1>3, <1>6, <1>7, <1>8 DEF a, s

-----------------------------------------------------------------------------
(* Samples into chunks *)

\* A frame joins what is pending without a gap.
LEMMA FrameJoins ==
    ASSUME NEW h \in History, NEW cs, NEW ps \in Seq(Int), PendingRight(h, cs, ps),
           NEW n \in 1..Len(h), SpeechIn(h, n),
           IF SpeechIn(h, n - 1) THEN Reached(cs, ps, (n - 1) * FrameSamples + 1)
                                 ELSE ps = <<>>
    PROVE  LET all == ps \o SamplesOf(n)
           IN  /\ all \in Seq(Int) /\ Len(all) \in Nat \ {0} /\ Straight(h, all)
               /\ OpensAt(h, all[1]) \/ Follows(cs, Len(cs), all[1])
               /\ all[Len(all)] = n * FrameSamples
<1> DEFINE s == SamplesOf(n)
           a == (n - 1) * FrameSamples
           all == ps \o s
<1>1. n \in Nat \ {0} /\ FrameSamples \in Nat \ {0}
  BY HistoryGrows, FramesAssumption
<1>2. /\ s \in Seq(Int) /\ Len(s) = FrameSamples /\ a \in Int
      /\ n * FrameSamples = a + FrameSamples
  BY <1>1, FramePlaces
<1>3. /\ Straight(h, s) /\ 1 \in 1..FrameSamples
      /\ s[1] = a + 1 /\ s[FrameSamples] = n * FrameSamples
      /\ ~SpeechIn(h, n - 1) => OpensAt(h, s[1])
  BY FrameSpoken
<1>4. Len(ps) \in Nat /\ (ps # <<>> => Len(ps) \in Nat \ {0}) /\ (ps = <<>> => Len(ps) = 0)
      /\ \A i \in 1..Len(ps) : ps[i] \in Int
  BY EmptySeq, LenProperties
<1>5. /\ all \in Seq(Int) /\ Len(all) = Len(ps) + FrameSamples
      /\ \A i \in 1..(Len(ps) + FrameSamples) :
             all[i] = IF i <= Len(ps) THEN ps[i] ELSE s[i - Len(ps)]
  <2>1. /\ all \in Seq(Int) /\ Len(all) = Len(ps) + Len(s)
        /\ \A i \in 1..(Len(ps) + Len(s)) :
               all[i] = IF i <= Len(ps) THEN ps[i] ELSE s[i - Len(ps)]
    <3>1. s \in Seq(Int)
      BY <1>2
    <3> HIDE DEF s
    <3>2. QED
      BY <3>1, ConcatProperties
  <2>2. Len(s) = FrameSamples
    BY <1>2
  <2> HIDE DEF s, all, a
  <2>3. QED
    BY <2>1, <2>2
<1>6. ps # <<>> => ps[Len(ps)] = a
  <2>1. SUFFICES ASSUME ps # <<>> PROVE ps[Len(ps)] = a
    OBVIOUS
  <2>2. a + 1 = ps[Len(ps)] + 1
    BY <2>1 DEF Reached
  <2>3. ps[Len(ps)] \in Int
    BY <1>4, <2>1
  <2>4. QED
    BY <1>2, <2>2, <2>3
<1>7. Straight(h, ps)
  BY DEF PendingRight
<1>8. ps = <<>> => OpensAt(h, s[1]) \/ Follows(cs, Len(cs), s[1])
  <2>1. CASE SpeechIn(h, n - 1)
    BY <1>3, <2>1 DEF Reached
  <2>2. CASE ~SpeechIn(h, n - 1)
    BY <1>3, <2>2
  <2>3. QED
    BY <2>1, <2>2
<1>9. ps # <<>> => OpensAt(h, ps[1]) \/ Follows(cs, Len(cs), ps[1])
  BY DEF PendingRight
<1> HIDE DEF s, a, all
<1>10. all[1] = IF ps = <<>> THEN s[1] ELSE ps[1]
  <2>1. 1 \in 1..(Len(ps) + FrameSamples)
    BY <1>1, <1>4
  <2>2. QED
    BY <1>4, <1>5, <2>1
<1>11. all[Len(all)] = n * FrameSamples
  <2>1. Len(all) \in 1..(Len(ps) + FrameSamples) /\ ~(Len(all) <= Len(ps))
        /\ Len(all) - Len(ps) = FrameSamples
    BY <1>1, <1>4, <1>5
  <2>2. QED
    BY <1>3, <1>5, <2>1
<1>12. ps # <<>> => a = ps[1] + Len(ps) - 1 /\ ps[1] \in Int
  <2>1. SUFFICES ASSUME ps # <<>> PROVE a = ps[1] + Len(ps) - 1 /\ ps[1] \in Int
    OBVIOUS
  <2>2. Len(ps) \in 1..Len(ps) /\ 1 \in 1..Len(ps)
    BY <1>4, <2>1
  <2>3. ps[Len(ps)] = ps[1] + Len(ps) - 1
    BY <1>7, <2>2 DEF Straight
  <2>4. QED
    BY <1>4, <1>6, <2>1, <2>2, <2>3
<1>13. ASSUME NEW i \in 1..Len(all) PROVE all[i] = all[1] + i - 1 /\ Spoken(h, all[i])
  <2>1. CASE i <= Len(ps)
    <3>1. i \in 1..Len(ps) /\ ps # <<>> /\ all[i] = ps[i]
      BY <1>4, <1>5, <2>1
    <3>2. all[1] = ps[1]
      BY <1>10, <3>1
    <3>3. QED
      BY <1>7, <3>1, <3>2 DEF Straight
  <2>2. CASE ~(i <= Len(ps))
    <3> DEFINE j == i - Len(ps)
    <3>1. j \in 1..Len(s) /\ j \in Int /\ all[i] = s[j] /\ i = Len(ps) + j
      BY <1>1, <1>2, <1>4, <1>5, <2>2
    <3>2. s[j] = s[1] + j - 1 /\ Spoken(h, s[j])
      BY <1>3, <3>1 DEF Straight
    <3> HIDE DEF j
    <3>3. CASE ps = <<>>
      <4>1. i = j /\ all[1] = s[1]
        BY <1>4, <1>10, <3>1, <3>3
      <4>2. QED
        BY <3>1, <3>2, <4>1
    <3>4. CASE ps # <<>>
      <4>1. all[1] = ps[1] /\ ps[1] \in Int /\ a = ps[1] + Len(ps) - 1
        BY <1>10, <1>12, <3>4
      <4>2. a \in Int /\ Len(ps) \in Int /\ j \in Int
        BY <1>2, <1>4, <3>1
      <4>3. all[i] = (a + 1) + j - 1
        BY <1>3, <3>1, <3>2
      <4> DEFINE first == ps[1]
                 l == Len(ps)
      <4>4. (a + 1) + j - 1 = first + (l + j) - 1
        <5>1. first \in Int /\ l \in Int /\ a = first + l - 1
          BY <4>1, <4>2
        <5> HIDE DEF first, l
        <5>2. QED
          BY <4>2, <5>1
      <4>5. all[i] = all[1] + i - 1
        BY <3>1, <4>1, <4>3, <4>4, Zenon
      <4>6. QED
        BY <3>1, <3>2, <4>5
    <3>5. QED
      BY <3>3, <3>4
  <2>3. QED
    BY <2>1, <2>2
<1>14. Straight(h, all)
  BY <1>13 DEF Straight
<1>15. OpensAt(h, all[1]) \/ Follows(cs, Len(cs), all[1])
  BY <1>8, <1>9, <1>10
<1>16. Len(all) \in Nat \ {0}
  BY <1>1, <1>4, <1>5
<1>17. QED
  BY <1>5, <1>11, <1>14, <1>15, <1>16 DEF all, s

\* What one chunk of the cut holds.
LEMMA CutSamples ==
    ASSUME NEW h, NEW all \in Seq(Int), Straight(h, all), NEW first \in Nat,
           NEW j \in 1..FullChunks(all)
    PROVE  LET s == CutFrom(first, all)[j].samples
           IN  /\ Straight(h, s) /\ Len(s) = ChunkSamples /\ s \in Seq(Int)
               /\ s[1] = all[1] + (j - 1) * ChunkSamples
               /\ s[ChunkSamples] = all[1] + j * ChunkSamples - 1
               /\ all[1] \in Int
<1> DEFINE s == CutFrom(first, all)[j].samples
           c == ChunkSamples
           p == (j - 1) * c
           q == j * c
<1>1. p \in Nat /\ q = p + c /\ q <= Len(all) /\ c \in Nat \ {0} /\ Len(all) \in Nat
  BY ChunkPlaces, ChunkSamplesPositive, LenProperties
<1>2. s \in Seq(Int) /\ Len(s) = c /\ \A i \in 1..c : s[i] = all[p + i]
  BY CutContents
<1> HIDE DEF s, c, p, q
<1>3. \A i \in 1..c : p + i \in 1..Len(all)
  BY <1>1
<1>4. \A i \in 1..c : all[p + i] = all[1] + (p + i) - 1 /\ Spoken(h, all[p + i])
  BY <1>3 DEF Straight
<1>5. all[1] \in Int
  <2>1. 1 \in 1..Len(all)
    BY <1>1
  <2>2. QED
    BY <2>1, LenProperties
<1> DEFINE x == all[1]
<1>6. \A i \in 1..c : s[i] = x + (p + i) - 1 /\ Spoken(h, s[i])
  BY <1>2, <1>4, Zenon DEF x
<1> HIDE DEF x
<1>7. x \in Int /\ 1 \in 1..c /\ c \in 1..c
  BY <1>1, <1>5 DEF x
<1>8. s[1] = x + (p + 1) - 1 /\ s[c] = x + (p + c) - 1
  BY <1>6, <1>7, Zenon
<1>9. s[1] = x + p /\ s[c] = x + q - 1
  BY <1>1, <1>7, <1>8
<1>10. \A i \in 1..c : s[i] = s[1] + i - 1
  <2>1. \A i \in 1..c : x + (p + i) - 1 = (x + p) + i - 1
    BY <1>1, <1>7
  <2>2. QED
    BY <1>6, <1>9, <2>1, Zenon
<1>11. Straight(h, s)
  BY <1>2, <1>6, <1>10 DEF Straight
<1>12. QED
  BY <1>2, <1>5, <1>9, <1>11 DEF s, c, p, q, x

\* What the capture does with a run of samples that goes on where it stands.
LEMMA CutRight ==
    ASSUME NEW h \in History, NEW cs \in Seq(Chunks), ChunksRight(h, cs),
           NEW all \in Seq(Int), Len(all) \in Nat \ {0}, Straight(h, all),
           OpensAt(h, all[1]) \/ Follows(cs, Len(cs), all[1])
    PROVE  LET ds == cs \o CutFrom(Len(cs) + 1, all)
           IN  /\ ChunksRight(h, ds) /\ PendingRight(h, ds, Rest(all))
               /\ Len(ds) = Len(cs) + FullChunks(all)
               /\ Reached(ds, Rest(all), all[Len(all)] + 1)
<1> DEFINE cut == CutFrom(Len(cs) + 1, all)
           ds == cs \o cut
           f == FullChunks(all)
           c == ChunkSamples
           l == Len(cs)
           x == all[1]
           e == f * c
           rest == Rest(all)
<1>1. /\ l \in Nat /\ f \in Nat /\ c \in Nat \ {0} /\ e \in Nat /\ e <= Len(all)
      /\ Len(all) \in Nat \ {0}
  BY LenProperties, FullChunksFit, ChunkSamplesPositive
<1>2. cut \in Seq(Chunks) /\ Len(cut) = f
  BY <1>1, CutIsChunks
<1>3. \A j \in 1..f : cut[j].sequence = l + j
  <2>1. \A j \in 1..f : cut[j].sequence = (l + 1) + j - 1
    BY <1>1, CutContents
  <2> HIDE DEF cut, f, l
  <2>2. QED
    BY <1>1, <2>1
<1>4. x \in Int /\ \A i \in 1..Len(all) : all[i] = x + i - 1 /\ Spoken(h, all[i])
  <2>1. 1 \in 1..Len(all)
    BY <1>1
  <2>2. QED
    BY <2>1, LenProperties DEF Straight
<1>5. \A j \in 1..f : /\ Straight(h, cut[j].samples) /\ Len(cut[j].samples) = c
                      /\ cut[j].samples[1] = x + (j - 1) * c
                      /\ cut[j].samples[c] = x + j * c - 1
  BY <1>1, CutSamples
<1>6. \A j \in 1..f : j * c \in Int /\ (j - 1) * c \in Int
  BY <1>1
<1>7. (1 - 1) * c = 0
  BY <1>1
<1>8. /\ rest \in Seq(Int) /\ Len(rest) = Len(all) - e /\ Len(rest) < c
      /\ \A i \in 1..Len(rest) : rest[i] = all[e + i]
  BY RestPlaces
<1>9. /\ Len(ds) = l + f
      /\ \A k \in 1..l : ds[k] = cs[k]
      /\ \A j \in 1..f : ds[l + j] = cut[j]
  <2>1. /\ Len(ds) = l + f
        /\ \A k \in 1..(l + f) : ds[k] = IF k <= l THEN cs[k] ELSE cut[k - l]
    <3>1. /\ Len(ds) = Len(cs) + Len(cut)
          /\ \A k \in 1..(Len(cs) + Len(cut)) : ds[k] = IF k <= Len(cs) THEN cs[k] ELSE cut[k - Len(cs)]
      <4> HIDE DEF cut
      <4>1. QED
        BY <1>2, ConcatProperties
    <3> HIDE DEF ds, cut, f, e
    <3>2. QED
      BY <1>2, <3>1
  <2> HIDE DEF ds, cut, f, e, l
  <2>2. \A k \in 1..l : k \in 1..(l + f) /\ k <= l
    BY <1>1
  <2>3. \A j \in 1..f : l + j \in 1..(l + f) /\ ~(l + j <= l) /\ (l + j) - l = j
    BY <1>1
  <2>4. QED
    BY <2>1, <2>2, <2>3
<1>10. \A k, y : k \in 0..l /\ Follows(cs, k, y) => Follows(ds, k, y)
  <2> HIDE DEF ds, l
  <2>1. \A k : k \in 0..l /\ k > 0 => k \in 1..l
    BY <1>1
  <2>2. QED
    BY <1>9, <2>1 DEF Follows
<1>11. e = 0 <=> f = 0
  <2> HIDE DEF c, f
  <2>1. e = c * f
    BY <1>1
  <2>2. f >= 1 => c * 1 <= c * f /\ c * 1 = c
    BY <1>1, TimesGrows
  <2>3. f = 0 => c * f = 0
    BY <1>1
  <2> HIDE DEF e
  <2>4. QED
    BY <1>1, <2>1, <2>2, <2>3
<1>12. f # 0 => Follows(ds, l + f, x + e)
  <2>1. SUFFICES ASSUME f # 0 PROVE Follows(ds, l + f, x + e)
    OBVIOUS
  <2>2. f \in 1..f /\ l + f > 0
    <3> HIDE DEF f, l
    <3> QED BY <1>1, <2>1
  <2>3. ds[l + f].samples[c] = x + e - 1
    BY <1>5, <1>9, <2>2, Zenon
  <2> HIDE DEF e, f, l, c, x, ds
  <2>4. (x + e - 1) + 1 = x + e
    BY <1>1, <1>4
  <2>5. QED
    BY <2>2, <2>3, <2>4 DEF Follows, c
<1>13. ASSUME NEW j \in 1..f
       PROVE  \/ OpensAt(h, cut[j].samples[1])
              \/ Follows(ds, l + j - 1, cut[j].samples[1])
  <2>1. CASE j = 1
    <3>1. cut[j].samples[1] = x + (1 - 1) * c
      BY <1>5, <2>1
    <3>2. x + (1 - 1) * c = x
      BY <1>4, <1>7
    <3>3. l + j - 1 = l /\ l \in 0..l
      BY <1>1, <2>1
    <3>4. OpensAt(h, x) \/ Follows(cs, l, x)
      OBVIOUS
    <3> HIDE DEF ds, l, x, c, cut
    <3>5. cut[j].samples[1] = x
      BY <3>1, <3>2
    <3>6. QED
      BY <1>10, <3>3, <3>4, <3>5
  <2>2. CASE j # 1
    <3> DEFINE i == j - 1
               b == i * c
    <3>1. i \in 1..f /\ l + j - 1 = l + i /\ l + i > 0
      <4> HIDE DEF f, l
      <4> QED BY <1>1, <2>2
    <3>2. ds[l + i].samples[c] = x + b - 1
      BY <1>5, <1>9, <3>1, Zenon
    <3>3. b \in Int /\ cut[j].samples[1] = x + b
      BY <1>5, <1>6
    <3> HIDE DEF b, i, l, f, x, ds, c, cut
    <3>4. (x + b - 1) + 1 = x + b
      BY <1>4, <3>3
    <3>5. Follows(ds, l + i, x + b)
      BY <3>1, <3>2, <3>4 DEF Follows, c
    <3>6. QED
      BY <3>1, <3>3, <3>5
  <2>3. QED
    BY <2>1, <2>2
<1>14. ChunksRight(h, ds)
  <2> HIDE DEF ds, cut, f, l, c, x, e
  <2>1. ASSUME NEW k \in 1..Len(ds)
        PROVE  /\ ds[k].sequence = k /\ Len(ds[k].samples) = ChunkSamples
               /\ Straight(h, ds[k].samples)
               /\ \/ OpensAt(h, ds[k].samples[1])
                  \/ Follows(ds, k - 1, ds[k].samples[1])
    <3>1. CASE k <= l
      <4>1. k \in 1..l /\ k - 1 \in 0..l /\ ds[k] = cs[k]
        BY <1>1, <1>9, <3>1
      <4>2. /\ cs[k].sequence = k /\ Len(cs[k].samples) = ChunkSamples
            /\ Straight(h, cs[k].samples)
            /\ \/ OpensAt(h, cs[k].samples[1])
               \/ Follows(cs, k - 1, cs[k].samples[1])
        BY <4>1 DEF ChunksRight, l
      <4>3. Follows(cs, k - 1, cs[k].samples[1]) => Follows(ds, k - 1, cs[k].samples[1])
        BY <1>10, <4>1
      <4>4. QED
        BY <4>1, <4>2, <4>3
    <3>2. CASE ~(k <= l)
      <4> DEFINE j == k - l
      <4>1. j \in 1..f /\ l + j = k /\ l + j - 1 = k - 1
        BY <1>1, <1>9, <3>2
      <4> HIDE DEF j
      <4>2. ds[k] = cut[j]
        BY <1>9, <4>1
      <4>3. /\ cut[j].sequence = l + j /\ Len(cut[j].samples) = c
            /\ Straight(h, cut[j].samples)
        BY <1>3, <1>5, <4>1
      <4>4. \/ OpensAt(h, cut[j].samples[1])
            \/ Follows(ds, l + j - 1, cut[j].samples[1])
        BY <1>13, <4>1
      <4>5. QED
        BY <4>1, <4>2, <4>3, <4>4 DEF c
    <3>3. QED
      BY <3>1, <3>2
  <2>2. QED
    BY <2>1 DEF ChunksRight
<1>15. rest # <<>> => Len(rest) \in Nat \ {0}
  BY <1>8, EmptySeq
<1>16. Len(rest) \in Nat /\ (Len(rest) = 0 => rest = <<>>) /\ (rest = <<>> => Len(rest) = 0)
  BY <1>8, <1>15, EmptySeq, LenProperties
<1>17. PendingRight(h, ds, rest)
  <2> HIDE DEF ds, cut, f, l, c, x, e, rest
  <2>1. ASSUME NEW i \in 1..Len(rest) PROVE rest[i] = x + (e + i) - 1 /\ Spoken(h, rest[i])
    <3>1. e + i \in 1..Len(all) /\ rest[i] = all[e + i]
      BY <1>1, <1>8, <1>16
    <3>2. QED
      BY <1>4, <3>1
  <2>2. ASSUME rest # <<>> PROVE rest[1] = x + e
    <3>1. 1 \in 1..Len(rest)
      BY <1>15, <2>2
    <3>2. rest[1] = x + (e + 1) - 1
      BY <2>1, <3>1
    <3>3. x + (e + 1) - 1 = x + e
      BY <1>1, <1>4
    <3>4. QED
      BY <3>2, <3>3
  <2>3. Straight(h, rest)
    <3>1. ASSUME NEW i \in 1..Len(rest) PROVE rest[i] = rest[1] + i - 1
      <4>1. rest # <<>> /\ i \in Int
        BY <1>16
      <4>2. rest[1] = x + e /\ rest[i] = x + (e + i) - 1
        BY <2>1, <2>2, <4>1
      <4>3. x + (e + i) - 1 = (x + e) + i - 1
        BY <1>1, <1>4, <4>1
      <4>4. QED
        BY <4>2, <4>3
    <3>2. QED
      BY <2>1, <3>1 DEF Straight
  <2>4. ASSUME rest # <<>> PROVE OpensAt(h, rest[1]) \/ Follows(ds, Len(ds), rest[1])
    <3>1. rest[1] = x + e
      BY <2>2, <2>4
    <3>2. CASE f = 0
      <4>1. x + e = x /\ Len(ds) = l /\ l \in 0..l
        BY <1>1, <1>4, <1>9, <1>11, <3>2
      <4>2. OpensAt(h, x) \/ Follows(cs, l, x)
        BY DEF x, l
      <4>3. QED
        BY <1>10, <3>1, <4>1, <4>2
    <3>3. CASE f # 0
      BY <1>9, <1>12, <3>1, <3>3
    <3>4. QED
      BY <3>2, <3>3
  <2>5. QED
    BY <1>8, <2>3, <2>4 DEF PendingRight, c
<1>18. Reached(ds, rest, all[Len(all)] + 1)
  <2> HIDE DEF ds, cut, f, l, c, x, e, rest
  <2>1. all[Len(all)] = x + Len(all) - 1
    <3>1. Len(all) \in 1..Len(all)
      BY <1>1
    <3>2. QED
      BY <1>4, <3>1
  <2>2. CASE rest = <<>>
    <3>1. Len(all) = e /\ f # 0
      BY <1>1, <1>8, <1>11, <1>16, <2>2
    <3>2. all[Len(all)] = x + e - 1
      BY <2>1, <3>1
    <3>3. (x + e - 1) + 1 = x + e
      BY <1>1, <1>4
    <3>4. Follows(ds, Len(ds), all[Len(all)] + 1)
      BY <1>9, <1>12, <3>1, <3>2, <3>3
    <3>5. QED
      BY <2>2, <3>4 DEF Reached
  <2>3. CASE rest # <<>>
    <3>1. Len(rest) \in 1..Len(rest) /\ e + Len(rest) = Len(all)
      BY <1>1, <1>8, <1>15, <2>3
    <3>2. rest[Len(rest)] = all[Len(all)]
      BY <1>8, <3>1
    <3>3. QED
      BY <2>3, <3>2 DEF Reached
  <2>4. QED
    BY <2>2, <2>3
<1>19. QED
  BY <1>9, <1>14, <1>17, <1>18

-----------------------------------------------------------------------------
(* The order of what is in the port *)

\* What the capture will have taken in when the first i messages are delivered:
\* nothing that is pending, before and at the beginning of an utterance; all of
\* its frames up to frame n, within it.
Silent(i) == IF i = 0 THEN pendingSamples = <<>> ELSE port[i].type = "speech_end"
Begun(i) == IF i = 0 THEN pendingSamples = <<>> ELSE port[i].type = "speech_start"
Took(i, n) ==
    IF i = 0 THEN active => Reached(chunks, pendingSamples, n * FrameSamples + 1)
             ELSE port[i] = Audio(n)

\* A frame of an utterance comes right after the frame before it, or after the
\* report of the beginning; an utterance begins after the last one has ended.
InTurn(i) ==
    \/ port[i].type = "speech_start" /\ Silent(i - 1)
    \/ port[i].type = "speech_end"
    \/ \E n \in 1..Len(heard) :
           /\ port[i] = Audio(n) /\ SpeechIn(heard, n)
           /\ IF SpeechIn(heard, n - 1) THEN Took(i - 1, n - 1) ELSE Begun(i - 1)

PortInTurn ==
    /\ \A i \in 1..Len(port) : InTurn(i)
    /\ IF speaking THEN Took(Len(port), Len(heard)) ELSE Silent(Len(port))

\* With what the capture made of it.
CutInv ==
    /\ PortInTurn
    /\ ChunksRight(heard, chunks) /\ PendingRight(heard, chunks, pendingSamples)
    /\ sequence = Len(chunks) + 1
    /\ ~active => pendingSamples = <<>>

LEMMA AudioType == \A n : Audio(n).type = "audio_frame" /\ Audio(n).samples = SamplesOf(n)
BY DEF Audio, Message

\* Posting a message changes nothing for those before it.
LEMMA TurnKept ==
    ASSUME AudioTypeOK, NEW loud \in BOOLEAN, Process(loud), NEW i \in 1..Len(port),
           \A j \in 1..Len(port) : port'[j] = port[j], InTurn(i)
    PROVE  InTurn(i)'
<1>1. /\ heard' = Append(heard, loud) /\ Len(heard') = Len(heard) + 1 /\ Len(heard) \in Nat
      /\ UNCHANGED <<active, pendingSamples, chunks>>
  BY ProcessMoves, HistoryGrows DEF AudioTypeOK
<1>2. \A n \in 0..Len(heard) : SpeechIn(heard', n) <=> SpeechIn(heard, n)
  BY <1>1, SpeechKept DEF AudioTypeOK
<1>3. port'[i] = port[i] /\ (i - 1 # 0 => port'[i - 1] = port[i - 1])
  <2>1. Len(port) \in Nat
    BY LenProperties DEF AudioTypeOK
  <2>2. i - 1 # 0 => i - 1 \in 1..Len(port)
    BY <2>1
  <2>3. QED
    BY <2>2
<1>4. Silent(i - 1)' <=> Silent(i - 1)
  BY <1>1, <1>3 DEF Silent
<1>5. Begun(i - 1)' <=> Begun(i - 1)
  BY <1>1, <1>3 DEF Begun
<1>6. \A n : Took(i - 1, n)' <=> Took(i - 1, n)
  BY <1>1, <1>3 DEF Took
<1>7. CASE port[i].type = "speech_start" /\ Silent(i - 1)
  BY <1>3, <1>4, <1>7 DEF InTurn
<1>8. CASE port[i].type = "speech_end"
  BY <1>3, <1>8 DEF InTurn
<1>9. ASSUME NEW n \in 1..Len(heard), port[i] = Audio(n), SpeechIn(heard, n),
             IF SpeechIn(heard, n - 1) THEN Took(i - 1, n - 1) ELSE Begun(i - 1)
      PROVE  InTurn(i)'
  <2>1. n \in 1..Len(heard') /\ n \in 0..Len(heard) /\ n - 1 \in 0..Len(heard)
    BY <1>1
  <2>2. /\ SpeechIn(heard', n)
        /\ IF SpeechIn(heard', n - 1) THEN Took(i - 1, n - 1)' ELSE Begun(i - 1)'
    BY <1>2, <1>5, <1>6, <1>9, <2>1
  <2>3. QED
    BY <1>3, <1>9, <2>1, <2>2 DEF InTurn
<1>10. QED
  BY <1>7, <1>8, <1>9 DEF InTurn

LEMMA TurnProcess ==
    ASSUME AudioTypeOK, VadInv, PortInTurn, NEW loud \in BOOLEAN, Process(loud)
    PROVE  PortInTurn'
<1>l. PICK l : l = Len(port)
  OBVIOUS
<1>n. PICK n : n = Len(heard) + 1
  OBVIOUS
<1> DEFINE ss == Message("speech_start", <<>>)
           se == Message("speech_end", <<>>)
<1>1. /\ heard' = Append(heard, loud) /\ Len(heard') = n /\ Len(heard) \in Nat /\ n \in Nat
      /\ UNCHANGED <<active, pendingSamples, chunks>>
      /\ speaking' = (Goes(loud) /\ ~Ends(loud))
  BY <1>n, ProcessMoves, HistoryGrows DEF AudioTypeOK
<1>2. l \in Nat /\ port \in Seq(Messages)
  BY <1>l, LenProperties DEF AudioTypeOK
<1>3. ss \in Messages /\ se \in Messages /\ Audio(n) \in Messages
  BY <1>1, MessageTypes
<1>4. ss.type = "speech_start" /\ se.type = "speech_end"
  BY DEF Message
<1>5. (speaking <=> SpeechIn(heard', n - 1)) /\ (speaking' <=> SpeechIn(heard', n))
  <2>1. speaking' <=> SpeechIn(heard', Len(heard'))
    BY ProcessDecides DEF VadInv
  <2>2. SpeechIn(heard', n - 1) <=> SpeechIn(heard, Len(heard))
    <3>1. n - 1 = Len(heard) /\ Len(heard) \in 0..Len(heard)
      BY <1>n, <1>1
    <3>2. QED
      BY <1>1, <3>1, SpeechKept DEF AudioTypeOK
  <2>3. speaking <=> SpeechIn(heard, Len(heard))
    BY DEF VadInv
  <2>4. QED
    BY <1>1, <2>1, <2>2, <2>3
<1>6. n \in 1..Len(heard') /\ n - 1 = Len(heard)
  BY <1>n, <1>1
<1>7. (\A j \in 1..l : port'[j] = port[j]) => \A i \in 1..l : InTurn(i)'
  BY <1>l, TurnKept DEF PortInTurn
<1>8. (\A j \in 1..l : port'[j] = port[j]) =>
          /\ Silent(l)' <=> Silent(l)
          /\ \A m : Took(l, m)' <=> Took(l, m)
  <2>1. l # 0 => l \in 1..l
    BY <1>2
  <2>2. QED
    BY <1>1, <2>1 DEF Silent, Took
<1>9. speaking => Took(l, n - 1)
  BY <1>l, <1>6 DEF PortInTurn
<1>10. ~speaking => Silent(l)
  BY <1>l DEF PortInTurn
<1> HIDE DEF ss, se
<1>11. CASE Starts(loud) /\ port' = Append(Append(port, ss), Audio(n))
  <2> DEFINE p == Append(port, ss)
  <2>1. p \in Seq(Messages) /\ Len(p) = l + 1 /\ (\A j \in 1..l : p[j] = port[j]) /\ p[l + 1] = ss
    BY <1>l, <1>2, <1>3, PostedMessage
  <2> HIDE DEF p
  <2>2. /\ Len(port') = (l + 1) + 1 /\ (\A j \in 1..(l + 1) : port'[j] = p[j])
        /\ port'[(l + 1) + 1] = Audio(n)
    BY <1>3, <1>11, <2>1, PostedMessage DEF p
  <2>3. /\ Len(port') = l + 2 /\ (\A j \in 1..l : port'[j] = port[j])
        /\ port'[l + 1] = ss /\ port'[l + 2] = Audio(n)
    BY <1>2, <2>1, <2>2
  <2>4. ~speaking /\ speaking'
    BY <1>1, <1>11, StartGoesOn DEF Goes
  <2>5. InTurn(l + 1)'
    <3>1. (l + 1) - 1 = l
      BY <1>2
    <3>2. Silent(l)'
      BY <1>8, <1>10, <2>3, <2>4
    <3>3. QED
      BY <1>4, <2>3, <3>1, <3>2 DEF InTurn
  <2>6. InTurn(l + 2)'
    <3>1. (l + 2) - 1 = l + 1 /\ l + 1 # 0
      BY <1>2
    <3>2. Begun(l + 1)'
      BY <1>4, <2>3, <3>1 DEF Begun
    <3>3. SpeechIn(heard', n) /\ ~SpeechIn(heard', n - 1)
      BY <1>5, <2>4
    <3>4. QED
      BY <1>6, <2>3, <3>1, <3>2, <3>3 DEF InTurn
  <2>7. \A i \in 1..(l + 2) : i \in 1..l \/ i = l + 1 \/ i = l + 2
    BY <1>2
  <2>8. \A i \in 1..(l + 2) : InTurn(i)'
    BY <1>7, <2>3, <2>5, <2>6, <2>7
  <2>9. Took(l + 2, n)'
    BY <1>2, <2>3 DEF Took
  <2>10. QED
    BY <1>1, <2>3, <2>4, <2>8, <2>9 DEF PortInTurn
<1>12. CASE speaking /\ Ends(loud) /\ port' = Append(port, se)
  <2>1. /\ Len(port') = l + 1 /\ (\A j \in 1..l : port'[j] = port[j]) /\ port'[l + 1] = se
    BY <1>l, <1>2, <1>3, <1>12, PostedMessage
  <2>2. ~speaking'
    BY <1>1, <1>12
  <2>3. InTurn(l + 1)'
    BY <1>4, <2>1 DEF InTurn
  <2>4. Silent(l + 1)'
    BY <1>2, <1>4, <2>1 DEF Silent
  <2>5. \A i \in 1..(l + 1) : i \in 1..l \/ i = l + 1
    BY <1>2
  <2>6. \A i \in 1..(l + 1) : InTurn(i)'
    BY <1>7, <2>1, <2>3, <2>5
  <2>7. QED
    BY <2>1, <2>2, <2>4, <2>6 DEF PortInTurn
<1>13. CASE speaking /\ ~Ends(loud) /\ port' = Append(port, Audio(n))
  <2>1. /\ Len(port') = l + 1 /\ (\A j \in 1..l : port'[j] = port[j]) /\ port'[l + 1] = Audio(n)
    BY <1>l, <1>2, <1>3, <1>13, PostedMessage
  <2>2. speaking'
    BY <1>1, <1>13 DEF Goes
  <2>3. InTurn(l + 1)'
    <3>1. (l + 1) - 1 = l
      BY <1>2
    <3>2. Took(l, n - 1)'
      <4>1. PICK m : m = n - 1
        OBVIOUS
      <4>2. Took(l, m)'
        BY <1>8, <1>9, <1>13, <2>1, <4>1
      <4>3. QED
        BY <4>1, <4>2
    <3>3. SpeechIn(heard', n) /\ SpeechIn(heard', n - 1)
      BY <1>5, <1>13, <2>2
    <3>4. QED
      BY <1>6, <2>1, <3>1, <3>2, <3>3 DEF InTurn
  <2>4. Took(l + 1, n)'
    BY <1>2, <2>1 DEF Took
  <2>5. \A i \in 1..(l + 1) : i \in 1..l \/ i = l + 1
    BY <1>2
  <2>6. \A i \in 1..(l + 1) : InTurn(i)'
    BY <1>7, <2>1, <2>3, <2>5
  <2>7. QED
    BY <1>1, <2>1, <2>2, <2>4, <2>6 DEF PortInTurn
<1>14. CASE ~Goes(loud) /\ port' = port
  <2>1. ~speaking /\ ~speaking'
    BY <1>1, <1>14 DEF Goes
  <2>2. Silent(l)' /\ \A i \in 1..l : InTurn(i)'
    BY <1>7, <1>8, <1>10, <1>14, <2>1
  <2>3. QED
    BY <1>l, <1>14, <2>1, <2>2 DEF PortInTurn
<1>15. QED
  <2>1. Audio(Len(heard) + 1) = Audio(n)
    BY <1>n
  <2>2. QED
    BY <1>11, <1>12, <1>13, <1>14, <2>1, ProcessPosts DEF ss, se
\* A capture that holds back no sample holds back none that is wrong.
LEMMA NothingPending == \A h, cs : PendingRight(h, cs, <<>>)
<1>1. Len(<<>>) = 0 /\ ChunkSamples \in Nat \ {0}
  BY EmptySeq, ChunkSamplesPositive
<1>2. 1..Len(<<>>) = {}
  BY <1>1
<1>3. \A h : Straight(h, <<>>)
  BY <1>2 DEF Straight
<1>4. QED
  BY <1>1, <1>3 DEF PendingRight

\* What a delivered message does to the capture.
LEMMA DeliverCuts ==
    ASSUME AudioTypeOK, CutInv, Deliver
    PROVE  /\ ChunksRight(heard', chunks') /\ PendingRight(heard', chunks', pendingSamples')
           /\ sequence' = Len(chunks') + 1
           /\ ~active' => pendingSamples' = <<>>
           /\ port[1].type # "audio_frame" => pendingSamples' = <<>>
           /\ \A n \in Nat \ {0} : port[1] = Audio(n) /\ active =>
                  Reached(chunks', pendingSamples', n * FrameSamples + 1)
<1>1. /\ port # <<>> /\ Head(port) = port[1] /\ port[1] \in Messages /\ Len(port) \in Nat \ {0}
      /\ UNCHANGED <<heard, active>>
  BY DeliverMoves, DeliveredMessage DEF AudioTypeOK
<1>2. /\ heard \in History /\ chunks \in Seq(Chunks) /\ pendingSamples \in Seq(Int)
      /\ sequence \in Nat /\ active \in BOOLEAN /\ Len(heard) \in Nat
  BY HistoryGrows DEF AudioTypeOK
<1>3. /\ ChunksRight(heard, chunks) /\ PendingRight(heard, chunks, pendingSamples)
      /\ sequence = Len(chunks) + 1 /\ (~active => pendingSamples = <<>>)
  BY DEF CutInv
<1>4. InTurn(1)
  <2>1. 1 \in 1..Len(port)
    BY <1>1
  <2>2. QED
    BY <2>1 DEF CutInv, PortInTurn
<1>5. PendingRight(heard, chunks, <<>>)
  BY NothingPending
<1>6. CASE port[1].type = "speech_start" /\ Silent(0)
  <2>1. pendingSamples = <<>> /\ UNCHANGED <<pendingSamples, sequence, chunks>>
    BY <1>1, <1>6 DEF Deliver, Silent
  <2>2. \A n : port[1] # Audio(n)
    BY <1>6, AudioType
  <2>3. QED
    BY <1>1, <1>3, <1>6, <2>1, <2>2
<1>7. CASE port[1].type = "speech_end"
  <2>1. pendingSamples' = <<>> /\ UNCHANGED <<sequence, chunks>>
    BY <1>1, <1>7 DEF Deliver
  <2>2. \A n : port[1] # Audio(n)
    BY <1>7, AudioType
  <2>3. QED
    BY <1>1, <1>3, <1>5, <1>7, <2>1, <2>2
<1>8. ASSUME NEW n \in 1..Len(heard), port[1] = Audio(n), SpeechIn(heard, n),
             IF SpeechIn(heard, n - 1) THEN Took(0, n - 1) ELSE Begun(0)
      PROVE  /\ ChunksRight(heard, chunks') /\ PendingRight(heard, chunks', pendingSamples')
             /\ sequence' = Len(chunks') + 1
             /\ ~active => pendingSamples' = <<>>
             /\ active => Reached(chunks', pendingSamples', n * FrameSamples + 1)
  <2>1. port[1].type = "audio_frame" /\ port[1].samples = SamplesOf(n)
    BY <1>8, AudioType
  <2>2. HandleAudioFrame(SamplesOf(n))
    BY <1>1, <2>1 DEF Deliver
  <2>3. CASE ~active
    <3>1. UNCHANGED <<chunks, sequence, pendingSamples>>
      BY <2>2, <2>3 DEF HandleAudioFrame
    <3>2. QED
      BY <1>3, <2>3, <3>1
  <2>4. CASE active
    <3> DEFINE all == pendingSamples \o SamplesOf(n)
    <3>1. IF SpeechIn(heard, n - 1)
            THEN Reached(chunks, pendingSamples, (n - 1) * FrameSamples + 1)
            ELSE pendingSamples = <<>>
      BY <1>8, <2>4 DEF Took, Begun
    <3>2. /\ all \in Seq(Int) /\ Len(all) \in Nat \ {0} /\ Straight(heard, all)
          /\ OpensAt(heard, all[1]) \/ Follows(chunks, Len(chunks), all[1])
          /\ all[Len(all)] = n * FrameSamples
      BY <1>2, <1>3, <1>8, <3>1, FrameJoins
    <3>3. /\ chunks' = chunks \o CutFrom(sequence, all)
          /\ sequence' = sequence + FullChunks(all) /\ pendingSamples' = Rest(all)
      BY <2>2, <2>4, HandleMoves
    <3> HIDE DEF all
    <3>4. chunks' = chunks \o CutFrom(Len(chunks) + 1, all)
      BY <1>3, <3>3
    <3>5. /\ ChunksRight(heard, chunks') /\ PendingRight(heard, chunks', Rest(all))
          /\ Len(chunks') = Len(chunks) + FullChunks(all)
          /\ Reached(chunks', Rest(all), all[Len(all)] + 1)
      BY <1>2, <1>3, <3>2, <3>4, CutRight
    <3>6. sequence' = Len(chunks') + 1
      <4>1. Len(chunks) \in Nat /\ FullChunks(all) \in Nat
        BY <1>2, <3>2, LenProperties, FullChunksFit
      <4>2. /\ sequence = Len(chunks) + 1 /\ sequence' = sequence + FullChunks(all)
            /\ Len(chunks') = Len(chunks) + FullChunks(all)
        BY <1>3, <3>3, <3>5
      <4>3. QED
        BY <4>1, <4>2
    <3>7. QED
      BY <2>4, <3>2, <3>3, <3>5, <3>6
  <2>5. QED
    BY <2>3, <2>4
<1>9. CASE \E n \in 1..Len(heard) :
              /\ port[1] = Audio(n) /\ SpeechIn(heard, n)
              /\ IF SpeechIn(heard, n - 1) THEN Took(0, n - 1) ELSE Begun(0)
  <2>1. PICK n \in 1..Len(heard) :
            /\ port[1] = Audio(n) /\ SpeechIn(heard, n)
            /\ IF SpeechIn(heard, n - 1) THEN Took(0, n - 1) ELSE Begun(0)
    BY <1>9
  <2>2. /\ ChunksRight(heard, chunks') /\ PendingRight(heard, chunks', pendingSamples')
        /\ sequence' = Len(chunks') + 1
        /\ ~active => pendingSamples' = <<>>
        /\ active => Reached(chunks', pendingSamples', n * FrameSamples + 1)
    BY <1>8, <2>1
  <2>3. ASSUME NEW m \in Nat \ {0}, port[1] = Audio(m), active
        PROVE  Reached(chunks', pendingSamples', m * FrameSamples + 1)
    <3>1. SamplesOf(m) = SamplesOf(n) /\ n \in Nat \ {0} /\ FrameSamples \in Nat \ {0}
      <4>1. SamplesOf(m) = port[1].samples /\ SamplesOf(n) = port[1].samples
        BY <2>1, <2>3, AudioType, Zenon
      <4>2. n \in Nat \ {0} /\ FrameSamples \in Nat \ {0}
        BY <1>2, FramesAssumption
      <4>3. QED
        BY <4>1, <4>2
    <3>2. m * FrameSamples = SamplesOf(m)[FrameSamples]
      <4>1. FrameSamples \in 1..FrameSamples
        BY <3>1
      <4>2. SamplesOf(m)[FrameSamples] = (m - 1) * FrameSamples + FrameSamples
            /\ m * FrameSamples = (m - 1) * FrameSamples + FrameSamples
        BY <4>1, FramePlaces
      <4>3. QED
        BY <4>2, Zenon
    <3>3. n * FrameSamples = SamplesOf(n)[FrameSamples]
      <4>1. FrameSamples \in 1..FrameSamples
        BY <3>1
      <4>2. SamplesOf(n)[FrameSamples] = (n - 1) * FrameSamples + FrameSamples
            /\ n * FrameSamples = (n - 1) * FrameSamples + FrameSamples
        BY <3>1, <4>1, FramePlaces
      <4>3. QED
        BY <4>2, Zenon
    <3>4. m * FrameSamples = n * FrameSamples
      BY <3>1, <3>2, <3>3, Zenon
    <3>5. QED
      BY <2>2, <2>3, <3>4, Zenon
  <2>4. port[1].type = "audio_frame"
    BY <2>1, AudioType
  <2>5. QED
    BY <1>1, <2>2, <2>3, <2>4
<1>10. 1 - 1 = 0
  OBVIOUS
<1>11. QED
  BY <1>4, <1>6, <1>7, <1>9, <1>10 DEF InTurn

\* A delivery moves every place of the port one to the front.
LEMMA PlacePassed ==
    ASSUME AudioTypeOK, CutInv, Deliver, NEW i \in 1..Len(port)
    PROVE  /\ Silent(i) => Silent(i - 1)'
           /\ Begun(i) => Begun(i - 1)'
           /\ \A n \in Nat \ {0} : Took(i, n) => Took(i - 1, n)'
<1>1. /\ port' = Tail(port) /\ UNCHANGED active /\ Len(port) \in Nat \ {0}
      /\ \A j \in 1..(Len(port) - 1) : port'[j] = port[j + 1]
  BY DeliverMoves, DeliveredMessage DEF AudioTypeOK
<1>2. /\ port[1].type # "audio_frame" => pendingSamples' = <<>>
      /\ \A n \in Nat \ {0} : port[1] = Audio(n) /\ active =>
             Reached(chunks', pendingSamples', n * FrameSamples + 1)
  BY DeliverCuts
<1>3. CASE i = 1
  <2>1. i # 0 /\ i - 1 = 0
    BY <1>3
  <2>2. Silent(i) => Silent(i - 1)'
    BY <1>2, <1>3, <2>1 DEF Silent
  <2>3. Begun(i) => Begun(i - 1)'
    BY <1>2, <1>3, <2>1 DEF Begun
  <2>4. ASSUME NEW n \in Nat \ {0}, Took(i, n) PROVE Took(i - 1, n)'
    BY <1>1, <1>2, <1>3, <2>1, <2>4 DEF Took
  <2>5. QED
    BY <2>2, <2>3, <2>4
<1>4. CASE i # 1
  <2>1. i # 0 /\ i - 1 # 0 /\ i - 1 \in 1..(Len(port) - 1) /\ (i - 1) + 1 = i
    BY <1>1, <1>4
  <2>2. port'[i - 1] = port[i]
    BY <1>1, <2>1
  <2>3. Silent(i) => Silent(i - 1)'
    BY <2>1, <2>2 DEF Silent
  <2>4. Begun(i) => Begun(i - 1)'
    BY <2>1, <2>2 DEF Begun
  <2>5. ASSUME NEW n \in Nat \ {0}, Took(i, n) PROVE Took(i - 1, n)'
    BY <1>1, <2>1, <2>2, <2>5 DEF Took
  <2>6. QED
    BY <2>3, <2>4, <2>5
<1>5. QED
  BY <1>3, <1>4

LEMMA TurnDeliver == ASSUME AudioTypeOK, VadInv, CutInv, Deliver PROVE PortInTurn'
<1>1. /\ port' = Tail(port) /\ Len(port) \in Nat \ {0} /\ Len(port') = Len(port) - 1
      /\ \A j \in 1..(Len(port) - 1) : port'[j] = port[j + 1]
      /\ UNCHANGED <<heard, active, speaking>> /\ Len(heard) \in Nat
  <2>1. port \in Seq(Messages) /\ heard \in Seq(BOOLEAN)
    BY DEF AudioTypeOK, History
  <2>2. port' = Tail(port) /\ port # <<>> /\ UNCHANGED <<heard, active, speaking>>
    BY DEF Deliver
  <2>3. Len(heard) \in Nat
    BY <2>1, LenProperties
  <2>4. /\ Len(port) \in Nat \ {0} /\ Len(port') = Len(port) - 1
        /\ \A j \in 1..(Len(port) - 1) : port'[j] = port[j + 1]
    BY <2>1, <2>2, DeliveredMessage
  <2>5. QED
    BY <2>2, <2>3, <2>4
<1>2. ASSUME NEW i \in 1..Len(port') PROVE InTurn(i)'
  <2>1. /\ i \in 1..Len(port) /\ i + 1 \in 1..Len(port) /\ (i + 1) - 1 = i
        /\ port'[i] = port[i + 1]
    BY <1>1
  <2>2. InTurn(i + 1)
    BY <2>1 DEF CutInv, PortInTurn
  <2>3. /\ Silent(i) => Silent(i - 1)'
        /\ Begun(i) => Begun(i - 1)'
        /\ \A n \in Nat \ {0} : Took(i, n) => Took(i - 1, n)'
    BY <2>1, PlacePassed
  <2>4. CASE port[i + 1].type = "speech_start" /\ Silent(i)
    BY <2>1, <2>3, <2>4 DEF InTurn
  <2>5. CASE port[i + 1].type = "speech_end"
    BY <2>1, <2>5 DEF InTurn
  <2>6. ASSUME NEW n \in 1..Len(heard), port[i + 1] = Audio(n), SpeechIn(heard, n),
               IF SpeechIn(heard, n - 1) THEN Took(i, n - 1) ELSE Begun(i)
        PROVE  InTurn(i)'
    <3>1. IF SpeechIn(heard, n - 1) THEN Took(i - 1, n - 1)' ELSE Begun(i - 1)'
      <4>1. CASE SpeechIn(heard, n - 1)
        <5>1. PICK m : m = n - 1
          OBVIOUS
        <5>2. m # 0
          BY <4>1, <5>1, NoSpeechAtFirst
        <5>3. m \in Nat \ {0} /\ Took(i, m)
          BY <1>1, <2>6, <4>1, <5>1, <5>2
        <5>4. QED
          BY <2>3, <4>1, <5>1, <5>3
      <4>2. CASE ~SpeechIn(heard, n - 1)
        BY <2>3, <2>6, <4>2
      <4>3. QED
        BY <4>1, <4>2
    <3>2. QED
      BY <1>1, <2>1, <2>6, <3>1 DEF InTurn
  <2>7. QED
    BY <2>1, <2>2, <2>4, <2>5, <2>6 DEF InTurn
<1>3. IF speaking' THEN Took(Len(port), Len(heard))' ELSE Silent(Len(port))'
  <2>1. PICK l : l = Len(port)
    OBVIOUS
  <2>2. PICK n : n = Len(heard)
    OBVIOUS
  <2>3. l \in 1..Len(port) /\ Len(port') = l - 1 /\ Len(heard') = n /\ n \in Nat
    BY <1>1, <2>1, <2>2
  <2>4. /\ Silent(l) => Silent(l - 1)'
        /\ \A m \in Nat \ {0} : Took(l, m) => Took(l - 1, m)'
    BY <2>3, PlacePassed
  <2>5. CASE speaking
    <3>1. Took(l, n) /\ SpeechIn(heard, n)
      BY <2>1, <2>2, <2>5 DEF CutInv, PortInTurn, VadInv
    <3>2. n # 0
      BY <3>1, NoSpeechAtFirst
    <3>3. Took(l - 1, n)'
      BY <2>3, <2>4, <3>1, <3>2
    <3>4. QED
      BY <1>1, <2>3, <2>5, <3>3
  <2>6. CASE ~speaking
    <3>1. Silent(l - 1)'
      BY <2>1, <2>4, <2>6 DEF CutInv, PortInTurn
    <3>2. QED
      BY <1>1, <2>3, <2>6, <3>1
  <2>7. QED
    BY <2>5, <2>6
<1>4. QED
  BY <1>2, <1>3 DEF PortInTurn

LEMMA TurnStop == ASSUME AudioTypeOK, CutInv, Stop PROVE PortInTurn'
<1>1. /\ UNCHANGED <<speaking, heard, port, chunks>> /\ active' = FALSE /\ pendingSamples' = <<>>
  BY DEF Stop
<1>2. \A i : Silent(i) => Silent(i)'
  BY <1>1 DEF Silent
<1>3. \A i : Begun(i) => Begun(i)'
  BY <1>1 DEF Begun
<1>4. \A i, n : Took(i, n) => Took(i, n)'
  BY <1>1 DEF Took
<1>5. ASSUME NEW i \in 1..Len(port) PROVE InTurn(i)'
  <2>1. InTurn(i)
    BY DEF CutInv, PortInTurn
  <2>2. QED
    BY <1>1, <1>2, <1>3, <1>4, <2>1 DEF InTurn
<1>6. PICK l, n : l = Len(port) /\ n = Len(heard)
  OBVIOUS
<1>7. IF speaking THEN Took(l, n)' ELSE Silent(l)'
  BY <1>2, <1>4, <1>6 DEF CutInv, PortInTurn
<1>8. QED
  BY <1>1, <1>5, <1>6, <1>7 DEF PortInTurn

-----------------------------------------------------------------------------
(* The invariant of both threads *)

LEMMA CutInvInit == Init => CutInv
<1> SUFFICES ASSUME Init PROVE CutInv
  OBVIOUS
<1>1. /\ speaking = FALSE /\ heard = <<>> /\ port = <<>> /\ active = TRUE
      /\ pendingSamples = <<>> /\ sequence = 1 /\ chunks = <<>>
  BY DEF Init
<1>2. Len(<<>>) = 0
  BY EmptySeq
<1>3. 1..Len(<<>>) = {} /\ Len(<<>>) + 1 = 1
  BY <1>2
<1>4. PortInTurn
  BY <1>1, <1>2, <1>3 DEF PortInTurn, Silent
<1>5. ChunksRight(heard, chunks)
  BY <1>1, <1>3 DEF ChunksRight
<1>6. PendingRight(heard, chunks, pendingSamples)
  BY <1>1, NothingPending
<1>7. QED
  BY <1>1, <1>3, <1>4, <1>5, <1>6 DEF CutInv

LEMMA CutProcess ==
    ASSUME AudioTypeOK, VadInv, CutInv, NEW loud \in BOOLEAN, Process(loud)
    PROVE  CutInv'
<1>1. /\ heard' = Append(heard, loud) /\ heard \in History
      /\ UNCHANGED <<active, pendingSamples, sequence, chunks>>
  BY ProcessMoves DEF AudioTypeOK
<1>2. PortInTurn'
  BY TurnProcess DEF CutInv
<1>3. ChunksRight(Append(heard, loud), chunks)
  BY <1>1, ChunksKept DEF CutInv
<1>4. PendingRight(Append(heard, loud), chunks, pendingSamples)
  BY <1>1, PendingKept DEF CutInv
<1>5. ChunksRight(heard', chunks') /\ PendingRight(heard', chunks', pendingSamples')
  BY <1>1, <1>3, <1>4
<1>6. sequence' = Len(chunks') + 1 /\ (~active' => pendingSamples' = <<>>)
  BY <1>1 DEF CutInv
<1>7. QED
  BY <1>2, <1>5, <1>6 DEF CutInv

LEMMA CutDeliver == ASSUME AudioTypeOK, VadInv, CutInv, Deliver PROVE CutInv'
<1>1. PortInTurn'
  BY TurnDeliver
<1>2. /\ ChunksRight(heard', chunks') /\ PendingRight(heard', chunks', pendingSamples')
      /\ sequence' = Len(chunks') + 1
      /\ ~active => pendingSamples' = <<>>
      /\ UNCHANGED active
  BY DeliverCuts, DeliverMoves
<1>3. QED
  BY <1>1, <1>2 DEF CutInv

LEMMA CutStop == ASSUME AudioTypeOK, CutInv, Stop PROVE CutInv'
<1>1. UNCHANGED <<heard, chunks, sequence>> /\ pendingSamples' = <<>>
  BY DEF Stop
<1>2. PortInTurn'
  BY TurnStop
<1>3. ChunksRight(heard', chunks') /\ sequence' = Len(chunks') + 1
  BY <1>1 DEF CutInv
<1>4. PendingRight(heard', chunks', pendingSamples')
  BY <1>1, NothingPending
<1>5. QED
  BY <1>1, <1>2, <1>3, <1>4 DEF CutInv

LEMMA CutElse == ASSUME CutInv, UNCHANGED vars PROVE CutInv'
<1>1. UNCHANGED <<speaking, heard, port, active, pendingSamples, sequence, chunks>>
  BY DEF vars
<1>2. PortInTurn'
  BY <1>1 DEF CutInv, PortInTurn, InTurn, Silent, Begun, Took
<1>3. QED
  BY <1>1, <1>2 DEF CutInv

LEMMA CutStep == AudioTypeOK /\ VadInv /\ CutInv /\ [Next]_vars => CutInv'
<1> SUFFICES ASSUME AudioTypeOK, VadInv, CutInv, [Next]_vars PROVE CutInv'
  OBVIOUS
<1>1. ASSUME NEW loud \in BOOLEAN, Process(loud) PROVE CutInv'
  BY <1>1, CutProcess
<1>2. CASE Deliver
  BY <1>2, CutDeliver
<1>3. CASE Stop
  BY <1>3, CutStop
<1>4. CASE UNCHANGED vars
  BY <1>4, CutElse
<1>5. QED
  BY <1>1, <1>2, <1>3, <1>4 DEF Next

\* What the property says of samples, from what the invariant says of them.
LEMMA StraightRuns == ASSUME NEW s \in Seq(Int), Straight(heard, s) PROVE Run(s)
<1>1. DOMAIN s = 1..Len(s)
  BY LenProperties
<1>2. \A x : Spoken(heard, x) => SpeechAfter(FrameOf(x))
  BY SpeechIsIn DEF Spoken
<1>3. QED
  BY <1>1, <1>2 DEF Run, Straight

LEMMA OpensOpening == ASSUME NEW x, OpensAt(heard, x) PROVE Opening(x)
<1>1. (x - 1) % FrameSamples = 0 /\ SpeechIn(heard, FrameOf(x))
      /\ ~SpeechIn(heard, FrameOf(x) - 1)
  BY DEF OpensAt, Spoken
<1>2. SpeechAfter(FrameOf(x)) /\ ~SpeechAfter(FrameOf(x) - 1)
  BY <1>1, SpeechIsIn, Zenon
<1>3. QED
  BY <1>1, <1>2 DEF Opening

LEMMA CutInvImplies == AudioTypeOK /\ CutInv => ChunksContiguous
<1> SUFFICES ASSUME AudioTypeOK, CutInv PROVE ChunksContiguous
  OBVIOUS
<1>1. ASSUME NEW k \in DOMAIN chunks
      PROVE  /\ chunks[k].sequence = k
             /\ Len(chunks[k].samples) = ChunkSamples
             /\ Run(chunks[k].samples)
             /\ \/ Opening(chunks[k].samples[1])
                \/ /\ k > 1
                   /\ chunks[k].samples[1] = chunks[k - 1].samples[ChunkSamples] + 1
  <2>1. k \in 1..Len(chunks) /\ chunks[k] \in Chunks
    BY LenProperties, ElementOfSeq DEF AudioTypeOK
  <2>2. /\ chunks[k].sequence = k
        /\ Len(chunks[k].samples) = ChunkSamples
        /\ Straight(heard, chunks[k].samples)
        /\ \/ OpensAt(heard, chunks[k].samples[1])
           \/ Follows(chunks, k - 1, chunks[k].samples[1])
    BY <2>1 DEF CutInv, ChunksRight
  <2>3. chunks[k].samples \in Seq(Int)
    BY <2>1 DEF Chunks
  <2>4. Run(chunks[k].samples)
    BY <2>2, <2>3, StraightRuns
  <2>5. CASE OpensAt(heard, chunks[k].samples[1])
    BY <2>2, <2>4, <2>5, OpensOpening
  <2>6. CASE Follows(chunks, k - 1, chunks[k].samples[1])
    <3>1. k - 1 > 0 /\ chunks[k].samples[1] = chunks[k - 1].samples[ChunkSamples] + 1
      BY <2>6 DEF Follows
    <3>2. k > 1
      BY <2>1, <3>1
    <3>3. QED
      BY <2>2, <2>4, <3>1, <3>2
  <2>7. QED
    BY <2>2, <2>5, <2>6
<1>2. Run(pendingSamples) /\ Len(pendingSamples) < ChunkSamples
  BY StraightRuns DEF AudioTypeOK, CutInv, PendingRight
<1>3. sequence = Len(chunks) + 1
  BY DEF CutInv
<1>4. QED
  BY <1>1, <1>2, <1>3 DEF ChunksContiguous

-----------------------------------------------------------------------------
(* Theorems *)

\* The variables keep their types, the counters of the worklet are the lengths
\* of the runs the history ends in, reports alternate across the port, and every
\* audio frame in the port is the one the capture has to take next.
THEOREM AudioInvariant == Spec => [](AudioTypeOK /\ VadInv /\ CutInv)
<1>1. Init => AudioTypeOK /\ VadInv /\ CutInv
  BY AudioTypeInit, VadInvInit, CutInvInit
<1>2. AudioTypeOK /\ VadInv /\ CutInv /\ [Next]_vars => (AudioTypeOK /\ VadInv /\ CutInv)'
  BY AudioTypeStep, VadStep, CutStep
<1>3. QED
  BY <1>1, <1>2, PTL DEF Spec

\* VadProcessor tells utterances apart as their definition over the whole
\* history does, and reports each beginning and each end exactly once and in
\* turn, for any thresholds and any delay of the port.
THEOREM UtterancesByDefinition == Spec => []VadMatchesDefinition
<1>1. AudioTypeOK /\ VadInv => VadMatchesDefinition
  BY VadInvImplies
<1>2. QED
  BY <1>1, AudioInvariant, PTL

\* handleAudioFrame cuts what it is sent into full chunks, numbered without a
\* gap, that lose no sample of an utterance and mix no two of them, for every
\* frame size and chunk size and also after stop().
THEOREM ChunksWhole == Spec => []ChunksContiguous
<1>1. AudioTypeOK /\ CutInv => ChunksContiguous
  BY CutInvImplies
<1>2. QED
  BY <1>1, AudioInvariant, PTL

=============================================================================
