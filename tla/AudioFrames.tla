------------------------------ MODULE AudioFrames ------------------------------
(***************************************************************************)
(* From the microphone to audio chunks: the voice activity detection in    *)
(* the audio worklet (frontend/src/lib/vadWorklet.ts) and the AudioCapture *)
(* on the main thread that cuts what it posts into chunks                  *)
(* (frontend/src/lib/audioCapture.ts).  The two threads are joined by a    *)
(* message port, which keeps order but delivers at any later time, even    *)
(* after AudioCapture.stop.                                                *)
(*                                                                         *)
(* Abstractions.  A frame is loud (its RMS reaches the threshold) or not,  *)
(* samples are numbered from 1 over all frames of the microphone, and the  *)
(* conversion to 16 bits and the timestamps are left out.  The capture is  *)
(* already wired; VoiceInput is about how it gets there.                   *)
(***************************************************************************)
EXTENDS Integers, Sequences, FiniteSets

CONSTANTS
    SpeechStartFrames,  \* loud frames in a row that begin an utterance
    SpeechEndFrames,    \* quiet frames in a row that end one
    FrameSamples,       \* samples in a frame
    SampleRate,         \* of the audio context, in Hz
    ChunkDurationMs,    \* the option chunkDurationMs
    MaxFrames,          \* bound: frames processed
    MaxLag              \* bound: messages waiting in the port

ASSUME FramesAssumption ==
    /\ SpeechStartFrames \in Nat \ {0} /\ SpeechEndFrames \in Nat \ {0}
    /\ FrameSamples \in Nat \ {0} /\ SampleRate \in Nat \ {0}
    /\ ChunkDurationMs \in Int /\ MaxFrames \in Nat /\ MaxLag \in Nat

VARIABLES
    speaking, aboveCount, belowCount,   \* the VadProcessor
    heard,          \* whether each frame processed so far was loud
    port,           \* messages posted and not yet delivered
    active,         \* the AudioCapture has not been stopped
    pendingSamples, \* samples that do not fill a chunk yet
    sequence,       \* number of the next chunk
    chunks,         \* chunks handed to onChunk
    reports         \* calls of onSpeechStart and onSpeechEnd

vars == <<speaking, aboveCount, belowCount, heard, port, active,
          pendingSamples, sequence, chunks, reports>>

\* resolveChunkSamples: clamped to 20-50 ms, rounded, never less than one.
ResolveChunkSamples(rate, ms) ==
    LET clamped == IF ms < 20 THEN 20 ELSE IF ms > 50 THEN 50 ELSE ms
        samples == (2 * rate * clamped + 1000) \div 2000
    IN  IF samples < 1 THEN 1 ELSE samples

ChunkSamples == ResolveChunkSamples(SampleRate, ChunkDurationMs)

Init ==
    /\ speaking = FALSE /\ aboveCount = 0 /\ belowCount = 0
    /\ heard = <<>> /\ port = <<>>
    /\ active = TRUE /\ pendingSamples = <<>> /\ sequence = 1
    /\ chunks = <<>> /\ reports = <<>>

-----------------------------------------------------------------------------
(* The worklet *)

SamplesOf(n) == [i \in 1..FrameSamples |-> (n - 1) * FrameSamples + i]
Message(type, samples) == [type |-> type, samples |-> samples]

\* Mutant of Above: loud frames need not follow each other.
AboveInAll(loud) == IF loud THEN aboveCount + 1 ELSE aboveCount
Above(loud) == IF loud THEN aboveCount + 1 ELSE 0

Starts(loud) == ~speaking /\ Above(loud) >= SpeechStartFrames

\* VadProcessor.process, for a channel that is not empty.
Process(loud) ==
    LET below == IF loud THEN 0 ELSE belowCount + 1
        starts == Starts(loud)
        ends == (speaking \/ starts) /\ below >= SpeechEndFrames
        talks == (speaking \/ starts) /\ ~ends
        post(cond, m) == IF cond THEN <<m>> ELSE <<>>
    IN  /\ active
        /\ Len(heard) < MaxFrames /\ Len(port) < MaxLag
        /\ heard' = Append(heard, loud)
        /\ aboveCount' = Above(loud) /\ belowCount' = below
        /\ speaking' = talks
        /\ port' = port
               \o post(starts, Message("speech_start", <<>>))
               \o post(ends, Message("speech_end", <<>>))
               \o post(talks, Message("audio_frame", SamplesOf(Len(heard'))))
        /\ UNCHANGED <<active, pendingSamples, sequence, chunks, reports>>

-----------------------------------------------------------------------------
(* The capture *)

\* Mutant of Rest: off by one sample.
RestFromNext(all) == SubSeq(all, (Len(all) \div ChunkSamples) * ChunkSamples + 2, Len(all))
Rest(all) == SubSeq(all, (Len(all) \div ChunkSamples) * ChunkSamples + 1, Len(all))

\* handleAudioFrame; a stopped capture has no context and ignores the frame.
HandleAudioFrame(samples) ==
    LET all == pendingSamples \o samples
        full == Len(all) \div ChunkSamples
        cut == [k \in 1..full |->
                   [sequence |-> sequence + k - 1,
                    samples |-> SubSeq(all, (k - 1) * ChunkSamples + 1, k * ChunkSamples)]]
    IN  IF active
        THEN /\ chunks' = chunks \o cut
             /\ sequence' = sequence + full
             /\ pendingSamples' = Rest(all)
        ELSE UNCHANGED <<chunks, sequence, pendingSamples>>

\* port.onmessage, which stays set after stop()
Deliver ==
    /\ port # <<>>
    /\ port' = Tail(port)
    /\ LET m == Head(port)
       IN  \/ /\ m.type = "audio_frame"
              /\ HandleAudioFrame(m.samples)
              /\ UNCHANGED reports
           \/ /\ m.type = "speech_start"
              /\ reports' = Append(reports, m.type)
              /\ UNCHANGED <<pendingSamples, sequence, chunks>>
           \/ /\ m.type = "speech_end"
              /\ pendingSamples' = <<>>
              /\ reports' = Append(reports, m.type)
              /\ UNCHANGED <<sequence, chunks>>
    /\ UNCHANGED <<speaking, aboveCount, belowCount, heard, active>>

\* stop(): the nodes are disconnected and the context is closed.
Stop ==
    /\ active
    /\ active' = FALSE
    /\ pendingSamples' = <<>>
    /\ UNCHANGED <<speaking, aboveCount, belowCount, heard, port, sequence,
                   chunks, reports>>

Next == (\E loud \in BOOLEAN : Process(loud)) \/ Deliver \/ Stop

Spec == Init /\ [][Next]_vars

-----------------------------------------------------------------------------
(* Properties *)

\* Speech by definition: after n frames an utterance is going on if a run of
\* loud frames began it and no run of quiet frames since ended it.
RunEnds(n, length, loud) ==
    n >= length /\ \A i \in (n - length + 1)..n : heard[i] = loud
SpeechAfter(n) ==
    \E i \in 1..n : /\ RunEnds(i, SpeechStartFrames, TRUE)
                    /\ \A j \in (i + 1)..n : ~RunEnds(j, SpeechEndFrames, FALSE)

Changes == {n \in DOMAIN heard : SpeechAfter(n) # SpeechAfter(n - 1)}

\* What the App is told of utterances, in turn, and how much of it there is once
\* the first i messages of the port are delivered.
Report(k) == IF k % 2 = 1 THEN "speech_start" ELSE "speech_end"
Told(i) == Len(reports) + Cardinality({j \in 1..i : port[j].type # "audio_frame"})

\* The counters of the worklet decide as that definition does, at their
\* boundaries and over any number of utterances, and each utterance is reported
\* once when it begins and once when it ends, however far the port lags behind.
VadMatchesDefinition ==
    /\ speaking = SpeechAfter(Len(heard))
    /\ Told(Len(port)) = Cardinality(Changes)
    /\ \A k \in DOMAIN reports : reports[k] = Report(k)
    /\ \A i \in DOMAIN port : port[i].type \in {"audio_frame", Report(Told(i))}

FrameOf(sample) == (sample - 1) \div FrameSamples + 1
\* The first sample of an utterance.
Opening(sample) ==
    /\ (sample - 1) % FrameSamples = 0
    /\ SpeechAfter(FrameOf(sample)) /\ ~SpeechAfter(FrameOf(sample) - 1)
Run(samples) ==
    \A i \in DOMAIN samples :
        /\ samples[i] = samples[1] + i - 1
        /\ SpeechAfter(FrameOf(samples[i]))

\* A chunk is full, numbered without gaps, made of neighbouring samples of one
\* utterance, and begins where the chunk before it ended or an utterance began:
\* nothing is lost inside an utterance and no two utterances are mixed.
ChunksContiguous ==
    /\ \A k \in DOMAIN chunks :
           /\ chunks[k].sequence = k
           /\ Len(chunks[k].samples) = ChunkSamples
           /\ Run(chunks[k].samples)
           /\ \/ Opening(chunks[k].samples[1])
              \/ /\ k > 1
                 /\ chunks[k].samples[1] = chunks[k - 1].samples[ChunkSamples] + 1
    /\ Run(pendingSamples) /\ Len(pendingSamples) < ChunkSamples
    /\ sequence = Len(chunks) + 1

-----------------------------------------------------------------------------
(* What the documents say and the code does not do *)

\* "When the user stops the voice input, it takes in no more voice input": a
\* stopped capture reports no utterances.
QuietAfterStop == [][reports' # reports => active]_vars

=============================================================================
