------------------------------- MODULE WakeWord -------------------------------
(***************************************************************************)
(* The streaming detector of the wake word (wake-word.ts, create_engine):  *)
(* microphone frames are taken a step at a time through three models,      *)
(* whose inferences are awaited while more frames are pushed.  Any of them *)
(* may fail, which ends the drain under way; the next push starts another. *)
(*                                                                         *)
(* Data abstraction: audio is counted in half steps; a mel frame is its    *)
(* number, and an embedding the window of mel frames it is of.  A step's   *)
(* input starts TailFrames early, with the tail of the step before it.     *)
(***************************************************************************)
EXTENDS Naturals, Sequences

CONSTANTS MelFrames,          \* that a step has, the tail included
          TailFrames,
          EMBEDDING_WINDOW,   \* mel frames of an embedding
          EMBEDDING_STEP,     \* mel frames from one to the next
          CLASSIFIER_WINDOW,  \* embeddings of a score
          DEBOUNCE_STEPS,     \* scores not asked for after a detection
          MaxSteps, MaxMisses \* bounds: steps taken, inferences that fail

ASSUME WakeWordAssumption ==
  /\ {MelFrames, EMBEDDING_WINDOW, EMBEDDING_STEP, CLASSIFIER_WINDOW} \subseteq Nat \ {0}
  /\ MelFrames <= EMBEDDING_STEP /\ EMBEDDING_STEP <= EMBEDDING_WINDOW
  /\ TailFrames \in 0..MelFrames /\ {DEBOUNCE_STEPS, MaxSteps, MaxMisses} \subseteq Nat

VARIABLES
  raw,               \* half taken of audio that wait
  taken,             \* steps of it
  mel,
  mel_window_start,
  embeddings,
  debounce,
  awaits,            \* the model whose answer the drain awaits, or "none" of them
  misses,            \* inferences that failed
  spared             \* history: embeddings since the last detection

detector_vars == <<raw, taken, mel, mel_window_start, embeddings, debounce, awaits, misses, spared>>

DetectorInit ==
  /\ raw = 0 /\ taken = 0 /\ mel = <<>> /\ mel_window_start = 0 /\ embeddings = <<>>
  /\ debounce = 0 /\ awaits = "none" /\ misses = 0 /\ spared = DEBOUNCE_STEPS + 1

-----------------------------------------------------------------------------
\* The first step has no tail before it.
FramesOf(step) ==
  IF step = 0 THEN [i \in 1..MelFrames - TailFrames |-> i - 1]
  ELSE [i \in 1..MelFrames |-> step * MelFrames - TailFrames + i - 1]

Window(start) == SubSeq(mel, start + 1, start + EMBEDDING_WINDOW)

\* The outer loop: another step, if that much audio waits.
TakeStep(waiting) ==
  IF waiting >= 2 THEN awaits' = "melspectrogram" /\ raw' = waiting - 2
                  ELSE awaits' = "none" /\ raw' = waiting

\* Faulty variant for mutation: one frame fewer is dropped than the window moves.
Trimmed_one_fewer(frames, start) ==
  IF start > EMBEDDING_WINDOW
  THEN /\ mel' = SubSeq(frames, start - EMBEDDING_WINDOW, Len(frames))
       /\ mel_window_start' = EMBEDDING_WINDOW
  ELSE mel' = frames /\ mel_window_start' = start

\* The frames behind the window, all but one window of them, are dropped.
Trimmed(frames, start) ==
  IF start > EMBEDDING_WINDOW
  THEN /\ mel' = SubSeq(frames, start - EMBEDDING_WINDOW + 1, Len(frames))
       /\ mel_window_start' = EMBEDDING_WINDOW
  ELSE mel' = frames /\ mel_window_start' = start

\* The inner loop, and what follows its last round.
Continue(frames, start, vectors) ==
  IF Len(frames) - start >= EMBEDDING_WINDOW
  THEN /\ awaits' = "embedding" /\ mel' = frames /\ mel_window_start' = start
       /\ embeddings' = vectors /\ UNCHANGED raw
  ELSE /\ Trimmed(frames, start)
       /\ embeddings' = IF Len(vectors) > CLASSIFIER_WINDOW
            THEN SubSeq(vectors, Len(vectors) - CLASSIFIER_WINDOW + 1, Len(vectors)) ELSE vectors
       /\ TakeStep(raw)

\* push(): a drain under way takes the frame in its turn.
push ==
  /\ \E n \in 1..3 :
       /\ 2 * taken + raw + n <= 2 * MaxSteps - 2
       /\ IF awaits = "none" THEN TakeStep(raw + n) ELSE raw' = raw + n /\ UNCHANGED awaits
  /\ UNCHANGED <<taken, mel, mel_window_start, embeddings, debounce, misses, spared>>

MelArrives ==
  /\ awaits = "melspectrogram" /\ taken' = taken + 1
  /\ Continue(mel \o FramesOf(taken), mel_window_start, embeddings)
  /\ UNCHANGED <<debounce, misses, spared>>

EmbeddingArrives ==
  LET vectors == Append(embeddings, Window(mel_window_start))
      start == mel_window_start + EMBEDDING_STEP
      full == Len(vectors) >= CLASSIFIER_WINDOW
  IN  /\ awaits = "embedding" /\ spared' = IF spared > DEBOUNCE_STEPS THEN spared ELSE spared + 1
      /\ debounce' = IF full /\ debounce > 0 THEN debounce - 1 ELSE debounce
      /\ IF full /\ debounce = 0
         THEN /\ awaits' = "classifier" /\ embeddings' = vectors /\ mel_window_start' = start
              /\ UNCHANGED <<raw, mel>>
         ELSE Continue(mel, start, vectors)
      /\ UNCHANGED <<taken, misses>>

\* Below the threshold, or a detection.
ScoreArrives ==
  /\ awaits = "classifier"
  /\ \/ UNCHANGED <<debounce, spared>>
     \/ debounce' = DEBOUNCE_STEPS /\ spared' = 0
  /\ Continue(mel, mel_window_start, embeddings)
  /\ UNCHANGED <<taken, misses>>

\* The step is taken all the same, and the next one starts with its tail.
InferenceFails ==
  /\ awaits # "none" /\ awaits' = "none"
  /\ misses < MaxMisses /\ misses' = misses + 1
  /\ taken' = IF awaits = "melspectrogram" THEN taken + 1 ELSE taken
  /\ UNCHANGED <<raw, mel, mel_window_start, embeddings, debounce, spared>>

DetectorNext == push \/ MelArrives \/ EmbeddingArrives \/ ScoreArrives \/ InferenceFails

-----------------------------------------------------------------------------
DetectorTypeOK ==
  /\ raw \in 0..2 * MaxSteps /\ taken \in 0..MaxSteps
  /\ mel \in Seq(Nat) /\ mel_window_start \in Nat /\ debounce \in 0..DEBOUNCE_STEPS
  /\ embeddings \in Seq(Seq(Nat)) /\ misses \in 0..MaxMisses
  /\ awaits \in {"none", "melspectrogram", "embedding", "classifier"}

\* "Awaits each model so the buffers stay consistent" (wake-word.ts:161-162):
\* however frames are pushed around the awaited inferences, what is scored is
\* embeddings of full windows, one EMBEDDING_STEP from each other, of every frame
\* in its order; none is missing unless an inference failed.  The buffers stay within
\* a window or so of what the models take, but for rounds that failed; and "one
\* utterance fires once" (:32).
WakeWordHeard ==
  /\ DetectorTypeOK
  /\ \A i \in DOMAIN embeddings : Len(embeddings[i]) = EMBEDDING_WINDOW
  /\ \A i \in 1..Len(mel) - 1 : mel[i] < mel[i + 1] /\ (misses = 0 => mel[i + 1] = mel[i] + 1)
  /\ \A i \in 1..Len(embeddings) - 1 :
       SubSeq(embeddings[i], EMBEDDING_STEP + 1, EMBEDDING_WINDOW) =
         SubSeq(embeddings[i + 1], 1, EMBEDDING_WINDOW - EMBEDDING_STEP)
  /\ misses = 0 => /\ Len(mel) <= 2 * EMBEDDING_WINDOW + MelFrames + EMBEDDING_STEP
                   /\ Len(embeddings) <= CLASSIFIER_WINDOW + 1
  /\ awaits = "classifier" => spared > DEBOUNCE_STEPS
=============================================================================
