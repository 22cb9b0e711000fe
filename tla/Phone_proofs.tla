----------------------------- MODULE Phone_proofs -----------------------------
(***************************************************************************)
(* Of the resident's app, for any sizes of its parts: the microphone never *)
(* records without an owner; a turn of the thread shown as being worked on *)
(* is somebody's; what the detector scores is whole windows of frames in   *)
(* their order; a dismissed alert stays out of the feed, and one restored  *)
(* comes back; an undone dismissal leaves each reminder one row; a scrape  *)
(* takes its script's steps in their order; and ap-voice hears the frames  *)
(* of a voice stream in the order they were captured.                      *)
(***************************************************************************)
EXTENDS Phone, FiniteSetTheorems, SequenceTheorems, TLAPS

-----------------------------------------------------------------------------
(* Numbers, sets and sequences *)

\* Every set of naturals that is not empty has a least element.
LEMMA Least ==
  ASSUME NEW T \in SUBSET Nat, T # {}
  PROVE  \E n \in T : \A m \in T : n <= m
<1> DEFINE U == {1..n : n \in T}
<1>1. U \subseteq FiniteSubsetsOf(Nat)
  BY FS_Interval DEF FiniteSubsetsOf
<1>2. U # {}
  OBVIOUS
<1>3. IsWellFoundedOn(StrictSubsetOrdering(Nat), FiniteSubsetsOf(Nat))
  BY FS_StrictSubsetOrderingWellFounded
<1> HIDE DEF U
<1>4. PICK u \in U : \A v \in U : ~(<<v, u>> \in StrictSubsetOrdering(Nat))
  BY <1>1, <1>2, <1>3, WFMin, Zenon
<1>5. PICK n \in T : u = 1..n
  BY DEF U
<1>6. ASSUME NEW m \in T, ~(n <= m) PROVE FALSE
  <2>1. m < n /\ n \in Nat /\ m \in Nat /\ n \in 1..n /\ n \notin 1..m
    BY <1>6
  <2>2. 1..m \in SUBSET Nat /\ 1..n \in SUBSET Nat /\ 1..m \subseteq 1..n /\ 1..m # 1..n
    BY <2>1
  <2>3. <<1..m, 1..n>> \in StrictSubsetOrdering(Nat)
    BY <2>2 DEF StrictSubsetOrdering
  <2>4. 1..m \in U
    BY DEF U
  <2> QED BY <1>4, <1>5, <2>3, <2>4
<1> QED BY <1>6

LEMMA Smallest ==
  ASSUME NEW T \in SUBSET Nat, T # {}
  PROVE  Min(T) \in T /\ \A n \in T : Min(T) <= n
BY Least DEF Min

\* A finite set of naturals has a largest element: the one that the fewest are above.
LEMMA Largest ==
  ASSUME NEW T \in SUBSET Nat, T # {}, IsFiniteSet(T)
  PROVE  Max(T) \in T /\ \A n \in T : Max(T) >= n
<1> DEFINE Above(n) == {m \in T : m > n}
           U == {Above(n) : n \in T}
<1>1. U \subseteq FiniteSubsetsOf(Nat)
  BY FS_Subset DEF FiniteSubsetsOf
<1>2. U # {}
  OBVIOUS
<1>3. IsWellFoundedOn(StrictSubsetOrdering(Nat), FiniteSubsetsOf(Nat))
  BY FS_StrictSubsetOrderingWellFounded
<1> HIDE DEF U
<1>4. PICK u \in U : \A v \in U : ~(<<v, u>> \in StrictSubsetOrdering(Nat))
  BY <1>1, <1>2, <1>3, WFMin, Zenon
<1>5. PICK n \in T : u = Above(n)
  BY DEF U
<1>6. ASSUME NEW m \in T, ~(n >= m) PROVE FALSE
  <2>5. m \in Nat /\ n \in Nat /\ m > n /\ \A k \in T : k \in Nat
    BY <1>6
  <2>1. m \in Above(n) /\ m \notin Above(m) /\ Above(m) \subseteq Above(n)
    <3>1. m > n /\ ~(m > m) /\ \A k \in T : k > m => k > n
      BY <2>5
    <3> QED
      BY <3>1
  <2>2. Above(m) \in SUBSET Nat /\ Above(n) \in SUBSET Nat /\ Above(m) # Above(n)
    BY <2>1
  <2>3. Above(m) \in U
    BY DEF U
  <2> HIDE DEF Above
  <2>4. <<Above(m), Above(n)>> \in StrictSubsetOrdering(Nat)
    BY <2>1, <2>2 DEF StrictSubsetOrdering
  <2> QED
    BY <1>4, <1>5, <2>3, <2>4
<1>7. n \in T /\ \A m \in T : n >= m
  BY <1>6
<1> QED
  BY <1>7 DEF Max

LEMMA OfTwo ==
  ASSUME NEW x \in Int, NEW y \in Int
  PROVE  Max({x, y}) \in {x, y} /\ Max({x, y}) >= x /\ Max({x, y}) >= y
         /\ Min({x, y}) \in {x, y} /\ Min({x, y}) <= x /\ Min({x, y}) <= y
<1>1. \E m \in {x, y} : \A n \in {x, y} : m >= n
  <2>1. CASE x >= y
    BY <2>1
  <2>2. CASE y >= x
    BY <2>2
  <2> QED
    BY <2>1, <2>2
<1>2. \E m \in {x, y} : \A n \in {x, y} : m <= n
  <2>1. CASE x >= y
    BY <2>1
  <2>2. CASE y >= x
    BY <2>2
  <2> QED
    BY <2>1, <2>2
<1>3. Max({x, y}) \in {x, y} /\ \A n \in {x, y} : Max({x, y}) >= n
  BY <1>1 DEF Max
<1>4. Min({x, y}) \in {x, y} /\ \A n \in {x, y} : Min({x, y}) <= n
  BY <1>2 DEF Min
<1> QED
  BY <1>3, <1>4

\* A finite set listed as a sequence: nothing else is in it, and nothing is missing.
LEMMA Listing ==
  ASSUME NEW S, IsFiniteSet(S)
  PROVE  /\ SetToSeq(S) \in Seq(S) /\ Len(SetToSeq(S)) = Cardinality(S)
         /\ Cardinality(S) \in Nat
         /\ \A x \in S : \E i \in 1..Len(SetToSeq(S)) : SetToSeq(S)[i] = x
         /\ \A i, j \in 1..Len(SetToSeq(S)) : SetToSeq(S)[i] = SetToSeq(S)[j] => i = j
<1> DEFINE n == Cardinality(S)
<1>1. n \in Nat /\ ExistsBijection(1..n, S)
  BY FS_CardinalityType
<1>2. \E f \in [1..n -> S] : IsInjective(f)
  BY <1>1 DEF ExistsBijection, Bijection, Injection
<1>3. SetToSeq(S) \in [1..n -> S] /\ IsInjective(SetToSeq(S))
  BY <1>2 DEF SetToSeq
<1>4. SetToSeq(S) \in Injection(1..n, S)
  BY <1>3 DEF Injection
<1>5. IsFiniteSet(1..n) /\ Cardinality(1..n) = n
  BY <1>1, FS_Interval
<1>6. SetToSeq(S) \in Surjection(1..n, S)
  BY <1>4, <1>5, FS_Injection
<1>7. SetToSeq(S) \in Seq(S) /\ Len(SetToSeq(S)) = n
  BY <1>1, <1>3
<1>8. \A i, j \in 1..n : SetToSeq(S)[i] = SetToSeq(S)[j] => i = j
  BY <1>3 DEF IsInjective
<1> QED
  BY <1>1, <1>6, <1>7, <1>8 DEF Surjection

\* A sequence without its i-th element.
LEMMA Removal ==
  ASSUME NEW S, NEW s \in Seq(S), NEW i \in 1..Len(s)
  PROVE  /\ RemoveAt(s, i) \in Seq(S) /\ Len(RemoveAt(s, i)) = Len(s) - 1
         /\ \A k \in 1..Len(s) - 1 : RemoveAt(s, i)[k] = IF k < i THEN s[k] ELSE s[k + 1]
<1> DEFINE a == SubSeq(s, 1, i - 1)
           b == SubSeq(s, i + 1, Len(s))
<1>1. a \in Seq(S) /\ Len(a) = i - 1 /\ \A k \in 1..i - 1 : a[k] = s[k]
  BY SubSeqProperties
<1>2. b \in Seq(S) /\ Len(b) = Len(s) - i /\ \A k \in 1..Len(s) - i : b[k] = s[i + k]
  BY SubSeqProperties
<1>3. /\ a \o b \in Seq(S) /\ Len(a \o b) = Len(s) - 1
      /\ \A k \in 1..Len(s) - 1 : (a \o b)[k] = IF k < i THEN s[k] ELSE s[k + 1]
  <2> HIDE DEF a, b
  <2>1. /\ Len(a) + Len(b) = Len(s) - 1 /\ Len(s) - 1 \in Nat /\ i - 1 \in Nat
        /\ \A k \in 1..Len(s) - 1 : k < i => k \in 1..i - 1
        /\ \A k \in 1..Len(s) - 1 : ~(k < i) => k - (i - 1) \in 1..Len(s) - i /\ i + (k - (i - 1)) = k + 1
    BY <1>1, <1>2
  <2>2. /\ a \o b \in Seq(S) /\ Len(a \o b) = Len(s) - 1
        /\ \A k \in 1..Len(s) - 1 : (a \o b)[k] = IF k <= i - 1 THEN a[k] ELSE b[k - (i - 1)]
    BY <1>1, <1>2, <2>1, ConcatProperties
  <2> QED
    BY <1>1, <1>2, <2>1, <2>2
<1> QED
  BY <1>3 DEF RemoveAt

-----------------------------------------------------------------------------
(* The engine *)

\* The call whose promise is kept is the capture that is asked for.
EngineInv == MicIsOwned /\ (promise # "none" => capture)

LEMMA EngineInitInv == EngineInit => EngineInv
BY EngineAssumption DEF EngineInit, EngineIdle, EngineInv, MicIsOwned, EngineTypeOK, Sessions, Nobody

\* What a session's socket may be.
SocketStates == {"none", "connecting", "open", "closing early", "closing", "closed"}

LEMMA ClosingType ==
  ASSUME NEW state \in SocketStates PROVE Closing(state) \in SocketStates
BY DEF Closing, SocketStates

LEMMA NothingOn == ASSUME EngineTypeOK PROVE 0 \in 0..started
<1>1. started \in 0..MaxSessions
  BY DEF EngineTypeOK
<1> QED
  BY <1>1, EngineAssumption

LEMMA StopType ==
  ASSUME EngineTypeOK, stop_voice
  PROVE  /\ voice_ref' \in 0..started' /\ started' \in 0..MaxSessions
         /\ voice_state' \in {"idle", "connecting", "live"} /\ silence_timer' = "none"
         /\ sockets' \in [Sessions -> SocketStates]
<1>1. sockets \in [Sessions -> SocketStates]
  BY DEF EngineTypeOK, SocketStates
<1>2. sockets' \in [Sessions -> SocketStates]
  BY <1>1, ClosingType DEF stop_voice
<1>3. started \in 0..MaxSessions /\ started' = started /\ voice_ref' = 0
  BY DEF EngineTypeOK, stop_voice, Nobody
<1>4. voice_ref' \in 0..started' /\ started' \in 0..MaxSessions
  BY <1>3, EngineAssumption
<1> QED
  BY <1>2, <1>4 DEF stop_voice

LEMMA StartType ==
  ASSUME EngineTypeOK, NEW silence_timeout, start_voice(silence_timeout)
  PROVE  /\ voice_ref' \in 0..started' /\ started' \in 0..MaxSessions
         /\ voice_state' \in {"idle", "connecting", "live"}
         /\ silence_timer' \in {"none", "short", "long"}
         /\ sockets' \in [Sessions -> SocketStates]
<1>0. /\ started \in 0..MaxSessions /\ started < MaxSessions
      /\ started' = started + 1 /\ voice_ref' = started'
  BY DEF EngineTypeOK, start_voice
<1>1. started' \in Sessions /\ started' \in 0..MaxSessions /\ voice_ref' \in 0..started'
  BY <1>0, EngineAssumption DEF Sessions
<1>2. sockets' \in [Sessions -> SocketStates]
  BY <1>1 DEF EngineTypeOK, start_voice, SocketStates
<1> QED
  BY <1>1, <1>2 DEF EngineTypeOK, start_voice

LEMMA EngineNextInv == EngineInv /\ [EngineNext]_engine_vars => EngineInv'
<1> SUFFICES ASSUME EngineInv, [EngineNext]_engine_vars PROVE EngineInv'
  OBVIOUS
<1> USE EngineAssumption DEF EngineInv, MicIsOwned, mic, wake, engine_spent, Nobody
\* Neither sessions nor the wake word touch the microphone.
<1>1. CASE toggle_voice
  BY <1>1, StopType, StartType, ZenonT(40) DEF toggle_voice, EngineTypeOK, SocketStates
<1>2. CASE ToggleWake
  BY <1>2 DEF ToggleWake, EngineTypeOK, voice
<1>3. CASE handle_wake_detected
  BY <1>3, StartType, ZenonT(40) DEF handle_wake_detected, EngineTypeOK, SocketStates, voice
<1>4. CASE DrainEnds
  BY <1>4 DEF DrainEnds, EngineTypeOK, voice
<1>5. ASSUME NEW s \in Sessions, SessionOpens(s) PROVE EngineInv'
  BY <1>5 DEF SessionOpens, Bumped, EngineTypeOK
<1>6. ASSUME NEW s \in Sessions, onmessage(s) PROVE EngineInv'
  BY <1>6 DEF onmessage, Bumped, Held, EngineTypeOK
<1>7. ASSUME NEW s \in Sessions, onerror(s) PROVE EngineInv'
  <2>1. sockets \in [Sessions -> SocketStates]
    BY DEF EngineTypeOK, SocketStates
  <2>2. sockets' \in [Sessions -> SocketStates]
    <3>1. "closed" \in SocketStates
      BY DEF SocketStates
    <3> QED
      BY <1>7, <2>1, <3>1, ClosingType DEF onerror
  <2>3. voice_ref' \in 0..started'
    BY <1>7, NothingOn DEF onerror, EngineTypeOK
  <2> QED
    BY <1>7, <2>2, <2>3 DEF onerror, EngineTypeOK, SocketStates
<1>8. ASSUME NEW s \in Sessions, onclose(s) PROVE EngineInv'
  <2>1. sockets' \in [Sessions -> SocketStates]
    BY <1>8 DEF onclose, EngineTypeOK, SocketStates
  <2>2. voice_ref' \in 0..started'
    BY <1>8, NothingOn DEF onclose, EngineTypeOK
  <2> QED
    BY <1>8, <2>1, <2>2 DEF onclose, EngineTypeOK, SocketStates
<1>9. CASE SilenceElapses
  BY <1>9, StopType DEF SilenceElapses, EngineTypeOK, SocketStates
<1>10. CASE on_output_level
  BY <1>10 DEF on_output_level, Held, EngineTypeOK
<1>11. CASE PlaybackSettles
  BY <1>11 DEF PlaybackSettles, Bumped, EngineTypeOK
<1>12. CASE ModelsLoad
  BY <1>12 DEF ModelsLoad, EngineTypeOK, voice
<1>13. CASE DetectorEffect
  BY <1>13 DEF DetectorEffect, EngineTypeOK, voice
\* The calls of capture, under way or abandoned.
<1>14. CASE start_capture
  BY <1>14 DEF start_capture, EngineTypeOK, voice
<1>15. CASE stop_capture
  BY <1>15 DEF stop_capture, EngineTypeOK, voice
<1>16. CASE CaptureFails
  BY <1>16 DEF CaptureFails, EngineTypeOK, voice
<1>17. CASE CaptureGoesOn
  <2>1. CASE promise = "permission"
    <3>1. promise' = "init" /\ capture' /\ ~recording'
      BY <1>17, <2>1 DEF CaptureGoesOn
    <3>2. EngineTypeOK'
      BY <1>17, <3>1 DEF CaptureGoesOn, EngineTypeOK, voice
    <3> QED
      BY <3>1, <3>2
  <2>2. CASE promise = "init"
    BY <1>17, <2>2 DEF CaptureGoesOn, EngineTypeOK, voice
  <2> QED
    BY <1>17, <2>1, <2>2 DEF CaptureGoesOn
<1>18. CASE AbandonedEnds
  BY <1>18 DEF AbandonedEnds, Resumed, EngineTypeOK, voice
<1>19. CASE UNCHANGED engine_vars
  BY <1>19 DEF engine_vars, EngineTypeOK, voice
<1> QED
  BY <1>1, <1>2, <1>3, <1>4, <1>5, <1>6, <1>7, <1>8, <1>9, <1>10, <1>11, <1>12, <1>13, <1>14,
     <1>15, <1>16, <1>17, <1>18, <1>19
  DEF EngineNext, Effects

\* Whatever the permission prompt and the native engine answer to whichever call,
\* the microphone is on only while the engine asks for capture, and for the call
\* that is not abandoned.
THEOREM MicAlwaysOwned == PhoneSpec => []MicIsOwned
<1>1. PhoneInit => EngineInv
  BY EngineInitInv DEF PhoneInit
<1>2. [PhoneNext]_app_vars => [EngineNext]_engine_vars
  BY DEF PhoneNext, app_vars, engine_vars
<1>3. EngineInv => MicIsOwned
  BY DEF EngineInv
<1> QED
  BY <1>1, <1>2, <1>3, EngineNextInv, PTL DEF PhoneSpec

-----------------------------------------------------------------------------
(* The thread *)

Owners == {voice_turn_ids[r] : r \in Roles}

\* What is worked on is written to by the stream or by transcripts.
HasOwner ==
  /\ ThreadTypeOK
  /\ sending <=> chat_stream # NoTurn
  /\ \A id \in TurnIds :
       turns[id] # NoBubble /\ turns[id].pending =>
         id = chat_stream \/ \E r \in Roles : id = voice_turn_ids[r]

\* What transcripts write to with no session under way came late.
LateOnly ==
  listening # "on" => \A r \in Roles : voice_turn_ids[r] # NoTurn => voice_turn_ids[r] \in late

\* Turns have the ids counted so far.  The open stream writes to a bubble of its
\* own: no voice bubble has failed, so that none is retried.
ThreadInv ==
  /\ HasOwner /\ LateOnly
  /\ turns \in [TurnIds -> Bubbles \cup {NoBubble}]
  /\ \A id \in TurnIds : turns[id] # NoBubble => id <= turn_counter
  /\ stream_state = "open" => chat_stream # NoTurn
  /\ chat_stream # NoTurn => turns[chat_stream] \in Bubbles /\ chat_stream \notin Owners
  /\ \A r \in Roles : voice_turn_ids[r] # NoTurn =>
       turns[voice_turn_ids[r]] \in Bubbles /\ ~turns[voice_turn_ids[r]].error

LEMMA NotBubble == NoBubble \notin Bubbles
BY DEF NoBubble, Bubbles

LEMMA ThreadInitInv == ThreadInit => ThreadInv
<1> SUFFICES ASSUME ThreadInit PROVE ThreadInv
  OBVIOUS
<1>1. turns \in [TurnIds -> Bubbles \cup {NoBubble}] /\ \A id \in TurnIds : turns[id] = NoBubble
  BY DEF ThreadInit
<1>2. \A r \in Roles : voice_turn_ids[r] = NoTurn
  BY DEF ThreadInit
<1>3. voice_turn_ids \in [Roles -> 0..turn_counter] /\ turn_counter \in 0..MaxTurns
  BY ThreadAssumption DEF ThreadInit, NoTurn
<1>4. chat_stream \in 0..turn_counter
  BY DEF ThreadInit, NoTurn
<1>5. ThreadTypeOK
  BY <1>1, <1>3, <1>4 DEF ThreadInit, ThreadTypeOK
<1> QED
  BY <1>1, <1>2, <1>5 DEF ThreadInit, ThreadInv, HasOwner, LateOnly

LEMMA BubbleTypes ==
  ASSUME NEW b \in Bubbles
  PROVE  /\ Working \in Bubbles /\ Finished(b) \in Bubbles /\ Failed(b) \in Bubbles
         /\ ~Finished(b).pending /\ ~Failed(b).pending /\ ~Working.error
         /\ Finished(b).error = b.error
         /\ [b EXCEPT !.pending = TRUE, !.text = TRUE] \in Bubbles
BY NotBubble DEF Bubbles, Working, Finished, Failed

\* A step of the stream only touches its own bubble.
LEMMA StreamWrites ==
  ASSUME ThreadInv, stream_state = "open", NEW b \in Bubbles,
         turns' = [turns EXCEPT ![chat_stream] = b],
         UNCHANGED <<turn_counter, voice_turn_ids, listening, late>>,
         \/ UNCHANGED <<sending, chat_stream, stream_state>>
         \/ /\ sending' = FALSE /\ chat_stream' = NoTurn /\ stream_state' = "closed"
            /\ ~b.pending
  PROVE  ThreadInv'
<1>1. chat_stream \in TurnIds /\ chat_stream \notin Owners /\ chat_stream # NoTurn
  BY ThreadAssumption DEF ThreadInv, HasOwner, ThreadTypeOK, TurnIds, NoTurn
<1>2. /\ turns' \in [TurnIds -> Bubbles \cup {NoBubble}] /\ turns'[chat_stream] = b
      /\ \A id \in TurnIds \ {chat_stream} : turns'[id] = turns[id]
  BY <1>1 DEF ThreadInv
<1>3. \A r \in Roles : voice_turn_ids[r] # NoTurn =>
        voice_turn_ids[r] \in TurnIds \ {chat_stream}
  BY <1>1, ThreadAssumption
  DEF ThreadInv, HasOwner, ThreadTypeOK, TurnIds, NoTurn, Owners
<1>4. ThreadTypeOK'
  <2>1. turn_counter \in 0..MaxTurns
    BY DEF ThreadInv, HasOwner, ThreadTypeOK
  <2>2. NoTurn \in 0..turn_counter
    BY <2>1, ThreadAssumption DEF NoTurn
  <2> QED
    BY <1>2, <2>2 DEF ThreadInv, HasOwner, ThreadTypeOK
<1>5. HasOwner'
  BY <1>1, <1>2, <1>4 DEF ThreadInv, HasOwner
<1>6. \A o \in TurnIds : turns'[o] # NoBubble => o <= turn_counter'
  BY <1>1, <1>2, ThreadAssumption DEF ThreadInv, HasOwner, ThreadTypeOK
<1> QED
  BY <1>1, <1>2, <1>3, <1>5, <1>6 DEF ThreadInv, Owners, LateOnly

\* A query's stream is opened for a bubble that nobody has.
LEMMA StreamOpens ==
  ASSUME ThreadInv, ~sending, NEW id \in TurnIds, id \notin Owners,
         turns' = [turns EXCEPT ![id] = Working], open_stream(id),
         turn_counter' \in 0..MaxTurns, turn_counter <= turn_counter', id <= turn_counter',
         UNCHANGED <<voice_turn_ids, listening, late>>
  PROVE  ThreadInv'
<1>1. /\ turns' \in [TurnIds -> Bubbles \cup {NoBubble}] /\ turns'[id] = Working
      /\ \A o \in TurnIds \ {id} : turns'[o] = turns[o]
      /\ Working \in Bubbles
  BY DEF ThreadInv, Working, Bubbles
<1>2. \A r \in Roles : voice_turn_ids[r] # NoTurn => voice_turn_ids[r] \in TurnIds \ {id}
  BY ThreadAssumption DEF ThreadInv, HasOwner, ThreadTypeOK, TurnIds, NoTurn, Owners
<1>3. voice_turn_ids' \in [Roles -> 0..turn_counter'] /\ id \in 0..turn_counter'
  BY ThreadAssumption DEF ThreadInv, HasOwner, ThreadTypeOK, TurnIds
<1>4. ThreadTypeOK'
  BY <1>1, <1>3 DEF ThreadInv, HasOwner, ThreadTypeOK, open_stream
<1>5. id # NoTurn /\ chat_stream = NoTurn
  BY ThreadAssumption DEF TurnIds, NoTurn, ThreadInv, HasOwner
<1>6. HasOwner'
  <2>1. sending' <=> chat_stream' # NoTurn
    BY <1>5 DEF open_stream
  <2>2. \A o \in TurnIds \ {id} : turns[o] # NoBubble /\ turns[o].pending =>
          \E r \in Roles : o = voice_turn_ids[r]
    BY <1>5 DEF ThreadInv, HasOwner, TurnIds, NoTurn
  <2> QED
    BY <1>1, <1>4, <2>1, <2>2 DEF HasOwner, open_stream
<1>7. \A o \in TurnIds : turns'[o] # NoBubble => o <= turn_counter'
  BY <1>1, ThreadAssumption DEF ThreadInv, HasOwner, ThreadTypeOK, TurnIds
<1> QED
  BY <1>1, <1>2, <1>5, <1>6, <1>7 DEF ThreadInv, Owners, LateOnly, open_stream

\* A transcript goes to the bubble of its role, or to a new one; the answer's to
\* another new one.
LEMMA TranscriptInv ==
  ASSUME ThreadInv, NEW role \in Roles, NEW final \in BOOLEAN, on_transcript(role, final)
  PROVE  ThreadInv'
<1> DEFINE id == Bubble(role)
           used == IF id > turn_counter THEN id ELSE turn_counter
           seeds == role = "user" /\ final /\ voice_turn_ids["assistant"] = NoTurn
           said == [pending |-> ~final, error |-> FALSE, text |-> TRUE]
<1>1. /\ turn_counter \in Nat /\ turn_counter <= MaxTurns
      /\ voice_turn_ids \in [Roles -> 0..turn_counter] /\ chat_stream \in 0..turn_counter
  BY ThreadAssumption DEF ThreadInv, HasOwner, ThreadTypeOK
<1>2. /\ turn_counter' = (IF seeds THEN used + 1 ELSE used) /\ turn_counter' <= MaxTurns
      /\ turns' = (IF seeds THEN [[turns EXCEPT ![id] = said] EXCEPT ![used + 1] = Working]
                   ELSE [turns EXCEPT ![id] = said])
      /\ voice_turn_ids' = [r \in Roles |->
           IF r = role THEN (IF final THEN NoTurn ELSE id)
           ELSE IF seeds THEN used + 1 ELSE voice_turn_ids[r]]
      /\ late' = (IF listening = "on" THEN late
                  ELSE late \cup {id} \cup (IF seeds THEN {used + 1} ELSE {}))
      /\ UNCHANGED <<sending, chat_stream, stream_state, listening>>
  BY DEF on_transcript
<1>3. id \in 1..turn_counter + 1 /\ used \in Nat /\ turn_counter <= used /\ id <= used
  BY <1>1 DEF Bubble, NoTurn
<1>4. id # chat_stream
  BY <1>1, <1>3 DEF Bubble, ThreadInv, Owners, NoTurn
<1>5. /\ turn_counter' \in 0..MaxTurns /\ used <= turn_counter' /\ turn_counter <= turn_counter'
      /\ id \in TurnIds /\ (seeds => used + 1 \in TurnIds /\ used + 1 <= turn_counter')
  BY <1>1, <1>2, <1>3, ThreadAssumption DEF TurnIds
<1>6. said \in Bubbles /\ Working \in Bubbles /\ ~said.error /\ ~Working.error
      /\ (said.pending => ~final)
  BY DEF Bubbles, Working
<1> HIDE DEF id, used, seeds, said
<1>7. /\ turns' \in [TurnIds -> Bubbles \cup {NoBubble}]
      /\ turns'[id] = said /\ (seeds => turns'[used + 1] = Working)
      /\ \A o \in TurnIds : o # id /\ ~(seeds /\ o = used + 1) => turns'[o] = turns[o]
  <2>1. turns \in [TurnIds -> Bubbles \cup {NoBubble}]
    BY DEF ThreadInv
  <2>2. CASE seeds
    <3>1. id # used + 1
      BY <1>3
    <3> QED
      BY <1>2, <1>5, <1>6, <2>1, <2>2, <3>1
  <2>3. CASE ~seeds
    BY <1>2, <1>5, <1>6, <2>1, <2>3
  <2> QED
    BY <2>2, <2>3
<1>8. voice_turn_ids' \in [Roles -> 0..turn_counter'] /\ chat_stream' \in 0..turn_counter'
  BY <1>1, <1>2, <1>3, <1>5 DEF NoTurn
<1>9. ThreadTypeOK'
  <2>1. late' \subseteq TurnIds
    BY <1>2, <1>5 DEF ThreadInv, HasOwner, ThreadTypeOK
  <2> QED
    BY <1>2, <1>5, <1>7, <1>8, <2>1 DEF ThreadInv, HasOwner, ThreadTypeOK
\* Whom a bubble belongs to afterwards.
<1>10. /\ voice_turn_ids'[role] = (IF final THEN NoTurn ELSE id)
       /\ \A r \in Roles \ {role} :
            voice_turn_ids'[r] = (IF seeds THEN used + 1 ELSE voice_turn_ids[r])
  BY <1>2
<1>11. \A o \in TurnIds : turns'[o] # NoBubble /\ turns'[o].pending =>
         o = chat_stream' \/ \E r \in Roles : o = voice_turn_ids'[r]
  <2> SUFFICES ASSUME NEW o \in TurnIds, turns'[o] # NoBubble, turns'[o].pending,
                      o # chat_stream'
               PROVE  \E r \in Roles : o = voice_turn_ids'[r]
    OBVIOUS
  <2>1. CASE o = id
    BY <1>6, <1>7, <1>10, <2>1
  <2>2. CASE seeds /\ o = used + 1
    <3>1. "assistant" \in Roles \ {role}
      BY <2>2 DEF seeds, Roles
    <3> QED
      BY <1>10, <2>2, <3>1
  <2>3. CASE o # id /\ ~(seeds /\ o = used + 1)
    <3>1. turns[o] # NoBubble /\ turns[o].pending /\ o # chat_stream
      BY <1>2, <1>7, <2>3
    <3>2. PICK r \in Roles : o = voice_turn_ids[r]
      BY <3>1 DEF ThreadInv, HasOwner
    <3>3. o # NoTurn
      BY DEF TurnIds, NoTurn
    <3>4. r # role
      BY <2>3, <3>2, <3>3 DEF id, Bubble
    <3>5. ~seeds
      BY <3>2, <3>3, <3>4 DEF seeds, Roles
    <3> QED
      BY <1>10, <3>2, <3>4, <3>5
  <2> QED
    BY <2>1, <2>2, <2>3
<1>12. HasOwner'
  BY <1>2, <1>9, <1>11 DEF ThreadInv, HasOwner
<1>13. chat_stream' # NoTurn =>
         turns'[chat_stream'] \in Bubbles /\ chat_stream' \notin {voice_turn_ids'[r] : r \in Roles}
  <2> SUFFICES ASSUME chat_stream # NoTurn
               PROVE  /\ turns'[chat_stream] \in Bubbles
                      /\ chat_stream \notin {voice_turn_ids'[r] : r \in Roles}
    BY <1>2
  <2>1. chat_stream \in TurnIds /\ chat_stream # used + 1
    BY <1>1, <1>3, ThreadAssumption DEF TurnIds, NoTurn
  <2>2. turns'[chat_stream] \in Bubbles
    BY <1>4, <1>7, <2>1 DEF ThreadInv
  <2>3. \A r \in Roles : chat_stream # voice_turn_ids'[r]
    BY <1>4, <1>10, <2>1 DEF ThreadInv, Owners
  <2> QED
    BY <2>2, <2>3
<1>14. ASSUME NEW r \in Roles, voice_turn_ids'[r] # NoTurn
       PROVE  turns'[voice_turn_ids'[r]] \in Bubbles /\ ~turns'[voice_turn_ids'[r]].error
  <2>1. voice_turn_ids'[r] \in {id} \/ (seeds /\ voice_turn_ids'[r] = used + 1)
        \/ voice_turn_ids'[r] = voice_turn_ids[r]
    BY <1>10, <1>14
  <2>2. voice_turn_ids'[r] \in TurnIds
    BY <1>5, <1>8, <1>14, ThreadAssumption DEF TurnIds, NoTurn
  <2> QED
    BY <1>6, <1>7, <1>14, <2>1, <2>2 DEF ThreadInv
<1>15. \A o \in TurnIds : turns'[o] # NoBubble => o <= turn_counter'
  BY <1>1, <1>3, <1>5, <1>7 DEF ThreadInv, TurnIds
<1>16. LateOnly'
  <2> SUFFICES ASSUME listening # "on", NEW r \in Roles, voice_turn_ids'[r] # NoTurn
               PROVE  voice_turn_ids'[r] \in late'
    BY <1>2 DEF LateOnly
  <2>1. \/ voice_turn_ids'[r] = id \/ (seeds /\ voice_turn_ids'[r] = used + 1)
        \/ voice_turn_ids'[r] = voice_turn_ids[r]
    BY <1>10
  <2> QED
    BY <1>2, <2>1 DEF ThreadInv, LateOnly
<1> QED
  BY <1>2, <1>7, <1>12, <1>13, <1>14, <1>15, <1>16 DEF ThreadInv, Owners

\* When a voice session stops, its bubbles are finished or gone, and nobody's.
LEMMA VoiceStopsInv == ThreadInv /\ VoiceStops => ThreadInv'
<1> SUFFICES ASSUME ThreadInv, VoiceStops PROVE ThreadInv'
  OBVIOUS
<1>1. \A id \in TurnIds : turns'[id] =
        IF id \in Owners THEN (IF turns[id].text THEN Finished(turns[id]) ELSE NoBubble)
        ELSE turns[id]
  BY DEF VoiceStops, Owned, Owners
<1>2. \A id \in TurnIds \cap Owners : turns[id] \in Bubbles
  BY DEF ThreadInv, Owners, TurnIds, NoTurn
<1>3. turns' \in [TurnIds -> Bubbles \cup {NoBubble}]
  BY <1>1, <1>2, BubbleTypes DEF VoiceStops, ThreadInv
<1>4. \A r \in Roles : voice_turn_ids'[r] = NoTurn
  BY DEF VoiceStops
<1>5. ThreadTypeOK'
  <2>1. turn_counter \in 0..MaxTurns
    BY DEF ThreadInv, HasOwner, ThreadTypeOK
  <2>2. NoTurn \in 0..turn_counter
    BY <2>1, ThreadAssumption DEF NoTurn
  <2> QED
    BY <1>3, <2>2 DEF ThreadInv, HasOwner, ThreadTypeOK, VoiceStops
<1>6. \A id \in TurnIds : turns'[id] # NoBubble /\ turns'[id].pending => id = chat_stream
  <2> SUFFICES ASSUME NEW id \in TurnIds, turns'[id] # NoBubble, turns'[id].pending
               PROVE  id = chat_stream
    OBVIOUS
  <2>1. id \notin Owners
    BY <1>1, <1>2, BubbleTypes
  <2> QED
    BY <1>1, <2>1 DEF ThreadInv, HasOwner, Owners
<1>7. HasOwner'
  BY <1>5, <1>6 DEF ThreadInv, HasOwner, VoiceStops
<1>8. chat_stream # NoTurn => turns'[chat_stream] \in Bubbles
  BY <1>1, ThreadAssumption DEF ThreadInv, HasOwner, ThreadTypeOK, TurnIds, NoTurn
<1>9. chat_stream' # NoTurn => chat_stream' \notin {voice_turn_ids'[r] : r \in Roles}
  BY <1>4
<1>10. \A o \in TurnIds : turns'[o] # NoBubble => o <= turn_counter'
  BY <1>1, <1>2, NotBubble DEF ThreadInv, VoiceStops
<1> QED
  BY <1>3, <1>4, <1>7, <1>8, <1>9, <1>10 DEF ThreadInv, Owners, LateOnly, VoiceStops

LEMMA ThreadNextInv == ThreadInv /\ [ThreadNext]_thread_vars => ThreadInv'
<1> SUFFICES ASSUME ThreadInv, [ThreadNext]_thread_vars PROVE ThreadInv'
  OBVIOUS
<1>0. /\ turn_counter \in Nat /\ turn_counter <= MaxTurns
      /\ \A r \in Roles : voice_turn_ids[r] <= turn_counter
  BY ThreadAssumption DEF ThreadInv, HasOwner, ThreadTypeOK
<1>1. CASE submit
  <2>1. PICK id \in TurnIds : id = turn_counter + 1
    BY <1>0, <1>1, ThreadAssumption DEF submit, TurnIds
  <2>2. id \notin Owners
    BY <1>0, <2>1 DEF Owners
  <2>3. turn_counter' \in 0..MaxTurns /\ turn_counter <= turn_counter' /\ id <= turn_counter'
    BY <1>0, <1>1, <2>1, ThreadAssumption DEF submit
  <2>4. /\ ~sending /\ turns' = [turns EXCEPT ![id] = Working] /\ open_stream(id)
        /\ UNCHANGED <<voice_turn_ids, listening, late>>
    BY <1>1, <2>1 DEF submit
  <2> QED
    BY <2>2, <2>3, <2>4, StreamOpens
<1>2. ASSUME NEW id \in TurnIds, retry_turn(id) PROVE ThreadInv'
  <2>1. /\ turns[id] # NoBubble /\ turns[id].error /\ ~sending
        /\ turns' = [turns EXCEPT ![id] = Working] /\ open_stream(id)
        /\ UNCHANGED <<turn_counter, voice_turn_ids, listening, late>>
    BY <1>2 DEF retry_turn, CanRetry
  <2>2. id \notin Owners
    BY <2>1 DEF ThreadInv, Owners, TurnIds, NoTurn
  <2>3. id <= turn_counter
    BY <2>1 DEF ThreadInv
  <2>4. turn_counter' \in 0..MaxTurns /\ turn_counter <= turn_counter' /\ id <= turn_counter'
    BY <1>0, <2>1, <2>3, ThreadAssumption
  <2> QED
    BY <2>1, <2>2, <2>4, StreamOpens
<1>3. CASE on_token
  BY <1>3, StreamWrites, BubbleTypes DEF on_token, Streaming, ThreadInv
<1>4. CASE on_source_failure
  BY <1>4, StreamWrites, BubbleTypes DEF on_source_failure, Streaming, ThreadInv
<1>5. CASE StreamEnds
  <2>1. /\ turns' \in {[turns EXCEPT ![chat_stream] = Finished(@)],
                       [turns EXCEPT ![chat_stream] = Failed(@)]}
        /\ sending' = FALSE /\ chat_stream' = NoTurn /\ stream_state' = "closed"
    BY <1>5 DEF StreamEnds, LastFrames
  <2>2. turns[chat_stream] \in Bubbles
    BY <1>5 DEF StreamEnds, Streaming, ThreadInv
  <2> QED
    BY <1>5, <2>1, <2>2, StreamWrites, BubbleTypes DEF StreamEnds, Streaming
<1>6. CASE StreamIsCut
  BY <1>6 DEF StreamIsCut, Streaming, ThreadInv, HasOwner, ThreadTypeOK, Owners, LateOnly
<1>7. ASSUME NEW role \in Roles, NEW final \in BOOLEAN, on_transcript(role, final) PROVE ThreadInv'
  BY <1>7, TranscriptInv
<1>8. CASE VoiceStarts
  BY <1>8 DEF VoiceStarts, ThreadInv, HasOwner, ThreadTypeOK, Owners, LateOnly
<1>9. CASE VoiceStops
  BY <1>9, VoiceStopsInv
<1>10. CASE UNCHANGED thread_vars
  BY <1>10 DEF thread_vars, ThreadInv, HasOwner, ThreadTypeOK, Owners, LateOnly
<1> QED
  BY <1>1, <1>2, <1>3, <1>4, <1>5, <1>6, <1>7, <1>8, <1>9, <1>10 DEF ThreadNext

\* However typed queries, retries and voice sessions overlap in the thread, what is
\* shown as being worked on is the stream's reply or a bubble of the voice session
\* under way, unless a transcript wrote to it when the session was over
\* (useAssistantEngine.ts:131-299).
THEOREM WorkedOnAlwaysOwned == PhoneSpec => []WorkedOnIsOwned
<1>1. PhoneInit => ThreadInv
  BY ThreadInitInv DEF PhoneInit
<1>2. [PhoneNext]_app_vars => [ThreadNext]_thread_vars
  BY DEF PhoneNext, app_vars, thread_vars
<1>3. ThreadInv => WorkedOnIsOwned
  <2> SUFFICES ASSUME ThreadInv PROVE WorkedOnIsOwned
    OBVIOUS
  <2>1. ASSUME NEW id \in TurnIds, WorkedOn(id), id # chat_stream PROVE InSession(id) \/ id \in late
    <3>1. PICK r \in Roles : id = voice_turn_ids[r]
      BY <2>1 DEF WorkedOn, ThreadInv, HasOwner
    <3>2. id # NoTurn
      BY DEF TurnIds, NoTurn
    <3> QED
      BY <3>1, <3>2 DEF ThreadInv, LateOnly, InSession
  <2> QED
    BY <2>1 DEF ThreadInv, HasOwner, WorkedOnIsOwned
<1> QED
  BY <1>1, <1>2, <1>3, ThreadNextInv, PTL DEF PhoneSpec

-----------------------------------------------------------------------------
(* The wake word *)

\* The number of the first frame that a step adds.
FirstFrame(step) == IF step = 0 THEN 0 ELSE step * MelFrames - TailFrames

\* Frames in order, all of them of the steps taken, and the embeddings of full
\* windows of them, each an EMBEDDING_STEP on; the last is of the window just left.
BuffersSound(frames, start, vectors, next) ==
  /\ frames \in Seq(Nat) /\ start \in 0..Len(frames) /\ vectors \in Seq(Seq(Nat))
  /\ \A i \in 1..Len(frames) : frames[i] < next
  /\ \A i \in 1..Len(frames) - 1 : frames[i] < frames[i + 1]
  /\ \A i \in 1..Len(vectors) : Len(vectors[i]) = EMBEDDING_WINDOW
  /\ \A i \in 1..Len(vectors) - 1 :
       SubSeq(vectors[i], EMBEDDING_STEP + 1, EMBEDDING_WINDOW) =
         SubSeq(vectors[i + 1], 1, EMBEDDING_WINDOW - EMBEDDING_STEP)
  /\ Len(vectors) > 0 =>
       /\ start >= EMBEDDING_STEP /\ start - EMBEDDING_STEP + EMBEDDING_WINDOW <= Len(frames)
       /\ vectors[Len(vectors)] =
            SubSeq(frames, start - EMBEDDING_STEP + 1, start - EMBEDDING_STEP + EMBEDDING_WINDOW)

\* No frame of the steps taken is missing, up to the last of them.
Unbroken(frames, next) == \A i \in 1..Len(frames) : frames[i] + Len(frames) + 1 = next + i

\* What the buffers hold while no inference has failed.
HoldsAtMost(most_frames, most_ahead, most_vectors) ==
  /\ Len(mel) <= most_frames /\ Len(mel) - mel_window_start <= most_ahead
  /\ Len(embeddings) <= most_vectors

\* No more audio waits, or is being read, than the steps that are left.
AudioFits == 2 * taken + raw + (IF awaits = "melspectrogram" THEN 2 ELSE 0) <= 2 * MaxSteps

DetectorInv ==
  /\ raw \in Nat /\ taken \in Nat
  /\ AudioFits
  /\ awaits \in {"none", "melspectrogram", "embedding", "classifier"}
  /\ misses \in 0..MaxMisses /\ debounce \in 0..DEBOUNCE_STEPS /\ spared \in 0..DEBOUNCE_STEPS + 1
  /\ spared + debounce >= DEBOUNCE_STEPS
  /\ awaits = "classifier" => spared > DEBOUNCE_STEPS
  /\ awaits = "embedding" => Len(mel) - mel_window_start >= EMBEDDING_WINDOW
  /\ BuffersSound(mel, mel_window_start, embeddings, FirstFrame(taken))
  /\ misses = 0 =>
       /\ Unbroken(mel, FirstFrame(taken))
       /\ awaits \in {"none", "melspectrogram"} =>
            HoldsAtMost(2 * EMBEDDING_WINDOW - 1, EMBEDDING_WINDOW - 1, CLASSIFIER_WINDOW)
       /\ awaits = "embedding" =>
            HoldsAtMost(2 * EMBEDDING_WINDOW + MelFrames - 1, EMBEDDING_WINDOW + MelFrames - 1, CLASSIFIER_WINDOW)
       /\ awaits = "classifier" =>
            HoldsAtMost(2 * EMBEDDING_WINDOW + MelFrames - 1, EMBEDDING_WINDOW - 1, CLASSIFIER_WINDOW + 1)

LEMMA Sizes ==
  /\ EMBEDDING_WINDOW \in Nat /\ EMBEDDING_STEP \in Nat /\ MelFrames \in Nat /\ CLASSIFIER_WINDOW \in Nat
  /\ EMBEDDING_WINDOW > 0 /\ EMBEDDING_STEP > 0 /\ MelFrames > 0 /\ CLASSIFIER_WINDOW > 0
  /\ MelFrames <= EMBEDDING_STEP /\ EMBEDDING_STEP <= EMBEDDING_WINDOW
  /\ TailFrames \in 0..MelFrames
  /\ DEBOUNCE_STEPS \in Nat /\ MaxSteps \in Nat /\ MaxMisses \in Nat
BY WakeWordAssumption

\* What a step adds follows what the steps before it added.
LEMMA FramesFollow ==
  ASSUME NEW step \in Nat
  PROVE  /\ FramesOf(step) \in Seq(Nat) /\ FirstFrame(step) \in Nat
         /\ Len(FramesOf(step)) <= MelFrames
         /\ FirstFrame(step + 1) = FirstFrame(step) + Len(FramesOf(step))
         /\ \A i \in 1..Len(FramesOf(step)) : FramesOf(step)[i] + 1 = FirstFrame(step) + i
<1> USE Sizes
<1>1. CASE step = 0
  <2>1. FirstFrame(0) = 0 /\ FirstFrame(step + 1) = MelFrames - TailFrames
    BY <1>1 DEF FirstFrame
  <2>2. /\ FramesOf(step) = [i \in 1..MelFrames - TailFrames |-> i - 1]
        /\ MelFrames - TailFrames \in Nat
    BY <1>1 DEF FramesOf
  <2>3. FramesOf(step) \in Seq(Nat) /\ Len(FramesOf(step)) = MelFrames - TailFrames
    BY <2>2
  <2> QED
    BY <1>1, <2>1, <2>2, <2>3
<1>2. CASE step # 0
  <2> DEFINE m == step * MelFrames
  <2>1. PICK k \in Nat : step = k + 1
    BY <1>2
  <2>2. k * MelFrames \in Nat /\ m = k * MelFrames + MelFrames /\ (step + 1) * MelFrames = m + MelFrames
    BY <2>1
  <2>3. m \in Nat /\ m - TailFrames \in Nat
    BY <2>2
  <2>4. FirstFrame(step) = m - TailFrames /\ FirstFrame(step + 1) = m + MelFrames - TailFrames
    BY <1>2, <2>2 DEF FirstFrame
  <2>5. FramesOf(step) = [i \in 1..MelFrames |-> m - TailFrames + i - 1]
    BY <1>2 DEF FramesOf
  <2> HIDE DEF m
  <2>6. FramesOf(step) \in Seq(Nat) /\ Len(FramesOf(step)) = MelFrames
    BY <2>3, <2>5
  <2> QED
    BY <2>3, <2>4, <2>5, <2>6
<1> QED
  BY <1>1, <1>2

\* More frames leave the windows that were read as they are.
LEMMA FramesAdded ==
  ASSUME NEW frames, NEW start, NEW vectors, NEW step \in Nat,
         BuffersSound(frames, start, vectors, FirstFrame(step))
  PROVE  /\ BuffersSound(frames \o FramesOf(step), start, vectors, FirstFrame(step + 1))
         /\ Unbroken(frames, FirstFrame(step)) =>
              Unbroken(frames \o FramesOf(step), FirstFrame(step + 1))
<1> DEFINE g == FramesOf(step)
           lowest == FirstFrame(step)
           next == FirstFrame(step + 1)
<1>1. g \in Seq(Nat) /\ lowest \in Nat /\ next = lowest + Len(g)
  BY FramesFollow
<1>0. \A i \in 1..Len(g) : g[i] + 1 = lowest + i
  BY FramesFollow
<1>11. Len(g) \in Nat
  BY <1>1
<1>2. /\ frames \in Seq(Nat) /\ start \in 0..Len(frames) /\ vectors \in Seq(Seq(Nat))
      /\ \A i \in 1..Len(frames) : frames[i] < lowest
      /\ \A i \in 1..Len(frames) - 1 : frames[i] < frames[i + 1]
  BY DEF BuffersSound
<1> HIDE DEF g, lowest, next
<1>3. /\ frames \o g \in Seq(Nat) /\ Len(frames \o g) = Len(frames) + Len(g)
      /\ \A i \in 1..Len(frames) + Len(g) :
           (frames \o g)[i] = IF i <= Len(frames) THEN frames[i] ELSE g[i - Len(frames)]
  BY <1>1, <1>2, ConcatProperties
<1>4. Len(frames) \in Nat /\ \A i \in 1..Len(frames) : frames[i] \in Nat
  BY <1>2
<1>5. \A i \in 1..Len(g) : g[i] \in Nat
  BY <1>1
<1>6. \A i \in 1..Len(frames \o g) : (frames \o g)[i] < next
  <2> SUFFICES ASSUME NEW i \in 1..Len(frames) + Len(g) PROVE (frames \o g)[i] < next
    BY <1>3
  <2>1. CASE i <= Len(frames)
    <3>1. i \in 1..Len(frames) /\ (frames \o g)[i] = frames[i]
      BY <1>3, <1>4, <1>11, <2>1
    <3>2. frames[i] < lowest /\ frames[i] \in Nat
      BY <1>2, <1>4, <3>1
    <3> QED
      BY <1>1, <1>11, <3>1, <3>2
  <2>2. CASE ~(i <= Len(frames))
    <3> DEFINE k == i - Len(frames)
    <3>1. k \in 1..Len(g) /\ (frames \o g)[i] = g[k]
      BY <1>3, <1>4, <1>11, <2>2
    <3> HIDE DEF k
    <3>2. g[k] + 1 = lowest + k /\ g[k] \in Nat
      BY <1>0, <1>5, <3>1
    <3> QED
      BY <1>1, <1>11, <3>1, <3>2
  <2> QED
    BY <2>1, <2>2
<1>7. \A i \in 1..Len(frames \o g) - 1 : (frames \o g)[i] < (frames \o g)[i + 1]
  <2> SUFFICES ASSUME NEW i \in 1..Len(frames) + Len(g) - 1
               PROVE (frames \o g)[i] < (frames \o g)[i + 1]
    BY <1>3
  <2>1. i \in 1..Len(frames) + Len(g) /\ i + 1 \in 1..Len(frames) + Len(g)
    BY <1>11, <1>4
  <2>2. CASE i < Len(frames)
    BY <1>2, <1>3, <1>4, <2>1, <2>2
  <2>3. CASE i = Len(frames)
    <3>1. 1 \in 1..Len(g) /\ (i + 1) - Len(frames) = 1 /\ i \in 1..Len(frames) /\ ~(i + 1 <= Len(frames))
      BY <1>11, <1>4, <2>1, <2>3
    <3>2. frames[i] < lowest /\ g[1] + 1 = lowest + 1 /\ g[1] \in Nat /\ frames[i] \in Nat
      BY <1>0, <1>1, <1>2, <1>4, <1>5, <3>1
    <3>3. (frames \o g)[i] = frames[i] /\ (frames \o g)[i + 1] = g[1]
      BY <1>3, <2>1, <2>3, <3>1, <1>4
    <3>4. \A x, y \in Nat : x < lowest /\ y + 1 = lowest + 1 => x < y
      BY <1>1
    <3> QED
      BY <3>2, <3>3, <3>4
  <2>4. CASE i > Len(frames)
    <3> DEFINE k == i - Len(frames)
    <3>1. k \in 1..Len(g) /\ k + 1 \in 1..Len(g) /\ (i + 1) - Len(frames) = k + 1
      BY <1>11, <1>4, <2>1, <2>4
    <3>2. (frames \o g)[i] = g[k] /\ (frames \o g)[i + 1] = g[k + 1]
      BY <1>3, <1>4, <2>1, <2>4, <3>1
    <3> HIDE DEF k
    <3>3. g[k] + 1 = lowest + k /\ g[k + 1] + 1 = lowest + (k + 1) /\ g[k] \in Nat /\ g[k + 1] \in Nat
      BY <1>0, <1>5, <3>1
    <3>4. k \in Nat /\ \A x, y \in Nat : x + 1 = lowest + k /\ y + 1 = lowest + (k + 1) => x < y
      BY <1>1, <3>1
    <3> QED
      BY <3>2, <3>3, <3>4
  <2> QED
    BY <1>4, <2>2, <2>3, <2>4
<1>8. ASSUME Len(vectors) > 0
      PROVE  SubSeq(frames \o g, start - EMBEDDING_STEP + 1, start - EMBEDDING_STEP + EMBEDDING_WINDOW) =
             SubSeq(frames, start - EMBEDDING_STEP + 1, start - EMBEDDING_STEP + EMBEDDING_WINDOW)
  <2>1. start >= EMBEDDING_STEP /\ start - EMBEDDING_STEP + EMBEDDING_WINDOW <= Len(frames)
    BY <1>8 DEF BuffersSound
  <2>2. /\ start - EMBEDDING_STEP + 1 \in 1..Len(frames)
        /\ start - EMBEDDING_STEP + EMBEDDING_WINDOW \in 1..Len(frames)
    BY <1>2, <1>4, <2>1, Sizes
  <2> QED
    BY <1>1, <1>2, <2>2, SubSeqOfConcat1
<1>12. start \in 0..Len(frames \o g)
  BY <1>2, <1>3, <1>4, <1>11
<1>13. Len(vectors) > 0 =>
         /\ start >= EMBEDDING_STEP /\ start - EMBEDDING_STEP + EMBEDDING_WINDOW <= Len(frames \o g)
         /\ vectors[Len(vectors)] = SubSeq(frames \o g, start - EMBEDDING_STEP + 1,
                                           start - EMBEDDING_STEP + EMBEDDING_WINDOW)
  <2> SUFFICES ASSUME Len(vectors) > 0
               PROVE  start >= EMBEDDING_STEP /\ start - EMBEDDING_STEP + EMBEDDING_WINDOW <= Len(frames \o g)
    BY <1>8 DEF BuffersSound
  <2>1. start >= EMBEDDING_STEP /\ start - EMBEDDING_STEP + EMBEDDING_WINDOW <= Len(frames)
    BY DEF BuffersSound
  <2> QED
    BY <1>2, <1>3, <1>4, <1>11, <2>1, Sizes
<1>9. BuffersSound(frames \o g, start, vectors, next)
  BY <1>2, <1>3, <1>6, <1>7, <1>12, <1>13 DEF BuffersSound
<1>10. ASSUME Unbroken(frames, lowest) PROVE Unbroken(frames \o g, next)
  <2> SUFFICES ASSUME NEW i \in 1..Len(frames) + Len(g)
               PROVE (frames \o g)[i] + (Len(frames) + Len(g)) + 1 = next + i
    BY <1>3 DEF Unbroken
  <2>1. CASE i <= Len(frames)
    <3>1. i \in 1..Len(frames) /\ (frames \o g)[i] = frames[i]
      BY <1>3, <1>4, <1>11, <2>1
    <3>2. frames[i] + Len(frames) + 1 = lowest + i /\ frames[i] \in Nat
      BY <1>4, <1>10, <3>1 DEF Unbroken
    <3>3. \A x \in Nat : x + Len(frames) + 1 = lowest + i => x + (Len(frames) + Len(g)) + 1 = lowest + Len(g) + i
      BY <1>1, <1>4, <1>11, <3>1, SMTT(30)
    <3> QED
      BY <1>1, <3>1, <3>2, <3>3
  <2>2. CASE ~(i <= Len(frames))
    <3> DEFINE k == i - Len(frames)
    <3>1. k \in 1..Len(g) /\ (frames \o g)[i] = g[k] /\ i = k + Len(frames)
      BY <1>3, <1>4, <1>11, <2>2
    <3> HIDE DEF k
    <3>2. g[k] + 1 = lowest + k /\ g[k] \in Nat
      BY <1>0, <1>5, <3>1
    <3>4. lowest \in Nat /\ Len(frames) \in Nat /\ Len(g) \in Nat /\ k \in Nat
      BY <1>1, <1>4, <1>11, <3>1
    <3>3. \A x \in Nat : x + 1 = lowest + k =>
            x + (Len(frames) + Len(g)) + 1 = lowest + Len(g) + (k + Len(frames))
      BY <3>4
    <3> QED
      BY <1>1, <3>1, <3>2, <3>3
  <2> QED
    BY <2>1, <2>2
<1> QED
  BY <1>9, <1>10 DEF g, lowest, next

LEMMA WindowOfWindow ==
  ASSUME NEW s \in Seq(Nat), NEW i \in 1..Len(s), NEW j \in 1..Len(s),
         NEW m \in 1..j - i + 1, NEW n \in 1..j - i + 1
  PROVE  SubSeq(SubSeq(s, i, j), m, n) = SubSeq(s, i + m - 1, i + n - 1)
BY SubSeqOfSubSeq

\* The window that was read is the last of the embeddings, and overlaps the one before.
LEMMA WindowRead ==
  ASSUME NEW frames, NEW start, NEW vectors, NEW next,
         BuffersSound(frames, start, vectors, next), Len(frames) - start >= EMBEDDING_WINDOW
  PROVE  BuffersSound(frames, start + EMBEDDING_STEP,
           Append(vectors, SubSeq(frames, start + 1, start + EMBEDDING_WINDOW)), next)
<1> DEFINE w == SubSeq(frames, start + 1, start + EMBEDDING_WINDOW)
           all == Append(vectors, w)
           W == EMBEDDING_WINDOW
           S == EMBEDDING_STEP
<1>1. W \in Nat \ {0} /\ S \in Nat \ {0} /\ S <= W
  BY Sizes
<1>2. /\ frames \in Seq(Nat) /\ start \in 0..Len(frames) /\ vectors \in Seq(Seq(Nat)) /\ start \in Nat
      /\ Len(frames) \in Nat /\ Len(vectors) \in Nat
  BY DEF BuffersSound
<1>3. w \in Seq(Nat) /\ Len(w) = W
  <2>1. \A i \in start + 1..start + W : i \in 1..Len(frames)
    BY <1>1, <1>2
  <2>2. \A i \in start + 1..start + W : frames[i] \in Nat
    BY <1>2, <2>1
  <2>3. start + 1 \in Int /\ start + W \in Int /\ start + 1 <= start + W /\ (start + W) - (start + 1) + 1 = W
    BY <1>1, <1>2
  <2> QED
    BY <2>2, <2>3, SubSeqProperties
<1> HIDE DEF w
<1>4. /\ all \in Seq(Seq(Nat)) /\ Len(all) = Len(vectors) + 1 /\ all[Len(all)] = w
      /\ \A i \in 1..Len(vectors) : all[i] = vectors[i]
  BY <1>2, <1>3
<1> HIDE DEF all
<1>5. \A i \in 1..Len(all) : Len(all[i]) = W
  <2> SUFFICES ASSUME NEW i \in 1..Len(vectors) + 1 PROVE Len(all[i]) = W
    BY <1>4
  <2>1. CASE i \in 1..Len(vectors)
    BY <1>4, <2>1 DEF BuffersSound
  <2>2. CASE i = Len(vectors) + 1
    BY <1>3, <1>4, <2>2
  <2> QED
    BY <1>2, <2>1, <2>2
<1>6. ASSUME Len(vectors) > 0
      PROVE  SubSeq(vectors[Len(vectors)], S + 1, W) = SubSeq(w, 1, W - S)
  <2>1. /\ start >= S /\ start - S + W <= Len(frames)
        /\ vectors[Len(vectors)] = SubSeq(frames, start - S + 1, start - S + W)
    BY <1>6 DEF BuffersSound
  <2>2. CASE S = W
    BY <1>1, <2>2, SubSeqEmpty
  <2>3. CASE S < W
    <3>1. /\ start - S + 1 \in 1..Len(frames) /\ start - S + W \in 1..Len(frames)
          /\ S + 1 \in 1..(start - S + W) - (start - S + 1) + 1
          /\ W \in 1..(start - S + W) - (start - S + 1) + 1
          /\ (start - S + 1) + (S + 1) - 1 = start + 1
          /\ (start - S + 1) + W - 1 = start - S + W
      BY <1>1, <1>2, <2>1, <2>3
    <3>2. SubSeq(vectors[Len(vectors)], S + 1, W) = SubSeq(frames, start + 1, start - S + W)
      <4> DEFINE i == start - S + 1
                 j == start - S + W
                 m == S + 1
      <4> HIDE DEF i, j, m
      <4>1. SubSeq(SubSeq(frames, i, j), m, W) = SubSeq(frames, i + m - 1, i + W - 1)
        BY <1>2, <3>1, WindowOfWindow DEF i, j, m
      <4> QED
        BY <2>1, <3>1, <4>1, Zenon DEF i, j, m
    <3>3. /\ start + 1 \in 1..Len(frames) /\ start + W \in 1..Len(frames)
          /\ 1 \in 1..(start + W) - (start + 1) + 1 /\ W - S \in 1..(start + W) - (start + 1) + 1
          /\ (start + 1) + 1 - 1 = start + 1
          /\ (start + 1) + (W - S) - 1 = start - S + W
      BY <1>1, <1>2, <2>1, <2>3
    <3>4. SubSeq(w, 1, W - S) = SubSeq(frames, start + 1, start - S + W)
      <4> DEFINE i == start + 1
                 j == start + W
                 n == W - S
      <4> HIDE DEF i, j, n
      <4>1. SubSeq(SubSeq(frames, i, j), 1, n) = SubSeq(frames, i + 1 - 1, i + n - 1)
        BY <1>2, <3>3, WindowOfWindow DEF i, j, n
      <4> QED
        BY <3>3, <4>1, Zenon DEF i, j, n, w
    <3> QED
      BY <3>2, <3>4
  <2> QED
    BY <1>1, <2>2, <2>3
<1>7. \A i \in 1..Len(all) - 1 : SubSeq(all[i], S + 1, W) = SubSeq(all[i + 1], 1, W - S)
  <2> SUFFICES ASSUME NEW i \in 1..Len(vectors)
               PROVE  SubSeq(all[i], S + 1, W) = SubSeq(all[i + 1], 1, W - S)
    <3>1. Len(all) - 1 = Len(vectors)
      BY <1>2, <1>4
    <3> QED
      BY <3>1
  <2>1. CASE i = Len(vectors)
    <3>1. all[i] = vectors[Len(vectors)] /\ all[i + 1] = w /\ Len(vectors) > 0
      BY <1>2, <1>4, <2>1
    <3> QED
      BY <1>6, <3>1
  <2>2. CASE i # Len(vectors)
    <3>1. i \in 1..Len(vectors) - 1 /\ i + 1 \in 1..Len(vectors)
      BY <1>2, <2>2
    <3> QED
      BY <1>4, <3>1 DEF BuffersSound
  <2> QED
    BY <2>1, <2>2
<1>8. /\ start + S \in 0..Len(frames) /\ start + S >= S /\ (start + S) - S = start
      /\ start + W <= Len(frames)
  BY <1>1, <1>2
<1>9. Len(all) > 0 => all[Len(all)] = SubSeq(frames, (start + S) - S + 1, (start + S) - S + W)
  BY <1>4, <1>8 DEF w
<1> QED
  BY <1>2, <1>4, <1>5, <1>7, <1>8, <1>9 DEF BuffersSound, all, w

\* Dropping what lies a window or more behind leaves the last window and the rest.
LEMMA FramesDropped ==
  ASSUME NEW frames, NEW start, NEW vectors, NEW next,
         BuffersSound(frames, start, vectors, next), start > EMBEDDING_WINDOW
  PROVE  LET kept == SubSeq(frames, start - EMBEDDING_WINDOW + 1, Len(frames))
         IN  /\ BuffersSound(kept, EMBEDDING_WINDOW, vectors, next)
             /\ Len(kept) = Len(frames) - (start - EMBEDDING_WINDOW)
             /\ next \in Nat /\ Unbroken(frames, next) => Unbroken(kept, next)
<1> DEFINE W == EMBEDDING_WINDOW
           S == EMBEDDING_STEP
           k == start - W
           kept == SubSeq(frames, k + 1, Len(frames))
<1>1. W \in Nat \ {0} /\ S \in Nat \ {0} /\ S <= W
  BY Sizes
<1>2. /\ frames \in Seq(Nat) /\ start \in 0..Len(frames) /\ vectors \in Seq(Seq(Nat)) /\ start \in Nat
      /\ Len(frames) \in Nat /\ Len(vectors) \in Nat
  BY DEF BuffersSound
<1>3. k \in Nat \ {0} /\ k + W = start /\ k + W <= Len(frames)
  BY <1>1, <1>2
<1>4. /\ kept \in Seq(Nat) /\ Len(kept) = Len(frames) - k
      /\ \A i \in 1..Len(frames) - k : kept[i] = frames[i + k]
  <2>1. \A i \in k + 1..Len(frames) : frames[i] \in Nat
    BY <1>2, <1>3
  <2>2. /\ k + 1 \in Int /\ Len(frames) \in Int /\ k + 1 <= Len(frames)
        /\ Len(frames) - (k + 1) + 1 = Len(frames) - k
    BY <1>1, <1>2, <1>3
  <2> HIDE DEF k
  <2>3. /\ kept \in Seq(Nat) /\ Len(kept) = Len(frames) - k
        /\ \A i \in 1..Len(frames) - k : kept[i] = frames[(k + 1) + i - 1]
    BY <2>1, <2>2, SubSeqProperties
  <2>4. \A i \in 1..Len(frames) - k : (k + 1) + i - 1 = i + k
    BY <1>3
  <2> QED
    BY <2>3, <2>4
<1> HIDE DEF k, kept
<1>5. \A i \in 1..Len(kept) : i + k \in 1..Len(frames) /\ kept[i] = frames[i + k]
  BY <1>2, <1>3, <1>4, SMTT(20)
<1>6. \A i \in 1..Len(kept) : kept[i] < next
  BY <1>5 DEF BuffersSound
<1>7. \A i \in 1..Len(kept) - 1 : kept[i] < kept[i + 1]
  <2> SUFFICES ASSUME NEW i \in 1..Len(kept) - 1 PROVE kept[i] < kept[i + 1]
    OBVIOUS
  <2>1. /\ i \in 1..Len(kept) /\ i + 1 \in 1..Len(kept) /\ (i + 1) + k = (i + k) + 1
        /\ i + k \in 1..Len(frames) - 1
    BY <1>2, <1>3, <1>4
  <2>2. frames[i + k] < frames[(i + k) + 1]
    BY <2>1 DEF BuffersSound
  <2> QED
    BY <1>5, <2>1, <2>2
<1>8. ASSUME Len(vectors) > 0
      PROVE  /\ W - S + W <= Len(kept)
             /\ vectors[Len(vectors)] = SubSeq(kept, W - S + 1, W - S + W)
  <2>1. /\ start - S + W <= Len(frames)
        /\ vectors[Len(vectors)] = SubSeq(frames, start - S + 1, start - S + W)
    BY <1>8 DEF BuffersSound
  <2>2. W - S + W <= Len(kept)
    BY <1>1, <1>2, <1>3, <1>4, <2>1, SMTT(30)
  <2> DEFINE m == W - S + 1
             n == W - S + W
             i == k + 1
             j == Len(frames)
  <2>3. /\ i \in 1..Len(frames) /\ j \in 1..Len(frames) /\ m \in 1..j - i + 1 /\ n \in 1..j - i + 1
        /\ i + m - 1 = start - S + 1 /\ i + n - 1 = start - S + W
    BY <1>1, <1>2, <1>3, <1>4, <2>2, SMTT(30)
  <2> HIDE DEF m, n, i, j
  <2>4. SubSeq(SubSeq(frames, i, j), m, n) = SubSeq(frames, i + m - 1, i + n - 1)
    BY <1>2, <2>3, WindowOfWindow
  <2>5. SubSeq(kept, m, n) = SubSeq(frames, start - S + 1, start - S + W)
    BY <2>3, <2>4, Zenon DEF kept, i, j
  <2> QED
    BY <2>1, <2>2, <2>5 DEF m, n
<1>9. W \in 0..Len(kept) /\ W >= S
  BY <1>1, <1>2, <1>3, <1>4
<1>10. BuffersSound(kept, W, vectors, next)
  BY <1>2, <1>4, <1>6, <1>7, <1>8, <1>9 DEF BuffersSound
<1>11. ASSUME next \in Nat, Unbroken(frames, next) PROVE Unbroken(kept, next)
  <2> SUFFICES ASSUME NEW i \in 1..Len(kept) PROVE kept[i] + Len(kept) + 1 = next + i
    BY DEF Unbroken
  <2>1. frames[i + k] + Len(frames) + 1 = next + (i + k) /\ frames[i + k] \in Nat
    BY <1>2, <1>5, <1>11, SMTT(30) DEF Unbroken
  <2>2. \A x \in Nat : x + Len(frames) + 1 = next + (i + k) => x + (Len(frames) - k) + 1 = next + i
    BY <1>2, <1>3, <1>11
  <2> QED
    BY <1>4, <1>5, <2>1, <2>2
<1> QED
  BY <1>4, <1>10, <1>11 DEF kept, k

\* The embeddings that no score will be of are dropped from the front.
LEMMA EmbeddingsDropped ==
  ASSUME NEW frames, NEW start, NEW vectors, NEW next,
         BuffersSound(frames, start, vectors, next), Len(vectors) > CLASSIFIER_WINDOW
  PROVE  LET kept == SubSeq(vectors, Len(vectors) - CLASSIFIER_WINDOW + 1, Len(vectors))
         IN  BuffersSound(frames, start, kept, next) /\ Len(kept) = CLASSIFIER_WINDOW
<1> DEFINE C == CLASSIFIER_WINDOW
           k == Len(vectors) - C
           kept == SubSeq(vectors, k + 1, Len(vectors))
<1>1. C \in Nat \ {0}
  BY Sizes
<1>2. vectors \in Seq(Seq(Nat)) /\ Len(vectors) \in Nat
  BY DEF BuffersSound
<1>3. k \in Nat \ {0} /\ k + C = Len(vectors)
  BY <1>1, <1>2
<1>4. /\ kept \in Seq(Seq(Nat)) /\ Len(kept) = C
      /\ \A i \in 1..C : kept[i] = vectors[i + k]
  <2>1. \A i \in k + 1..Len(vectors) : vectors[i] \in Seq(Nat)
    BY <1>2, <1>3
  <2>2. /\ k + 1 \in Int /\ Len(vectors) \in Int /\ k + 1 <= Len(vectors)
        /\ Len(vectors) - (k + 1) + 1 = C
    <3> HIDE DEF k
    <3> QED
      BY <1>1, <1>2, <1>3
  <2> HIDE DEF k
  <2>3. /\ kept \in Seq(Seq(Nat)) /\ Len(kept) = C
        /\ \A i \in 1..C : kept[i] = vectors[(k + 1) + i - 1]
    BY <2>1, <2>2, SubSeqProperties
  <2>4. \A i \in 1..C : (k + 1) + i - 1 = i + k
    BY <1>1, <1>3
  <2> QED
    BY <2>3, <2>4
<1> HIDE DEF k, kept
<1>5. \A i \in 1..C : i + k \in 1..Len(vectors) /\ kept[i] = vectors[i + k]
  BY <1>1, <1>2, <1>3, <1>4
<1>6. \A i \in 1..Len(kept) : Len(kept[i]) = EMBEDDING_WINDOW
  BY <1>4, <1>5 DEF BuffersSound
<1>7. ASSUME NEW i \in 1..Len(kept) - 1
      PROVE  SubSeq(kept[i], EMBEDDING_STEP + 1, EMBEDDING_WINDOW) =
               SubSeq(kept[i + 1], 1, EMBEDDING_WINDOW - EMBEDDING_STEP)
  <2>1. /\ i \in 1..C /\ i + 1 \in 1..C /\ (i + 1) + k = (i + k) + 1 /\ i + k \in 1..Len(vectors) - 1
    BY <1>1, <1>2, <1>3, <1>4
  <2>2. SubSeq(vectors[i + k], EMBEDDING_STEP + 1, EMBEDDING_WINDOW) =
          SubSeq(vectors[(i + k) + 1], 1, EMBEDDING_WINDOW - EMBEDDING_STEP)
    BY <2>1 DEF BuffersSound
  <2>3. kept[i] = vectors[i + k] /\ kept[i + 1] = vectors[(i + k) + 1]
    BY <1>5, <2>1
  <2> QED
    BY <2>2, <2>3, Zenon
<1>8. kept[Len(kept)] = vectors[Len(vectors)] /\ Len(vectors) > 0
  <2>1. C \in 1..C /\ C + k = Len(vectors) /\ Len(vectors) > 0
    BY <1>1, <1>2, <1>3
  <2> QED
    BY <1>4, <1>5, <2>1
<1>9. BuffersSound(frames, start, kept, next)
  BY <1>4, <1>6, <1>7, <1>8 DEF BuffersSound
<1> QED
  BY <1>4, <1>9 DEF kept, k

\* The buffers after a round of the inner loop, or after its last.
LEMMA BuffersContinue ==
  ASSUME NEW frames, NEW start, NEW vectors, NEW next \in Nat, NEW steps \in Nat,
         BuffersSound(frames, start, vectors, next), Continue(frames, start, vectors),
         raw \in Nat, 2 * steps + raw <= 2 * MaxSteps, taken' = steps
  PROVE  /\ raw' \in Nat /\ AudioFits'
         /\ awaits' \in {"none", "melspectrogram", "embedding"}
         /\ BuffersSound(mel', mel_window_start', embeddings', next)
         /\ Unbroken(frames, next) => Unbroken(mel', next)
         /\ awaits' = "embedding" =>
              /\ Len(frames) - start >= EMBEDDING_WINDOW
              /\ mel' = frames /\ mel_window_start' = start /\ embeddings' = vectors
         /\ awaits' # "embedding" =>
              /\ Len(mel') - mel_window_start' < EMBEDDING_WINDOW
              /\ mel_window_start' <= EMBEDDING_WINDOW /\ Len(embeddings') <= CLASSIFIER_WINDOW
<1> DEFINE W == EMBEDDING_WINDOW
<1>1. W \in Nat /\ CLASSIFIER_WINDOW \in Nat /\ MaxSteps \in Nat
  BY Sizes
<1>2. start \in Nat /\ Len(frames) \in Nat /\ Len(vectors) \in Nat
  BY DEF BuffersSound
<1>3. CASE Len(frames) - start >= W
  <2>1. /\ awaits' = "embedding" /\ mel' = frames /\ mel_window_start' = start
        /\ embeddings' = vectors /\ raw' = raw
    BY <1>3 DEF Continue
  <2>2. AudioFits'
    BY <2>1, <1>1 DEF AudioFits
  <2> QED
    BY <1>3, <2>1, <2>2
<1>4. CASE ~(Len(frames) - start >= W)
  <2>1. /\ Trimmed(frames, start) /\ TakeStep(raw)
        /\ embeddings' = IF Len(vectors) > CLASSIFIER_WINDOW
             THEN SubSeq(vectors, Len(vectors) - CLASSIFIER_WINDOW + 1, Len(vectors)) ELSE vectors
    BY <1>4 DEF Continue
  <2>2. /\ BuffersSound(mel', mel_window_start', vectors, next)
        /\ Unbroken(frames, next) => Unbroken(mel', next)
        /\ Len(mel') - mel_window_start' < W /\ mel_window_start' <= W
    <3>1. CASE start > W
      <4>1. mel' = SubSeq(frames, start - W + 1, Len(frames)) /\ mel_window_start' = W
        BY <2>1, <3>1 DEF Trimmed
      <4>2. /\ BuffersSound(mel', W, vectors, next) /\ Len(mel') = Len(frames) - (start - W)
            /\ Unbroken(frames, next) => Unbroken(mel', next)
        BY <3>1, <4>1, FramesDropped
      <4> QED
        BY <1>1, <1>2, <1>4, <4>1, <4>2
    <3>2. CASE ~(start > W)
      <4>1. mel' = frames /\ mel_window_start' = start
        BY <2>1, <3>2 DEF Trimmed
      <4> QED
        BY <1>1, <1>2, <1>4, <3>2, <4>1
    <3> QED
      BY <3>1, <3>2
  <2>3. /\ BuffersSound(mel', mel_window_start', embeddings', next)
        /\ Len(embeddings') <= CLASSIFIER_WINDOW
    <3>1. CASE Len(vectors) > CLASSIFIER_WINDOW
      <4>1. embeddings' = SubSeq(vectors, Len(vectors) - CLASSIFIER_WINDOW + 1, Len(vectors))
        BY <2>1, <3>1
      <4>2. BuffersSound(mel', mel_window_start', embeddings', next) /\ Len(embeddings') = CLASSIFIER_WINDOW
        BY <2>2, <3>1, <4>1, EmbeddingsDropped
      <4> QED
        BY <1>1, <4>2
    <3>2. CASE ~(Len(vectors) > CLASSIFIER_WINDOW)
      BY <1>1, <1>2, <2>1, <2>2, <3>2
    <3> QED
      BY <3>1, <3>2
  <2>4. raw' \in Nat /\ awaits' \in {"none", "melspectrogram"} /\ AudioFits'
    BY <1>1, <2>1 DEF TakeStep, AudioFits
  <2> QED
    BY <2>2, <2>3, <2>4
<1> QED
  BY <1>3, <1>4

\* The buffers empty, and no audio yet.
LEMMA DetectorInitInv == DetectorInit => DetectorInv
<1> SUFFICES ASSUME DetectorInit PROVE DetectorInv
  OBVIOUS
<1>1. <<>> \in Seq(Nat) /\ <<>> \in Seq(Seq(Nat)) /\ Len(<<>>) = 0
  OBVIOUS
<1>2. FirstFrame(0) = 0
  BY DEF FirstFrame
<1>3. BuffersSound(mel, mel_window_start, embeddings, FirstFrame(taken)) /\ Unbroken(mel, FirstFrame(taken))
  BY <1>1, <1>2 DEF DetectorInit, BuffersSound, Unbroken
<1> QED
  BY <1>1, <1>3, Sizes DEF DetectorInit, DetectorInv, HoldsAtMost, AudioFits

\* Audio that is pushed waits, or is a step of its own.
LEMMA PushInv == DetectorInv /\ push => DetectorInv'
<1> SUFFICES ASSUME DetectorInv, push PROVE DetectorInv'
  OBVIOUS
<1>1. UNCHANGED <<taken, mel, mel_window_start, embeddings, debounce, misses, spared>>
  BY DEF push
<1>2. PICK n \in 1..3 : /\ 2 * taken + raw + n <= 2 * MaxSteps - 2
                        /\ IF awaits = "none" THEN TakeStep(raw + n) ELSE raw' = raw + n /\ UNCHANGED awaits
  BY DEF push
<1>3. /\ raw \in Nat /\ taken \in Nat /\ awaits \in {"none", "melspectrogram", "embedding", "classifier"}
      /\ AudioFits
  BY DEF DetectorInv
<1>4. /\ raw' \in Nat /\ AudioFits'
      /\ \/ awaits' = awaits
         \/ awaits = "none" /\ awaits' = "melspectrogram"
  <2>1. CASE awaits = "none"
    <3>1. IF raw + n >= 2 THEN awaits' = "melspectrogram" /\ raw' = raw + n - 2
                          ELSE awaits' = "none" /\ raw' = raw + n
      BY <1>2, <1>3, <2>1 DEF TakeStep
    <3>2. raw + n \in Nat /\ 2 * taken + (raw + n) <= 2 * MaxSteps
      BY <1>2, <1>3, Sizes
    <3>3. taken' = taken /\ taken \in Nat
      BY <1>1, <1>3
    <3>4. raw' \in Nat /\ awaits' \in {"none", "melspectrogram"}
      BY <1>3, <3>1, <3>2
    <3>5. AudioFits'
      <4>1. 2 * taken + raw' + (IF awaits' = "melspectrogram" THEN 2 ELSE 0) <= 2 * MaxSteps
        BY <1>3, <3>1, <3>2, Sizes
      <4> QED
        BY <3>3, <4>1 DEF AudioFits
    <3> QED
      BY <2>1, <3>4, <3>5
  <2>2. CASE awaits # "none"
    <3>1. raw' = raw + n /\ awaits' = awaits /\ taken' = taken
      BY <1>1, <1>2, <2>2
    <3>2. raw + n \in Nat /\ 2 * taken + (raw + n) + 2 <= 2 * MaxSteps
      BY <1>2, <1>3, Sizes
    <3>3. 2 * taken + (raw + n) + (IF awaits = "melspectrogram" THEN 2 ELSE 0) <= 2 * MaxSteps
      BY <1>3, <3>2, Sizes
    <3> QED
      BY <1>3, <3>1, <3>2, <3>3, Sizes DEF AudioFits
  <2> QED
    BY <2>1, <2>2
<1>5. /\ BuffersSound(mel, mel_window_start, embeddings, FirstFrame(taken))'
      /\ (misses = 0 => Unbroken(mel, FirstFrame(taken)))'
  BY <1>1 DEF DetectorInv, BuffersSound, Unbroken, FirstFrame
<1>6. \A f, a, v : HoldsAtMost(f, a, v) => HoldsAtMost(f, a, v)'
  BY <1>1 DEF HoldsAtMost
<1> QED
  BY <1>1, <1>3, <1>4, <1>5, <1>6 DEF DetectorInv

\* A round that ends with no score asked for, by the buffers it leaves.
LEMMA RoundInv ==
  ASSUME DetectorInv, NEW frames, NEW start, NEW vectors, NEW steps \in Nat,
         BuffersSound(frames, start, vectors, FirstFrame(steps)), Continue(frames, start, vectors),
         2 * steps + raw <= 2 * MaxSteps, taken' = steps, UNCHANGED misses,
         debounce' \in 0..DEBOUNCE_STEPS, spared' \in 0..DEBOUNCE_STEPS + 1,
         spared' + debounce' >= DEBOUNCE_STEPS,
         misses = 0 =>
           /\ Unbroken(frames, FirstFrame(steps))
           /\ Len(frames) <= 2 * EMBEDDING_WINDOW + MelFrames - 1
           /\ Len(frames) - start >= EMBEDDING_WINDOW =>
                /\ Len(frames) - start <= EMBEDDING_WINDOW + MelFrames - 1
                /\ Len(vectors) <= CLASSIFIER_WINDOW
  PROVE  DetectorInv'
<1> DEFINE next == FirstFrame(steps)
<1>1. next \in Nat /\ raw \in Nat
  BY FramesFollow DEF DetectorInv
<1>2. /\ raw' \in Nat /\ AudioFits' /\ awaits' \in {"none", "melspectrogram", "embedding"}
      /\ BuffersSound(mel', mel_window_start', embeddings', next)
      /\ Unbroken(frames, next) => Unbroken(mel', next)
      /\ awaits' = "embedding" =>
           /\ Len(frames) - start >= EMBEDDING_WINDOW
           /\ mel' = frames /\ mel_window_start' = start /\ embeddings' = vectors
      /\ awaits' # "embedding" =>
           /\ Len(mel') - mel_window_start' < EMBEDDING_WINDOW
           /\ mel_window_start' <= EMBEDDING_WINDOW /\ Len(embeddings') <= CLASSIFIER_WINDOW
  BY <1>1, BuffersContinue
<1>3. FirstFrame(taken)' = next
  BY DEF FirstFrame
<1> HIDE DEF next
<1>4. BuffersSound(mel, mel_window_start, embeddings, FirstFrame(taken))'
  BY <1>2, <1>3 DEF BuffersSound
<1>5. (misses = 0 => Unbroken(mel, FirstFrame(taken)))'
  BY <1>2, <1>3 DEF Unbroken, next
<1>6. Len(mel') \in Nat /\ mel_window_start' \in Nat
  BY <1>4 DEF BuffersSound
<1>7. ASSUME misses' = 0, awaits' \in {"none", "melspectrogram"}
      PROVE  HoldsAtMost(2 * EMBEDDING_WINDOW - 1, EMBEDDING_WINDOW - 1, CLASSIFIER_WINDOW)'
  BY <1>2, <1>6, <1>7, Sizes DEF HoldsAtMost
<1>8. ASSUME misses' = 0, awaits' = "embedding"
      PROVE  HoldsAtMost(2 * EMBEDDING_WINDOW + MelFrames - 1, EMBEDDING_WINDOW + MelFrames - 1, CLASSIFIER_WINDOW)'
  BY <1>2, <1>6, <1>8, Sizes DEF HoldsAtMost
<1>9. taken' \in Nat /\ misses' \in 0..MaxMisses
  BY DEF DetectorInv
<1> QED
  BY <1>2, <1>4, <1>5, <1>7, <1>8, <1>9 DEF DetectorInv

\* The frames of a step are added, and the first window of them read.
LEMMA MelArrivesInv == DetectorInv /\ MelArrives => DetectorInv'
<1> SUFFICES ASSUME DetectorInv, MelArrives PROVE DetectorInv'
  OBVIOUS
<1> DEFINE frames == mel \o FramesOf(taken)
           steps == taken + 1
<1>1. /\ awaits = "melspectrogram" /\ taken' = steps /\ UNCHANGED <<debounce, misses, spared>>
      /\ Continue(frames, mel_window_start, embeddings)
  BY DEF MelArrives
<1>2. /\ raw \in Nat /\ taken \in Nat /\ AudioFits
      /\ BuffersSound(mel, mel_window_start, embeddings, FirstFrame(taken))
      /\ debounce \in 0..DEBOUNCE_STEPS /\ spared \in 0..DEBOUNCE_STEPS + 1
      /\ spared + debounce >= DEBOUNCE_STEPS
  BY DEF DetectorInv
<1>3. /\ BuffersSound(frames, mel_window_start, embeddings, FirstFrame(steps))
      /\ Unbroken(mel, FirstFrame(taken)) => Unbroken(frames, FirstFrame(steps))
  BY <1>2, FramesAdded
<1>4. steps \in Nat /\ 2 * steps + raw <= 2 * MaxSteps
  BY <1>1, <1>2, Sizes DEF AudioFits
<1>5. Len(frames) <= Len(mel) + MelFrames /\ Len(frames) \in Nat /\ Len(mel) \in Nat
  <2>1. /\ FramesOf(taken) \in Seq(Nat) /\ Len(FramesOf(taken)) <= MelFrames /\ mel \in Seq(Nat)
    BY <1>2, FramesFollow DEF BuffersSound
  <2> QED
    BY <2>1, Sizes, ConcatProperties
<1>6. misses = 0 =>
        /\ Unbroken(frames, FirstFrame(steps))
        /\ Len(frames) <= 2 * EMBEDDING_WINDOW + MelFrames - 1
        /\ Len(frames) - mel_window_start <= EMBEDDING_WINDOW + MelFrames - 1
        /\ Len(embeddings) <= CLASSIFIER_WINDOW
  <2> HIDE DEF frames, steps
  <2> SUFFICES ASSUME misses = 0
               PROVE  /\ Unbroken(frames, FirstFrame(steps))
                      /\ Len(frames) <= 2 * EMBEDDING_WINDOW + MelFrames - 1
                      /\ Len(frames) - mel_window_start <= EMBEDDING_WINDOW + MelFrames - 1
                      /\ Len(embeddings) <= CLASSIFIER_WINDOW
    OBVIOUS
  <2>1. /\ Unbroken(mel, FirstFrame(taken))
        /\ HoldsAtMost(2 * EMBEDDING_WINDOW - 1, EMBEDDING_WINDOW - 1, CLASSIFIER_WINDOW)
    BY <1>1 DEF DetectorInv
  <2>2. mel_window_start \in Nat
    BY <1>2, <1>5 DEF BuffersSound
  <2> QED
    BY <1>3, <1>5, <2>1, <2>2, Sizes DEF HoldsAtMost
<1> HIDE DEF frames, steps
<1> QED
  BY <1>1, <1>2, <1>3, <1>4, <1>6, RoundInv

\* The window just read is an embedding; its score is asked for unless one was detected lately.
LEMMA EmbeddingArrivesInv == DetectorInv /\ EmbeddingArrives => DetectorInv'
<1> SUFFICES ASSUME DetectorInv, EmbeddingArrives PROVE DetectorInv'
  OBVIOUS
<1> DEFINE vectors == Append(embeddings, Window(mel_window_start))
           start == mel_window_start + EMBEDDING_STEP
           full == Len(vectors) >= CLASSIFIER_WINDOW
<1>1. /\ awaits = "embedding" /\ spared' = (IF spared > DEBOUNCE_STEPS THEN spared ELSE spared + 1)
      /\ debounce' = (IF full /\ debounce > 0 THEN debounce - 1 ELSE debounce)
      /\ IF full /\ debounce = 0
         THEN /\ awaits' = "classifier" /\ embeddings' = vectors /\ mel_window_start' = start
              /\ UNCHANGED <<raw, mel>>
         ELSE Continue(mel, start, vectors)
      /\ UNCHANGED <<taken, misses>>
  BY DEF EmbeddingArrives
<1>2. /\ raw \in Nat /\ taken \in Nat /\ AudioFits
      /\ BuffersSound(mel, mel_window_start, embeddings, FirstFrame(taken))
      /\ debounce \in 0..DEBOUNCE_STEPS /\ spared \in 0..DEBOUNCE_STEPS + 1
      /\ spared + debounce >= DEBOUNCE_STEPS
      /\ Len(mel) - mel_window_start >= EMBEDDING_WINDOW
  BY <1>1 DEF DetectorInv
<1>3. BuffersSound(mel, start, vectors, FirstFrame(taken))
  BY <1>2, WindowRead DEF Window
<1>4. Len(vectors) = Len(embeddings) + 1 /\ Len(mel) \in Nat /\ mel_window_start \in Nat /\ Len(embeddings) \in Nat
  <2>1. mel \in Seq(Nat) /\ embeddings \in Seq(Seq(Nat)) /\ mel_window_start \in 0..Len(mel)
    BY <1>2 DEF BuffersSound
  <2>2. vectors \in Seq(Seq(Nat))
    BY <1>3 DEF BuffersSound
  <2>3. Len(vectors) = Len(embeddings) + 1
    BY <2>1
  <2> QED
    BY <2>1, <2>3
<1>5. /\ debounce' \in 0..DEBOUNCE_STEPS /\ spared' \in 0..DEBOUNCE_STEPS + 1
      /\ spared' + debounce' >= DEBOUNCE_STEPS
      /\ debounce = 0 => spared' > DEBOUNCE_STEPS
  <2> HIDE DEF full
  <2> QED
    BY <1>1, <1>2, Sizes
<1>6. misses = 0 =>
        /\ Unbroken(mel, FirstFrame(taken))
        /\ Len(mel) <= 2 * EMBEDDING_WINDOW + MelFrames - 1
        /\ Len(mel) - start < EMBEDDING_WINDOW /\ Len(vectors) <= CLASSIFIER_WINDOW + 1
  <2> SUFFICES ASSUME misses = 0
               PROVE  /\ Unbroken(mel, FirstFrame(taken))
                      /\ Len(mel) <= 2 * EMBEDDING_WINDOW + MelFrames - 1
                      /\ Len(mel) - start < EMBEDDING_WINDOW /\ Len(vectors) <= CLASSIFIER_WINDOW + 1
    OBVIOUS
  <2>1. /\ Unbroken(mel, FirstFrame(taken))
        /\ HoldsAtMost(2 * EMBEDDING_WINDOW + MelFrames - 1, EMBEDDING_WINDOW + MelFrames - 1, CLASSIFIER_WINDOW)
    BY <1>1 DEF DetectorInv
  <2> HIDE DEF vectors
  <2> QED
    BY <1>4, <2>1, Sizes DEF HoldsAtMost
<1>7. start \in Nat
  BY <1>4, Sizes
<1> HIDE DEF vectors, start
<1>8. CASE full /\ debounce = 0
  <2>1. /\ awaits' = "classifier" /\ embeddings' = vectors /\ mel_window_start' = start
        /\ raw' = raw /\ mel' = mel /\ taken' = taken /\ misses' = misses
    BY <1>1, <1>8
  <2>2. AudioFits'
    BY <1>1, <1>2, <2>1 DEF AudioFits
  <2>3. BuffersSound(mel, mel_window_start, embeddings, FirstFrame(taken))'
    BY <1>3, <2>1 DEF BuffersSound, FirstFrame
  <2>4. (misses = 0 => Unbroken(mel, FirstFrame(taken)))'
    BY <1>6, <2>1 DEF Unbroken, FirstFrame
  <2>5. ASSUME misses' = 0
        PROVE  HoldsAtMost(2 * EMBEDDING_WINDOW + MelFrames - 1, EMBEDDING_WINDOW - 1, CLASSIFIER_WINDOW + 1)'
    BY <1>4, <1>6, <1>7, <2>1, <2>5, Sizes DEF HoldsAtMost
  <2>6. misses' \in 0..MaxMisses
    BY <2>1 DEF DetectorInv
  <2> QED
    BY <1>2, <1>5, <1>8, <2>1, <2>2, <2>3, <2>4, <2>5, <2>6 DEF DetectorInv
<1>9. CASE ~(full /\ debounce = 0)
  <2>1. Continue(mel, start, vectors)
    BY <1>1, <1>9
  <2>2. 2 * taken + raw <= 2 * MaxSteps
    BY <1>1, <1>2 DEF AudioFits
  <2>3. misses = 0 =>
          /\ Unbroken(mel, FirstFrame(taken))
          /\ Len(mel) <= 2 * EMBEDDING_WINDOW + MelFrames - 1
          /\ Len(mel) - start >= EMBEDDING_WINDOW =>
               /\ Len(mel) - start <= EMBEDDING_WINDOW + MelFrames - 1
               /\ Len(vectors) <= CLASSIFIER_WINDOW
    BY <1>4, <1>6, <1>7, Sizes
  <2> QED
    BY <1>1, <1>2, <1>3, <1>5, <2>1, <2>2, <2>3, RoundInv
<1> QED
  BY <1>8, <1>9

\* After a score the round goes on, as if no score had been asked for.
LEMMA ScoreArrivesInv == DetectorInv /\ ScoreArrives => DetectorInv'
<1> SUFFICES ASSUME DetectorInv, ScoreArrives PROVE DetectorInv'
  OBVIOUS
<1>1. /\ awaits = "classifier" /\ Continue(mel, mel_window_start, embeddings) /\ UNCHANGED <<taken, misses>>
      /\ \/ UNCHANGED <<debounce, spared>>
         \/ debounce' = DEBOUNCE_STEPS /\ spared' = 0
  BY DEF ScoreArrives
<1>2. /\ raw \in Nat /\ taken \in Nat /\ AudioFits
      /\ BuffersSound(mel, mel_window_start, embeddings, FirstFrame(taken))
      /\ debounce \in 0..DEBOUNCE_STEPS /\ spared \in 0..DEBOUNCE_STEPS + 1
      /\ spared + debounce >= DEBOUNCE_STEPS
  BY DEF DetectorInv
<1>3. 2 * taken + raw <= 2 * MaxSteps
  BY <1>1, <1>2 DEF AudioFits
<1>4. /\ debounce' \in 0..DEBOUNCE_STEPS /\ spared' \in 0..DEBOUNCE_STEPS + 1
      /\ spared' + debounce' >= DEBOUNCE_STEPS
  BY <1>1, <1>2, Sizes
<1>5. mel_window_start \in Nat /\ Len(mel) \in Nat
  BY <1>2 DEF BuffersSound
<1>6. misses = 0 =>
        /\ Unbroken(mel, FirstFrame(taken))
        /\ HoldsAtMost(2 * EMBEDDING_WINDOW + MelFrames - 1, EMBEDDING_WINDOW - 1, CLASSIFIER_WINDOW + 1)
  BY <1>1 DEF DetectorInv
<1>7. misses = 0 =>
        /\ Unbroken(mel, FirstFrame(taken))
        /\ Len(mel) <= 2 * EMBEDDING_WINDOW + MelFrames - 1
        /\ Len(mel) - mel_window_start >= EMBEDDING_WINDOW =>
             /\ Len(mel) - mel_window_start <= EMBEDDING_WINDOW + MelFrames - 1
             /\ Len(embeddings) <= CLASSIFIER_WINDOW
  BY <1>5, <1>6, Sizes DEF HoldsAtMost
<1> QED
  BY <1>1, <1>2, <1>3, <1>4, <1>7, RoundInv

\* A failure leaves the buffers as they are, and a gap where a step's frames would be.
LEMMA InferenceFailsInv == DetectorInv /\ InferenceFails => DetectorInv'
<1> SUFFICES ASSUME DetectorInv, InferenceFails PROVE DetectorInv'
  OBVIOUS
<1>1. /\ awaits # "none" /\ awaits' = "none" /\ misses < MaxMisses /\ misses' = misses + 1
      /\ taken' = (IF awaits = "melspectrogram" THEN taken + 1 ELSE taken)
      /\ UNCHANGED <<raw, mel, mel_window_start, embeddings, debounce, spared>>
  BY DEF InferenceFails
<1>2. /\ raw \in Nat /\ taken \in Nat /\ AudioFits /\ misses \in 0..MaxMisses
      /\ BuffersSound(mel, mel_window_start, embeddings, FirstFrame(taken))
      /\ debounce \in 0..DEBOUNCE_STEPS /\ spared \in 0..DEBOUNCE_STEPS + 1
      /\ spared + debounce >= DEBOUNCE_STEPS
  BY DEF DetectorInv
<1>3. taken' \in Nat /\ AudioFits'
  BY <1>1, <1>2, Sizes DEF AudioFits
<1>4. misses' \in 0..MaxMisses /\ misses' # 0
  BY <1>1, <1>2, Sizes
<1>5. FirstFrame(taken)' >= FirstFrame(taken) /\ FirstFrame(taken)' \in Nat /\ FirstFrame(taken) \in Nat
  <2>1. FirstFrame(taken)' = FirstFrame(taken) \/ FirstFrame(taken)' = FirstFrame(taken + 1)
    BY <1>1 DEF FirstFrame
  <2>2. /\ FirstFrame(taken) \in Nat /\ FirstFrame(taken + 1) = FirstFrame(taken) + Len(FramesOf(taken))
        /\ FramesOf(taken) \in Seq(Nat)
    BY <1>2, FramesFollow
  <2> QED
    BY <2>1, <2>2
<1>6. \A i \in 1..Len(mel) : mel[i] < FirstFrame(taken)'
  <2> SUFFICES ASSUME NEW i \in 1..Len(mel) PROVE mel[i] < FirstFrame(taken)'
    OBVIOUS
  <2>1. mel[i] < FirstFrame(taken) /\ mel[i] \in Nat
    BY <1>2, SMTT(20) DEF BuffersSound
  <2> QED
    BY <1>5, <2>1
<1>7. BuffersSound(mel, mel_window_start, embeddings, FirstFrame(taken))'
  BY <1>1, <1>2, <1>6 DEF BuffersSound
<1> QED
  BY <1>1, <1>2, <1>3, <1>4, <1>7 DEF DetectorInv

\* No step of the detector breaks the invariant.
LEMMA DetectorNextInv == DetectorInv /\ [DetectorNext]_detector_vars => DetectorInv'
<1> SUFFICES ASSUME DetectorInv, [DetectorNext]_detector_vars PROVE DetectorInv'
  OBVIOUS
<1>1. CASE UNCHANGED detector_vars
  <2>1. UNCHANGED <<raw, taken, mel, mel_window_start, embeddings, debounce, awaits, misses, spared>>
    BY <1>1 DEF detector_vars
  <2>2. BuffersSound(mel, mel_window_start, embeddings, FirstFrame(taken))'
    BY <2>1 DEF DetectorInv, BuffersSound, FirstFrame
  <2>3. (misses = 0 => Unbroken(mel, FirstFrame(taken)))'
    BY <2>1 DEF DetectorInv, Unbroken, FirstFrame
  <2>4. \A f, a, v : HoldsAtMost(f, a, v) => HoldsAtMost(f, a, v)'
    BY <2>1 DEF HoldsAtMost
  <2>5. AudioFits'
    BY <2>1 DEF DetectorInv, AudioFits
  <2> QED
    BY <2>1, <2>2, <2>3, <2>4, <2>5 DEF DetectorInv
<1> QED
  BY <1>1, PushInv, MelArrivesInv, EmbeddingArrivesInv, ScoreArrivesInv, InferenceFailsInv
     DEF DetectorNext

\* The invariant is more than what is promised of the detector.
LEMMA DetectorHears == DetectorInv => WakeWordHeard
<1> SUFFICES ASSUME DetectorInv PROVE WakeWordHeard
  OBVIOUS
<1>1. BuffersSound(mel, mel_window_start, embeddings, FirstFrame(taken))
  BY DEF DetectorInv
<1>2. /\ mel \in Seq(Nat) /\ mel_window_start \in Nat /\ embeddings \in Seq(Seq(Nat))
      /\ Len(mel) \in Nat /\ Len(embeddings) \in Nat
  BY <1>1 DEF BuffersSound
<1>3. DetectorTypeOK
  BY <1>2, Sizes DEF DetectorInv, AudioFits, DetectorTypeOK
<1>4. ASSUME NEW i \in 1..Len(mel) - 1, misses = 0 PROVE mel[i + 1] = mel[i] + 1
  <2>1. FirstFrame(taken) \in Nat /\ i \in 1..Len(mel) /\ i + 1 \in 1..Len(mel)
    BY <1>2, FramesFollow DEF DetectorInv
  <2>2. /\ mel[i] + Len(mel) + 1 = FirstFrame(taken) + i /\ mel[i] \in Nat /\ mel[i + 1] \in Nat
        /\ mel[i + 1] + Len(mel) + 1 = FirstFrame(taken) + (i + 1)
    <3>1. Unbroken(mel, FirstFrame(taken))
      BY <1>4 DEF DetectorInv
    <3> HIDE DEF FirstFrame
    <3> QED
      BY <1>2, <2>1, <3>1, SMTT(20) DEF Unbroken
  <2>3. \A x, y \in Nat : x + Len(mel) + 1 = FirstFrame(taken) + i /\
                           y + Len(mel) + 1 = FirstFrame(taken) + (i + 1) => y = x + 1
    BY <1>2, <2>1
  <2> QED
    BY <2>2, <2>3
<1>5. misses = 0 => /\ Len(mel) <= 2 * EMBEDDING_WINDOW + MelFrames + EMBEDDING_STEP
                    /\ Len(embeddings) <= CLASSIFIER_WINDOW + 1
  BY <1>2, Sizes DEF DetectorInv, HoldsAtMost
<1> QED
  <2>1. \A i \in DOMAIN embeddings : Len(embeddings[i]) = EMBEDDING_WINDOW
    BY <1>1, <1>2 DEF BuffersSound
  <2>2. \A i \in 1..Len(mel) - 1 : mel[i] < mel[i + 1]
    BY <1>1 DEF BuffersSound
  <2>3. \A i \in 1..Len(embeddings) - 1 :
          SubSeq(embeddings[i], EMBEDDING_STEP + 1, EMBEDDING_WINDOW) =
            SubSeq(embeddings[i + 1], 1, EMBEDDING_WINDOW - EMBEDDING_STEP)
    BY <1>1 DEF BuffersSound
  <2>4. awaits = "classifier" => spared > DEBOUNCE_STEPS
    BY DEF DetectorInv
  <2> QED
    BY <1>3, <1>4, <1>5, <2>1, <2>2, <2>3, <2>4 DEF WakeWordHeard

\* However frames are pushed around the awaited inferences, and whichever of them
\* fails, what the classifier is given is embeddings of full windows, one step from
\* each other, of frames in their order.
THEOREM WakeWordAlwaysHeard == PhoneSpec => []WakeWordHeard
<1>1. PhoneInit => DetectorInv
  BY DetectorInitInv DEF PhoneInit
<1>2. [PhoneNext]_app_vars => [DetectorNext]_detector_vars
  BY DEF PhoneNext, app_vars, detector_vars
<1>3. DetectorInv => WakeWordHeard
  BY DetectorHears
<1> QED
  BY <1>1, <1>2, <1>3, DetectorNextInv, PTL DEF PhoneSpec

-----------------------------------------------------------------------------
(* The alerts of the feed *)

\* A request that waits to be handled, and what it asks for.
Unhandled(a, i, action) ==
  /\ mutations[i].entry = a /\ mutations[i].action = action /\ ~mutations[i].handled

\* Handled in their order, the requests of a hidden alert leave it dismissed.
StaysDismissed(a) ==
  /\ a \in dismissals \/ \E i \in 1..Len(mutations) : Unhandled(a, i, "dismiss")
  /\ \A i \in 1..Len(mutations) : Unhandled(a, i, "restore") =>
       \E j \in 1..Len(mutations) : i < j /\ Unhandled(a, j, "dismiss")

\* With no request under way, what was read, or will be shown, is what is stored;
\* an alert the phone hides ends up dismissed, unless its requests were reordered
\* or a restore has failed.
AlertsInv ==
  /\ AlertsTypeOK
  /\ mutations = <<>> =>
       /\ alert_read.state = "answered" => alert_read.data = list_alerts
       /\ alert_read = NoRead /\ "read_failed" \notin alert_slips => alert_data = list_alerts
  /\ alert_slips \subseteq {"read_failed"} => \A a \in dismissed_alerts : StaysDismissed(a)

LEMMA AlertsTypes ==
  ASSUME AlertsTypeOK
  PROVE  /\ Len(mutations) \in Nat /\ DOMAIN mutations = 1..Len(mutations)
         /\ mutations \in Seq(Mutations)
         /\ \A i \in 1..Len(mutations) :
              /\ mutations[i] \in Mutations /\ mutations[i].entry \in Alerts
              /\ mutations[i].action \in {"dismiss", "restore"} /\ mutations[i].handled \in BOOLEAN
<1>1. mutations \in Seq(Mutations)
  BY DEF AlertsTypeOK
<1>2. /\ Len(mutations) \in Nat /\ DOMAIN mutations = 1..Len(mutations)
      /\ \A i \in 1..Len(mutations) : mutations[i] \in Mutations
  BY <1>1
<1>3. \A m \in Mutations : /\ m.entry \in Alerts /\ m.action \in {"dismiss", "restore"}
                          /\ m.handled \in BOOLEAN
  BY DEF Mutations
<1> QED
  BY <1>1, <1>2, <1>3

\* A request that is gone from the list, handled or of another alert, was not one
\* that mattered.
LEMMA RemovalKeeps ==
  ASSUME AlertsTypeOK, NEW i \in 1..Len(mutations), mutations' = RemoveAt(mutations, i),
         NEW a, StaysDismissed(a), UNCHANGED dismissals,
         mutations[i].handled \/ mutations[i].entry # a
  PROVE  StaysDismissed(a)'
<1> DEFINE n == Len(mutations)
           new(k) == IF k < i THEN k ELSE k - 1
           old(k) == IF k < i THEN k ELSE k + 1
<1>1. /\ n \in Nat /\ Len(mutations') = n - 1
      /\ \A k \in 1..n - 1 : mutations'[k] = mutations[old(k)]
  BY AlertsTypes, Removal
<1>2. /\ \A k \in 1..n : k # i => new(k) \in 1..n - 1 /\ old(new(k)) = k
      /\ \A k \in 1..n - 1 : old(k) \in 1..n /\ old(k) # i /\ new(old(k)) = k
      /\ \A j, k \in 1..n : j < k /\ j # i /\ k # i => new(j) < new(k)
  BY <1>1
<1> HIDE DEF n, new, old
<1>3. \A k \in 1..n : \A action : Unhandled(a, k, action) =>
        k # i /\ new(k) \in 1..n - 1 /\ Unhandled(a, new(k), action)'
  BY <1>1, <1>2 DEF Unhandled
<1>4. \A k \in 1..n - 1 : \A action : Unhandled(a, k, action)' => Unhandled(a, old(k), action)
  BY <1>1, <1>2 DEF Unhandled
<1>5. a \in dismissals' \/ \E k \in 1..n - 1 : Unhandled(a, k, "dismiss")'
  BY <1>3 DEF StaysDismissed, n
<1>6. ASSUME NEW k \in 1..n - 1, Unhandled(a, k, "restore")'
      PROVE  \E j \in 1..n - 1 : k < j /\ Unhandled(a, j, "dismiss")'
  <2>1. old(k) \in 1..n /\ Unhandled(a, old(k), "restore")
    BY <1>2, <1>4, <1>6
  <2>2. PICK j \in 1..n : old(k) < j /\ Unhandled(a, j, "dismiss")
    BY <2>1 DEF StaysDismissed, n
  <2>3. k < new(j) /\ new(j) \in 1..n - 1 /\ Unhandled(a, new(j), "dismiss")'
    BY <1>2, <1>3, <2>1, <2>2
  <2> QED
    BY <2>3
<1> QED
  BY <1>1, <1>5, <1>6 DEF StaysDismissed, n

\* The requests made for a batch follow those there were.
LEMMA RequestsFollow ==
  ASSUME AlertsTypeOK, NEW entries \in SUBSET Alerts, NEW action \in {"dismiss", "restore"},
         Counted(entries)
  PROVE  /\ Requested(entries, action) \in Seq(Mutations)
         /\ Len(mutations) <= Len(Requested(entries, action))
         /\ Len(Requested(entries, action)) \in Nat
         /\ \A i \in 1..Len(mutations) : Requested(entries, action)[i] = mutations[i]
         /\ \A i \in Len(mutations) + 1..Len(Requested(entries, action)) :
              \E a \in entries : Requested(entries, action)[i] =
                [entry |-> a, action |-> action, handled |-> FALSE]
         /\ \A a \in entries : \E i \in Len(mutations) + 1..Len(Requested(entries, action)) :
              Requested(entries, action)[i] = [entry |-> a, action |-> action, handled |-> FALSE]
         /\ made' \in 0..MaxDismissals
<1> DEFINE request(a) == [entry |-> a, action |-> action, handled |-> FALSE]
           S == {request(a) : a \in entries}
           n == Len(mutations)
<1>1. IsFiniteSet(entries)
  BY FS_Subset, AlertsAssumption
<1>2. IsFiniteSet(S)
  <2>1. [a \in entries |-> request(a)] \in Surjection(entries, S)
    BY DEF Surjection
  <2> QED
    BY <1>1, <2>1, FS_Surjection
<1>3. S \subseteq Mutations
  <2>1. \A a \in Alerts : request(a) \in Mutations
    BY DEF Mutations
  <2> QED
    BY <2>1
<1> DEFINE t == SetToSeq(S)
<1>4. /\ t \in Seq(S) /\ Len(t) \in Nat
      /\ \A x \in S : \E i \in 1..Len(t) : t[i] = x
  BY <1>2, Listing
<1>5. t \in Seq(Mutations) /\ \A i \in 1..Len(t) : t[i] \in S
  <2> HIDE DEF S, t
  <2> QED
    BY <1>3, <1>4
<1>6. mutations \in Seq(Mutations) /\ n \in Nat /\ Requested(entries, action) = mutations \o t
  BY AlertsTypes DEF Requested
<1> HIDE DEF t, n
<1>7. /\ mutations \o t \in Seq(Mutations) /\ Len(mutations \o t) = n + Len(t)
      /\ \A i \in 1..n + Len(t) : (mutations \o t)[i] = IF i <= n THEN mutations[i] ELSE t[i - n]
  BY <1>5, <1>6, ConcatProperties DEF n
<1>8. ASSUME NEW i \in n + 1..n + Len(t) PROVE \E a \in entries : (mutations \o t)[i] = request(a)
  <2>0. n \in Nat /\ Len(t) \in Nat
    BY <1>4, <1>6
  <2>1. i - n \in 1..Len(t) /\ i \in 1..n + Len(t) /\ ~(i <= n)
    BY <2>0
  <2> QED
    BY <1>5, <1>7, <2>1
<1>9. ASSUME NEW a \in entries
      PROVE  \E i \in n + 1..n + Len(t) : (mutations \o t)[i] = request(a)
  <2>1. PICK j \in 1..Len(t) : t[j] = request(a)
    BY <1>4
  <2>2. n + j \in n + 1..n + Len(t) /\ n + j \in 1..n + Len(t) /\ ~(n + j <= n) /\ (n + j) - n = j
    BY <1>4, <1>6
  <2> QED
    BY <1>7, <2>1, <2>2
<1>10. made' \in 0..MaxDismissals
  <2>1. Len(SetToSeq(entries)) \in Nat
    BY <1>1, Listing
  <2> QED
    BY <2>1, AlertsAssumption DEF Counted, AlertsTypeOK
<1>11. \A i \in 1..n : i \in 1..n + Len(t) /\ i <= n
  BY <1>4, <1>6
<1>12. n <= n + Len(t) /\ n + Len(t) \in Nat
  BY <1>4, <1>6
<1>13. /\ Requested(entries, action) \in Seq(Mutations)
       /\ Len(Requested(entries, action)) = n + Len(t)
       /\ \A i \in 1..n : Requested(entries, action)[i] = mutations[i]
  BY <1>6, <1>7, <1>11
<1> QED
  BY <1>6, <1>8, <1>9, <1>10, <1>12, <1>13 DEF n

LEMMA ReadStates ==
  /\ NoRead.state = "none" /\ Waiting.state = "asked" /\ NoRead # Waiting
  /\ \A d : Answer(d).state = "answered" /\ Answer(d).data = d /\ Answer(d) # NoRead
BY DEF NoRead, Waiting, Answer

LEMMA AlertsInitInv == AlertsInit => AlertsInv
<1> SUFFICES ASSUME AlertsInit PROVE AlertsInv
  OBVIOUS
<1>1. mutations = <<>> /\ <<>> \in Seq(Mutations)
  BY DEF AlertsInit
<1>2. AlertsTypeOK
  BY <1>1, AlertsAssumption DEF AlertsInit, AlertsTypeOK
<1> QED
  BY <1>2, ReadStates DEF AlertsInit, AlertsInv

\* New requests: those of other alerts are as they were.
LEMMA DismissInv ==
  ASSUME AlertsInv, NEW entries \in SUBSET Alerts, on_dismiss_alerts(entries)
  PROVE  AlertsInv'
<1> DEFINE n == Len(mutations)
           k == Len(mutations')
<1>0. AlertsTypeOK
  BY DEF AlertsInv
<1>1. /\ n \in Nat /\ mutations' \in Seq(Mutations) /\ k \in Nat /\ n <= k
      /\ \A i \in 1..n : mutations'[i] = mutations[i]
      /\ \A i \in n + 1..k : \E a \in entries :
           mutations'[i] = [entry |-> a, action |-> "dismiss", handled |-> FALSE]
      /\ \A a \in entries : \E i \in n + 1..k :
           mutations'[i] = [entry |-> a, action |-> "dismiss", handled |-> FALSE]
      /\ made' \in 0..MaxDismissals
  BY <1>0, RequestsFollow, AlertsTypes DEF on_dismiss_alerts
<1>2. /\ entries # {} /\ dismissed_alerts' = dismissed_alerts \cup entries /\ alert_undo' = entries
      /\ UNCHANGED <<dismissals, alert_data, alert_read, alert_slips>>
  BY DEF on_dismiss_alerts
<1>3. AlertsTypeOK'
  BY <1>0, <1>1, <1>2 DEF AlertsTypeOK
<1>4. mutations' # <<>>
  <2>1. PICK a \in entries : TRUE
    BY <1>2
  <2>2. PICK i \in n + 1..k : TRUE
    BY <1>1, <2>1
  <2>3. k # 0
    BY <1>1, <2>2
  <2> QED
    BY <2>3
<1> HIDE DEF n, k
<1>5. ASSUME NEW i \in n + 1..k
      PROVE  mutations'[i].action = "dismiss" /\ ~mutations'[i].handled
  <2>1. PICK a \in entries : mutations'[i] = [entry |-> a, action |-> "dismiss", handled |-> FALSE]
    BY <1>1
  <2> QED
    BY <2>1
<1>6. ASSUME NEW a \in entries PROVE \E i \in n + 1..k : Unhandled(a, i, "dismiss")'
  <2>1. PICK i \in n + 1..k : mutations'[i] = [entry |-> a, action |-> "dismiss", handled |-> FALSE]
    BY <1>1
  <2> QED
    BY <2>1 DEF Unhandled
<1>7. /\ \A i \in n + 1..k : i \in 1..k
      /\ \A i \in 1..n : i \in 1..k
      /\ \A i \in 1..k : i \in 1..n \/ i \in n + 1..k
      /\ \A i \in 1..n, j \in n + 1..k : i < j
  BY <1>1
<1>8. \A i \in 1..n : \A a, action : Unhandled(a, i, action)' <=> Unhandled(a, i, action)
  BY <1>1 DEF Unhandled
<1>9. \A i \in n + 1..k : \A a : ~Unhandled(a, i, "restore")'
  BY <1>5 DEF Unhandled
<1>10. ASSUME NEW a \in entries PROVE StaysDismissed(a)'
  <2>1. PICK i \in n + 1..k : Unhandled(a, i, "dismiss")'
    BY <1>6
  <2>2. \A j \in 1..k : Unhandled(a, j, "restore")' => j < i
    BY <1>7, <1>9
  <2> QED
    BY <1>7, <2>1, <2>2 DEF StaysDismissed, k
<1>11. ASSUME NEW a, StaysDismissed(a) PROVE StaysDismissed(a)'
  <2>1. a \in dismissals' \/ \E i \in 1..k : Unhandled(a, i, "dismiss")'
    BY <1>2, <1>7, <1>8, <1>11 DEF StaysDismissed, n
  <2>2. ASSUME NEW i \in 1..k, Unhandled(a, i, "restore")'
        PROVE  \E j \in 1..k : i < j /\ Unhandled(a, j, "dismiss")'
    <3>1. i \in 1..n /\ Unhandled(a, i, "restore")
      BY <1>7, <1>8, <1>9, <2>2
    <3>2. PICK j \in 1..n : i < j /\ Unhandled(a, j, "dismiss")
      BY <1>11, <3>1 DEF StaysDismissed, n
    <3> QED
      BY <1>7, <1>8, <3>2
  <2> QED
    BY <2>1, <2>2 DEF StaysDismissed, k
<1> QED
  BY <1>2, <1>3, <1>4, <1>10, <1>11 DEF AlertsInv

\* Undone alerts are not hidden; their requests are not among those of the others.
LEMMA UndoInv == ASSUME AlertsInv, UndoAlerts PROVE AlertsInv'
<1> DEFINE n == Len(mutations)
           k == Len(mutations')
<1>0. AlertsTypeOK /\ alert_undo \in SUBSET Alerts
  BY DEF AlertsInv, AlertsTypeOK
<1>1. /\ n \in Nat /\ mutations' \in Seq(Mutations) /\ k \in Nat /\ n <= k
      /\ \A i \in 1..n : mutations'[i] = mutations[i]
      /\ \A i \in n + 1..k : \E a \in alert_undo :
           mutations'[i] = [entry |-> a, action |-> "restore", handled |-> FALSE]
      /\ \A a \in alert_undo : \E i \in n + 1..k :
           mutations'[i] = [entry |-> a, action |-> "restore", handled |-> FALSE]
      /\ made' \in 0..MaxDismissals
  BY <1>0, RequestsFollow, AlertsTypes DEF UndoAlerts
<1>2. /\ alert_undo # {} /\ dismissed_alerts' = dismissed_alerts \ alert_undo /\ alert_undo' = {}
      /\ UNCHANGED <<dismissals, alert_data, alert_read, alert_slips>>
  BY DEF UndoAlerts
<1>3. AlertsTypeOK'
  BY <1>0, <1>1, <1>2 DEF AlertsTypeOK
<1>4. mutations' # <<>>
  <2>1. PICK a \in alert_undo : TRUE
    BY <1>2
  <2>2. PICK i \in n + 1..k : TRUE
    BY <1>1, <2>1
  <2>3. k # 0
    BY <1>1, <2>2
  <2> QED
    BY <2>3
<1> HIDE DEF n, k
<1>5. /\ \A i \in 1..n : i \in 1..k
      /\ \A i \in 1..k : i \in 1..n \/ i \in n + 1..k
  BY <1>1
<1>6. \A i \in 1..n : \A a, action : Unhandled(a, i, action)' <=> Unhandled(a, i, action)
  BY <1>1 DEF Unhandled
<1>7. ASSUME NEW i \in n + 1..k PROVE mutations'[i].entry \in alert_undo
  <2>1. PICK a \in alert_undo :
          mutations'[i] = [entry |-> a, action |-> "restore", handled |-> FALSE]
    BY <1>1
  <2> QED
    BY <2>1
<1>8. ASSUME NEW a, a \notin alert_undo, StaysDismissed(a) PROVE StaysDismissed(a)'
  <2>1. \A i \in n + 1..k : \A action : ~Unhandled(a, i, action)'
    BY <1>7, <1>8 DEF Unhandled
  <2>2. a \in dismissals' \/ \E i \in 1..k : Unhandled(a, i, "dismiss")'
    BY <1>2, <1>5, <1>6, <1>8 DEF StaysDismissed, n
  <2>3. ASSUME NEW i \in 1..k, Unhandled(a, i, "restore")'
        PROVE  \E j \in 1..k : i < j /\ Unhandled(a, j, "dismiss")'
    <3>1. i \in 1..n /\ Unhandled(a, i, "restore")
      BY <1>5, <1>6, <2>1, <2>3
    <3>2. PICK j \in 1..n : i < j /\ Unhandled(a, j, "dismiss")
      BY <1>8, <3>1 DEF StaysDismissed, n
    <3> QED
      BY <1>5, <1>6, <3>2
  <2> QED
    BY <2>2, <2>3 DEF StaysDismissed, k
<1> QED
  BY <1>2, <1>3, <1>4, <1>8 DEF AlertsInv

\* A request handled in its turn.
LEMMA HandledInv ==
  ASSUME AlertsInv, NEW i \in 1..Len(mutations), MutationHandled(i)
  PROVE  AlertsInv'
<1> DEFINE n == Len(mutations)
           m == mutations[i]
           overtakes == \E j \in 1..i - 1 : mutations[j].entry = m.entry /\ ~mutations[j].handled
<1>0. AlertsTypeOK
  BY DEF AlertsInv
<1>1. /\ n \in Nat /\ mutations \in Seq(Mutations) /\ m \in Mutations /\ m.entry \in Alerts
      /\ m.action \in {"dismiss", "restore"} /\ m.handled \in BOOLEAN
  BY <1>0, AlertsTypes
<1>2. /\ ~m.handled /\ mutations' = [mutations EXCEPT ![i].handled = TRUE]
      /\ dismissals' = Handled(m)
      /\ alert_slips' = (IF overtakes THEN alert_slips \cup {"reordered"} ELSE alert_slips)
      /\ UNCHANGED <<alert_data, alert_read, dismissed_alerts, alert_undo, made>>
  BY DEF MutationHandled
<1>3. [m EXCEPT !.handled = TRUE] \in Mutations
  BY <1>1 DEF Mutations
<1>4. /\ mutations' \in Seq(Mutations) /\ Len(mutations') = n
      /\ mutations'[i] = [m EXCEPT !.handled = TRUE]
      /\ \A j \in 1..n : j # i => mutations'[j] = mutations[j]
  <2> DEFINE done == [m EXCEPT !.handled = TRUE]
  <2>1. mutations' = [mutations EXCEPT ![i] = done]
    BY <1>2
  <2> HIDE DEF done
  <2>2. done \in Mutations
    BY <1>3 DEF done
  <2>3. /\ mutations' \in Seq(Mutations) /\ Len(mutations') = n /\ mutations'[i] = done
        /\ \A j \in 1..n : j # i => mutations'[j] = mutations[j]
    BY <1>1, <2>1, <2>2
  <2> QED
    BY <2>3 DEF done
<1>5. mutations # <<>> /\ mutations' # <<>>
  BY <1>1, <1>4
<1>6. dismissals' \subseteq Alerts
  BY <1>0, <1>1, <1>2 DEF Handled, AlertsTypeOK
<1>7. AlertsTypeOK'
  BY <1>0, <1>2, <1>4, <1>6 DEF AlertsTypeOK
<1>8. \A j \in 1..n : \A a, action :
        Unhandled(a, j, action)' <=> j # i /\ Unhandled(a, j, action)
  <2>1. mutations'[i].handled
    BY <1>1, <1>4 DEF Mutations
  <2> QED
    BY <1>4, <2>1 DEF Unhandled
<1>9. ASSUME NEW a, StaysDismissed(a), ~overtakes PROVE StaysDismissed(a)'
  <2>1. CASE m.entry # a
    <3>1. \A j \in 1..n : \A action : Unhandled(a, j, action)' <=> Unhandled(a, j, action)
      BY <1>8, <2>1 DEF Unhandled
    <3>2. a \in dismissals' <=> a \in dismissals
      BY <1>2, <2>1 DEF Handled
    <3> QED
      BY <1>4, <1>9, <3>1, <3>2 DEF StaysDismissed
  <2>2. CASE m.entry = a
    <3>0. \A j \in 1..n : j < i => \A action : ~Unhandled(a, j, action)
      <4> SUFFICES ASSUME NEW j \in 1..n, j < i, NEW action, Unhandled(a, j, action)
                   PROVE  FALSE
        OBVIOUS
      <4>1. j \in 1..i - 1
        BY <1>1
      <4> QED
        BY <1>9, <2>2, <4>1 DEF Unhandled
    <3>1. \A j \in 1..n : Unhandled(a, j, "restore")' =>
            \E l \in 1..n : j < l /\ Unhandled(a, l, "dismiss")'
      <4> SUFFICES ASSUME NEW j \in 1..n, Unhandled(a, j, "restore")'
                   PROVE  \E l \in 1..n : j < l /\ Unhandled(a, l, "dismiss")'
        OBVIOUS
      <4>1. j # i /\ Unhandled(a, j, "restore")
        BY <1>8
      <4>2. PICK l \in 1..n : j < l /\ Unhandled(a, l, "dismiss")
        BY <1>9, <4>1 DEF StaysDismissed
      <4>3. l # i
        BY <3>0, <4>1, <4>2
      <4> QED
        BY <1>8, <4>2, <4>3
    <3>2. a \in dismissals' \/ \E j \in 1..n : Unhandled(a, j, "dismiss")'
      <4>1. CASE m.action = "dismiss"
        BY <1>2, <2>2, <4>1 DEF Handled
      <4>2. CASE m.action = "restore"
        <5>1. Unhandled(a, i, "restore")
          BY <1>2, <2>2, <4>2 DEF Unhandled
        <5>2. PICK j \in 1..n : i < j /\ Unhandled(a, j, "dismiss")
          BY <1>9, <5>1 DEF StaysDismissed
        <5>3. j # i
          BY <1>1, <5>2
        <5> QED
          BY <1>8, <5>2, <5>3
      <4> QED
        BY <1>1, <4>1, <4>2
    <3> QED
      BY <1>4, <3>1, <3>2 DEF StaysDismissed
  <2> QED
    BY <2>1, <2>2
<1>10. alert_slips' \subseteq {"read_failed"} => ~overtakes /\ alert_slips' = alert_slips
  BY <1>2
<1> QED
  BY <1>2, <1>5, <1>7, <1>9, <1>10 DEF AlertsInv

\* A request answered, or failed.
LEMMA EndedInv ==
  ASSUME AlertsInv, NEW i \in 1..Len(mutations), MutationAnswered(i) \/ MutationFails(i)
  PROVE  AlertsInv'
<1>0. AlertsTypeOK
  BY DEF AlertsInv
<1>1. /\ mutations' = RemoveAt(mutations, i) /\ alert_read' = Waiting
      /\ UNCHANGED <<dismissals, alert_data, alert_undo, made>>
      /\ dismissed_alerts' \in {dismissed_alerts, RolledBack(mutations[i])}
      /\ alert_slips' \in {alert_slips, alert_slips \cup {"restore_failed"}}
  BY DEF MutationAnswered, MutationFails
<1>2. /\ mutations[i] \in Mutations /\ mutations[i].entry \in Alerts
      /\ mutations[i].action \in {"dismiss", "restore"}
  BY <1>0, AlertsTypes
<1>3. mutations' \in Seq(Mutations)
  BY <1>0, <1>1, AlertsTypes, Removal
<1>4. dismissed_alerts' \subseteq Alerts
  BY <1>0, <1>1, <1>2 DEF RolledBack, AlertsTypeOK
<1>5. AlertsTypeOK'
  BY <1>0, <1>1, <1>3, <1>4 DEF AlertsTypeOK
<1>6. ASSUME alert_slips' \subseteq {"read_failed"}, NEW a \in dismissed_alerts'
      PROVE  StaysDismissed(a)'
  <2>1. a \in dismissed_alerts /\ (mutations[i].handled \/ mutations[i].entry # a)
    <3>1. CASE MutationAnswered(i)
      BY <1>6, <3>1 DEF MutationAnswered
    <3>2. CASE MutationFails(i)
      <4>1. mutations[i].action = "dismiss"
        BY <1>2, <1>6, <3>2 DEF MutationFails
      <4> QED
        BY <1>6, <3>2, <4>1 DEF MutationFails, RolledBack
    <3> QED
      BY <3>1, <3>2
  <2>2. StaysDismissed(a)
    BY <1>1, <1>6, <2>1 DEF AlertsInv
  <2> QED
    BY <1>0, <1>1, <2>1, <2>2, RemovalKeeps
<1> QED
  BY <1>1, <1>5, <1>6, ReadStates DEF AlertsInv

LEMMA AlertsNextInv == AlertsInv /\ [AlertsNext]_alert_vars => AlertsInv'
<1> SUFFICES ASSUME AlertsInv, [AlertsNext]_alert_vars PROVE AlertsInv'
  OBVIOUS
<1>0. AlertsTypeOK /\ DOMAIN mutations = 1..Len(mutations)
  BY AlertsTypes DEF AlertsInv
\* The query leaves what is hidden, and the requests, alone.
<1>1. ASSUME UNCHANGED <<dismissals, dismissed_alerts, mutations>>,
             alert_slips' \subseteq {"read_failed"} => alert_slips \subseteq {"read_failed"}
      PROVE  alert_slips' \subseteq {"read_failed"} => \A a \in dismissed_alerts' : StaysDismissed(a)'
  BY <1>1 DEF AlertsInv, StaysDismissed, Unhandled
<1>2. CASE AlertsRead
  <2>1. list_alerts \in SUBSET Alerts /\ list_alerts' = list_alerts
    BY <1>2 DEF AlertsRead, list_alerts
  <2>2. AlertsTypeOK'
    BY <1>0, <1>2, <2>1 DEF AlertsRead, AlertsTypeOK
  <2> QED
    BY <1>1, <1>2, <2>1, <2>2, ReadStates DEF AlertsRead, AlertsInv
<1>3. CASE AlertsArrive
  <2>1. alert_read.data \in SUBSET Alerts
    BY <1>0, <1>3, ReadStates DEF AlertsArrive, AlertsTypeOK
  <2>2. AlertsTypeOK'
    BY <1>0, <1>3, <2>1 DEF AlertsArrive, AlertsTypeOK
  <2>3. list_alerts' = list_alerts
    BY <1>3 DEF AlertsArrive, list_alerts
  <2> QED
    BY <1>1, <1>3, <2>2, <2>3, ReadStates DEF AlertsArrive, AlertsInv
<1>4. CASE AlertsReadFails
  <2>1. AlertsTypeOK'
    BY <1>0, <1>4 DEF AlertsReadFails, AlertsTypeOK
  <2> QED
    BY <1>1, <1>4, <2>1, ReadStates DEF AlertsReadFails, AlertsInv
<1>5. CASE DismissAlert
  <2>1. PICK a \in Shown : on_dismiss_alerts({a})
    BY <1>5 DEF DismissAlert
  <2>2. {a} \in SUBSET Alerts
    BY <1>0 DEF Shown, AlertsTypeOK
  <2> QED
    BY <2>1, <2>2, DismissInv
<1>6. CASE ClearAll
  <2>1. Dismissible \in SUBSET Alerts
    BY <1>0 DEF Dismissible, Shown, AlertsTypeOK
  <2> QED
    BY <1>6, <2>1, DismissInv DEF ClearAll
<1>7. CASE UndoAlerts
  BY <1>7, UndoInv
<1>8. CASE UndoAlertsExpires
  <2>1. AlertsTypeOK'
    BY <1>0, <1>8 DEF UndoAlertsExpires, AlertsTypeOK
  <2>2. list_alerts' = list_alerts
    BY <1>8 DEF UndoAlertsExpires, list_alerts
  <2> QED
    BY <1>1, <1>8, <2>1, <2>2 DEF UndoAlertsExpires, AlertsInv
<1>9. ASSUME NEW i \in DOMAIN mutations, MutationHandled(i) PROVE AlertsInv'
  BY <1>0, <1>9, HandledInv
<1>10. ASSUME NEW i \in DOMAIN mutations, MutationAnswered(i) \/ MutationFails(i) PROVE AlertsInv'
  BY <1>0, <1>10, EndedInv
<1>11. CASE UNCHANGED alert_vars
  <2>1. AlertsTypeOK'
    BY <1>0, <1>11 DEF alert_vars, AlertsTypeOK
  <2>2. list_alerts' = list_alerts
    BY <1>11 DEF alert_vars, list_alerts
  <2> QED
    BY <1>1, <1>11, <2>1, <2>2 DEF alert_vars, AlertsInv
<1> QED
  BY <1>2, <1>3, <1>4, <1>5, <1>6, <1>7, <1>8, <1>9, <1>10, <1>11 DEF AlertsNext

LEMMA AlertsAgree == AlertsInv => FeedAgrees
<1> SUFFICES ASSUME AlertsInv, AlertsAtRest, alert_slips = {} PROVE Shown = Alerts \ dismissals
  BY DEF AlertsInv, FeedAgrees
<1>1. mutations = <<>> /\ Len(mutations) = 0 /\ alert_data = list_alerts
  BY DEF AlertsAtRest, AlertsInv
<1>2. \A a \in dismissed_alerts : a \in dismissals
  BY <1>1 DEF AlertsInv, StaysDismissed
<1> QED
  BY <1>1, <1>2 DEF Shown, list_alerts

\* In whatever order dismissals, undos, their answers and the reads of the feed
\* come, and whichever of them fails, the cards shown and the server agree.
THEOREM FeedAlwaysAgrees == PhoneSpec => []FeedAgrees
<1>1. PhoneInit => AlertsInv
  BY AlertsInitInv DEF PhoneInit
<1>2. [PhoneNext]_app_vars => [AlertsNext]_alert_vars
  BY DEF PhoneNext, app_vars, alert_vars
<1>3. AlertsInv => FeedAgrees
  BY AlertsAgree
<1> QED
  BY <1>1, <1>2, <1>3, AlertsNextInv, PTL DEF PhoneSpec

-----------------------------------------------------------------------------
(* The reminders *)

Entries == [id : RowIds, at : Times, status : Statuses]
Saves == [target : RowIds, at : Times, row : 0..MaxRows]

\* The effect sets a timer, or none.
LEMMA TimerTyped ==
  ASSUME clock \in Nat, NEW list \in Seq(Entries), Armed(list)
  PROVE  timer' \in Nat
<1>1. Deadlines(list) \in SUBSET Nat
  <2>1. \A e \in ToSet(list) : e.at \in Times
    <3>1. \A i \in DOMAIN list : list[i] \in Entries
      OBVIOUS
    <3> QED
      BY <3>1 DEF ToSet, Entries
  <2> QED
    BY <2>1, RemindersAssumption DEF Deadlines
<1> DEFINE T == Deadlines(list)
           soon == Min(T) - clock
           wait == Max({0, soon})
           delay == Min({MaxDelay, wait})
<1> HIDE DEF T
<1>2. CASE T = {}
  BY <1>2 DEF Armed, Off, T
<1>3. CASE T # {}
  <2>1. soon \in Int
    BY <1>1, <1>3, Smallest DEF T
  <2> HIDE DEF soon
  <2>2. wait \in Nat
    <3>1. Max({0, soon}) \in {0, soon} /\ Max({0, soon}) >= 0
      BY <2>1, 0 \in Int, OfTwo, Zenon
    <3> QED
      BY <2>1, <3>1
  <2> HIDE DEF wait
  <2>3. delay \in Nat
    <3>1. MaxDelay \in Nat
      BY RemindersAssumption
    <3>3. MaxDelay \in Int /\ wait \in Int
      BY <2>2, <3>1
    <3>2. Min({MaxDelay, wait}) \in {MaxDelay, wait}
      BY <3>3, OfTwo, Zenon
    <3> QED
      BY <2>2, <3>1, <3>2
  <2>4. timer' = clock + delay
    BY <1>3 DEF Armed, T, soon, wait
  <2> QED
    BY <2>3, <2>4
<1> QED
  BY <1>2, <1>3

\* An id that some copy of a row has, and the time it is for.
Knows(id, t) ==
  \/ \E r \in rows : r.id = id /\ r.at = t
  \/ \E r \in answer : r.id = id /\ r.at = t
  \/ \E i \in 1..Len(reminders) : reminders[i].id = id /\ reminders[i].at = t
  \/ \E i \in 1..Len(saves) : saves[i].row = id /\ saves[i].at = t

\* What will hold the reminder of t once the requests are through.
Lives(r, t) == r \in rows /\ r.at = t /\ r.id \notin deletions
Unsaved(i, t) == i \in 1..Len(saves) /\ saves[i].at = t /\ saves[i].row = NotStored

\* A reminder taken back when the list had lost its entry stays dismissed.
Holds(t) == IF t \in dropped THEN "dismissed" ELSE asked_for[t]

Carried(t) ==
  /\ \A r, q \in rows : Lives(r, t) /\ Lives(q, t) => r = q
  /\ \A i, j \in 1..Len(saves) : Unsaved(i, t) /\ Unsaved(j, t) => i = j
  /\ \A r \in rows, i \in 1..Len(saves) : ~(Lives(r, t) /\ Unsaved(i, t))
  /\ Holds(t) = "kept" <=> (\E r \in rows : Lives(r, t)) \/ (\E i \in 1..Len(saves) : Unsaved(i, t))

KnownOnce ==
  /\ \A r, q \in rows : r.id = q.id => r = q
  /\ \A r, q \in answer : r.id = q.id => r = q
  /\ \A id \in RowIds, t \in Times : Knows(id, t) => id <= created
  /\ \A id \in RowIds, t, u \in Times : Knows(id, t) /\ Knows(id, u) => t = u
  /\ \A id \in deletions \cup reminder_undo : id <= created

Undoable ==
  /\ \A id \in reminder_undo, t \in Times : Knows(id, t) => t \in batch
  /\ \A t \in batch : Holds(t) = "dismissed"
  /\ \A id, jd \in reminder_undo, t \in Times : Knows(id, t) /\ Knows(jd, t) => id = jd

RemindersInv ==
  /\ RemindersTypeOK /\ IsFiniteSet(rows) /\ IsFiniteSet(answer)
  /\ KnownOnce
  /\ reminder_slips = {} => (\A t \in Times : Carried(t)) /\ Undoable

\* A list that shows what the list before it did, each entry in some status.
LEMMA Relabelled ==
  ASSUME reminders \in Seq(Entries), UNCHANGED <<rows, answer, saves>>,
         reminders' \in Seq(Entries), Len(reminders') = Len(reminders),
         \A i \in 1..Len(reminders) : reminders'[i].id = reminders[i].id /\ reminders'[i].at = reminders[i].at
  PROVE  \A id, t : Knows(id, t)' <=> Knows(id, t)
BY DEF Knows

LEMMA KnownFewer ==
  ASSUME KnownOnce, created \in Nat, created' \in Nat, created' >= created,
         \A r, q \in rows' : r.id = q.id => r = q,
         \A r, q \in answer' : r.id = q.id => r = q,
         \A id \in RowIds, t \in Times : Knows(id, t)' => Knows(id, t),
         deletions' \cup reminder_undo' \subseteq deletions \cup reminder_undo,
         deletions \cup reminder_undo \subseteq Nat
  PROVE  KnownOnce'
<1>1. \A id \in RowIds, t \in Times : Knows(id, t)' => id <= created'
  <2> SUFFICES ASSUME NEW id \in RowIds, NEW t \in Times, Knows(id, t)' PROVE id <= created'
    OBVIOUS
  <2>1. id <= created
    BY DEF KnownOnce
  <2> QED
    BY <2>1, RemindersAssumption DEF RowIds
<1>2. \A id \in deletions' \cup reminder_undo' : id <= created'
  <2> SUFFICES ASSUME NEW id \in deletions' \cup reminder_undo' PROVE id <= created'
    OBVIOUS
  <2>1. id <= created /\ id \in Nat
    BY DEF KnownOnce
  <2> QED
    BY <2>1
<1>3. \A id \in RowIds, t, u \in Times : Knows(id, t)' /\ Knows(id, u)' => t = u
  BY DEF KnownOnce
<1> QED
  BY <1>1, <1>2, <1>3 DEF KnownOnce

LEMMA CarriedSame ==
  ASSUME NEW t \in Times, Carried(t), UNCHANGED <<rows, saves, deletions>>, Holds(t)' = Holds(t)
  PROVE  Carried(t)'
BY DEF Carried, Lives, Unsaved

LEMMA UndoableFewer ==
  ASSUME Undoable, reminder_undo' \subseteq reminder_undo, reminder_undo \subseteq RowIds,
         \A id \in RowIds, t \in Times : Knows(id, t)' => Knows(id, t),
         batch' = batch \/ (batch' = {} /\ reminder_undo' = {}),
         \A t \in batch : Holds(t) = "dismissed" => Holds(t)' = "dismissed"
  PROVE  Undoable'
BY DEF Undoable

\* The types of the state, with the names used here.
LEMMA RemindersTyped ==
  RemindersTypeOK <=>
    /\ clock \in 0..Max(Times) /\ rows \subseteq Rows /\ created \in 0..MaxRows
    /\ reminders \in Seq(Entries) /\ prior_status \in [RowIds -> Statuses]
    /\ reminder_undo \subseteq RowIds /\ saves \in Seq(Saves)
    /\ deletions \subseteq RowIds /\ answer \subseteq Rows
    /\ timer \in Nat /\ asked_for \in [Times -> {"never", "kept", "dismissed"}]
    /\ batch \cup dropped \subseteq {t \in Times : asked_for[t] # "never"}
    /\ reminder_slips \subseteq {"failed", "outdated"}
BY DEF RemindersTypeOK, Entries, Saves

LEMMA RemindersBounds ==
  ASSUME RemindersInv
  PROVE  /\ MaxRows \in Nat /\ Max(Times) \in Nat /\ Max(Times) \in Times /\ Times \subseteq Nat
         /\ clock \in Nat /\ created \in Nat /\ RowIds \subseteq Nat
         /\ deletions \cup reminder_undo \subseteq Nat
         /\ RemindersTypeOK /\ KnownOnce /\ IsFiniteSet(rows) /\ IsFiniteSet(answer)
<1>1. MaxRows \in Nat /\ Times \in SUBSET Nat /\ Times # {} /\ IsFiniteSet(Times)
  BY RemindersAssumption
<1>2. Max(Times) \in Times
  BY <1>1, Largest
<1>3. RemindersTypeOK
  BY DEF RemindersInv
<1>4. /\ clock \in 0..Max(Times) /\ created \in 0..MaxRows /\ deletions \subseteq RowIds
      /\ reminder_undo \subseteq RowIds
  BY <1>3, RemindersTyped
<1>5. Max(Times) \in Nat /\ RowIds \subseteq Nat
  <2>1. RowIds \subseteq Nat
    BY <1>1 DEF RowIds
  <2> QED
    BY <1>1, <1>2, <2>1, Zenon
<1>6. clock \in Nat /\ created \in Nat
  BY <1>1, <1>4, <1>5
<1>7. KnownOnce /\ IsFiniteSet(rows) /\ IsFiniteSet(answer)
  BY DEF RemindersInv
<1> QED
  BY <1>1, <1>2, <1>3, <1>4, <1>5, <1>6, <1>7

\* A step that leaves the rows and the requests as they are.
LEMMA SameRequests ==
  ASSUME RemindersInv, RemindersTypeOK', IsFiniteSet(answer'),
         UNCHANGED <<rows, created, saves, deletions, asked_for, dropped, reminder_slips>>,
         reminder_undo' \subseteq reminder_undo,
         batch' = batch \/ (batch' = {} /\ reminder_undo' = {}),
         \A r, q \in answer' : r.id = q.id => r = q,
         \A id \in RowIds, t \in Times : Knows(id, t)' => Knows(id, t)
  PROVE  RemindersInv'
<1>1. KnownOnce'
  <2>1. KnownOnce /\ created \in Nat /\ deletions \cup reminder_undo \subseteq Nat
    BY RemindersBounds
  <2>2. /\ created' \in Nat /\ created' >= created
        /\ deletions' \cup reminder_undo' \subseteq deletions \cup reminder_undo
    BY <2>1
  <2>3. \A r, q \in rows' : r.id = q.id => r = q
    BY <2>1 DEF KnownOnce
  <2> QED
    BY <2>1, <2>2, <2>3, KnownFewer
<1>2. ASSUME reminder_slips' = {} PROVE (\A t \in Times : Carried(t)') /\ Undoable'
  <2>1. (\A t \in Times : Carried(t)) /\ Undoable
    BY <1>2 DEF RemindersInv
  <2>2. reminder_undo \subseteq RowIds
    BY RemindersTyped DEF RemindersInv
  <2>4. \A t : Holds(t)' = Holds(t)
    BY DEF Holds
  <2>3. Undoable'
    BY <2>1, <2>2, <2>4, UndoableFewer
  <2> QED
    BY <2>1, <2>3, <2>4, CarriedSame
<1> QED
  BY <1>1, <1>2 DEF RemindersInv

LEMMA TimerElapsesInv == RemindersInv /\ TimerElapses => RemindersInv'
<1> SUFFICES ASSUME RemindersInv, TimerElapses PROVE RemindersInv'
  OBVIOUS
<1> DEFINE list == [i \in DOMAIN reminders |->
                      IF Due(reminders[i]) /\ ~capped THEN [reminders[i] EXCEPT !.status = "fired"]
                      ELSE reminders[i]]
<1>1. /\ reminders' = list /\ Armed(list)
      /\ UNCHANGED <<clock, server_vars, undo_vars, saves, deletions, read_vars, history_vars>>
  BY DEF TimerElapses, Listed
<1>2. /\ rows' = rows /\ created' = created /\ saves' = saves /\ deletions' = deletions /\ clock' = clock
      /\ asked_for' = asked_for /\ reminder_slips' = reminder_slips /\ answer' = answer
      /\ reminder_undo' = reminder_undo /\ batch' = batch /\ dropped' = dropped /\ prior_status' = prior_status
  BY <1>1 DEF server_vars, undo_vars, read_vars, history_vars
<1>3. RemindersTypeOK /\ KnownOnce /\ IsFiniteSet(answer) /\ clock \in Nat
  BY RemindersBounds
<1>4. reminders \in Seq(Entries)
  BY <1>3, RemindersTyped
<1>5. /\ list \in Seq(Entries) /\ Len(list) = Len(reminders)
      /\ \A i \in 1..Len(reminders) : list[i].id = reminders[i].id /\ list[i].at = reminders[i].at
  <2>1. \A i \in 1..Len(reminders) : reminders[i] \in Entries
    BY <1>4
  <2>2. \A i \in 1..Len(reminders) :
          list[i] \in Entries /\ list[i].id = reminders[i].id /\ list[i].at = reminders[i].at
    BY <1>4, <2>1 DEF Entries, Statuses
  <2>3. DOMAIN reminders = 1..Len(reminders) /\ Len(reminders) \in Nat
    BY <1>4
  <2>4. DOMAIN list = 1..Len(reminders)
    BY <2>3
  <2>5. list = [i \in 1..Len(reminders) |-> list[i]]
    BY <2>3
  <2> HIDE DEF list
  <2>6. list \in Seq(Entries) /\ Len(list) = Len(reminders)
    BY <2>2, <2>3, <2>5
  <2> QED
    BY <2>2, <2>6
<1> HIDE DEF list
<1>6. timer' \in Nat
  BY <1>1, <1>3, <1>5, TimerTyped
<1>7. \A id, t : Knows(id, t)' <=> Knows(id, t)
  BY <1>1, <1>2, <1>4, <1>5, Relabelled
<1>8. RemindersTypeOK'
  BY <1>1, <1>2, <1>3, <1>5, <1>6, RemindersTyped DEF RemindersTypeOK, Entries
<1>9. \A r, q \in answer' : r.id = q.id => r = q
  BY <1>2, <1>3 DEF KnownOnce
<1> QED
  BY <1>2, <1>3, <1>7, <1>8, <1>9, SameRequests

LEMMA TimePassesInv == RemindersInv /\ TimePasses => RemindersInv'
<1> SUFFICES ASSUME RemindersInv, TimePasses PROVE RemindersInv'
  OBVIOUS
<1>1. /\ clock < Max(Times) /\ clock' = clock + 1
      /\ UNCHANGED <<server_vars, reminders, undo_vars, saves, deletions, read_vars, timer_vars, history_vars>>
  BY DEF TimePasses
<1>2. /\ rows' = rows /\ created' = created /\ saves' = saves /\ deletions' = deletions
      /\ asked_for' = asked_for /\ reminder_slips' = reminder_slips /\ answer' = answer
      /\ reminder_undo' = reminder_undo /\ batch' = batch /\ dropped' = dropped /\ prior_status' = prior_status /\ reminders' = reminders
      /\ timer' = timer
  BY <1>1 DEF server_vars, undo_vars, read_vars, history_vars, timer_vars
<1>3. RemindersTypeOK /\ KnownOnce /\ IsFiniteSet(answer) /\ clock \in Nat /\ Max(Times) \in Nat
  BY RemindersBounds
<1>4. RemindersTypeOK'
  BY <1>1, <1>2, <1>3 DEF RemindersTypeOK
<1>5. \A id, t : Knows(id, t)' <=> Knows(id, t)
  BY <1>2 DEF Knows
<1>6. \A r, q \in answer' : r.id = q.id => r = q
  BY <1>2, <1>3 DEF KnownOnce
<1> QED
  BY <1>2, <1>3, <1>4, <1>5, <1>6, SameRequests

\* The list is asked for, read from the rows, and put in the cache.
LEMMA ReadInv == RemindersInv /\ (refresh \/ ListAnswered \/ UndoRemindersExpires) => RemindersInv'
<1> SUFFICES ASSUME RemindersInv, refresh \/ ListAnswered \/ UndoRemindersExpires PROVE RemindersInv'
  OBVIOUS
<1>1. /\ answer' \in {{}, rows, answer} 
      /\ UNCHANGED <<reminder_undo, batch>> \/ (reminder_undo' = {} /\ batch' = {})
      /\ UNCHANGED <<clock, rows, created, saves, deletions, asked_for, dropped, reminder_slips, prior_status,
                     reminders, timer>>
  BY DEF refresh, ListAnswered, UndoRemindersExpires, server_vars, undo_vars, read_vars, history_vars, timer_vars
<1>2. RemindersTypeOK /\ KnownOnce /\ IsFiniteSet(answer) /\ IsFiniteSet(rows)
  BY RemindersBounds
<1>3. RemindersTypeOK'
  BY <1>1, <1>2 DEF RemindersTypeOK
<1>4. \A id, t : Knows(id, t)' => Knows(id, t)
  BY <1>1 DEF Knows
<1>5. \A r, q \in answer' : r.id = q.id => r = q
  BY <1>1, <1>2 DEF KnownOnce
<1>6. IsFiniteSet(answer')
  BY <1>1, <1>2, FS_EmptySet
<1> QED
  BY <1>1, <1>3, <1>4, <1>5, <1>6, SameRequests

LEMMA ListArrivesInv == RemindersInv /\ ListArrives => RemindersInv'
<1> SUFFICES ASSUME RemindersInv, ListArrives PROVE RemindersInv'
  OBVIOUS
<1>1. PICK list \in SetToSeqs(answer) : Listed(list)
  BY DEF ListArrives
<1>2. /\ reminders' = list /\ Armed(list) /\ answer' = {}
      /\ UNCHANGED <<clock, rows, created, saves, deletions, asked_for, dropped, reminder_slips, prior_status,
                     reminder_undo, batch>>
  BY <1>1 DEF ListArrives, Listed, server_vars, undo_vars, history_vars
<1>3. RemindersTypeOK /\ KnownOnce /\ IsFiniteSet(answer) /\ clock \in Nat
  BY RemindersBounds
<1>4. Cardinality(answer) \in Nat
  BY <1>3, FS_CardinalityType
<1>5. list \in [1..Cardinality(answer) -> answer]
  BY <1>1 DEF SetToSeqs
<1>6. /\ list \in Seq(Entries) /\ \A i \in 1..Len(list) : list[i] \in answer
  <2>1. list \in Seq(answer) /\ Len(list) = Cardinality(answer)
    BY <1>4, <1>5
  <2>2. answer \subseteq Entries
    BY <1>3 DEF RemindersTypeOK, Rows, Entries, Statuses
  <2> QED
    BY <2>1, <2>2
<1>7. timer' \in Nat
  BY <1>2, <1>3, <1>6, TimerTyped
<1>8. RemindersTypeOK'
  BY <1>2, <1>3, <1>6, <1>7 DEF RemindersTypeOK, Entries
<1>9. \A id, t : Knows(id, t)' => Knows(id, t)
  BY <1>2, <1>6 DEF Knows
<1>10. IsFiniteSet(answer') /\ \A r, q \in answer' : r.id = q.id => r = q
  BY <1>2, FS_EmptySet
<1> QED
  BY <1>2, <1>8, <1>9, <1>10, SameRequests

\* A failed request is remembered, and nothing more is promised.
LEMMA SlipInv ==
  ASSUME RemindersInv, RemindersTypeOK', IsFiniteSet(rows'), IsFiniteSet(answer'), KnownOnce',
         reminder_slips' # {}
  PROVE  RemindersInv'
BY DEF RemindersInv

\* A row fires: another status of the same row.
LEMMA ServerFiresInv == RemindersInv /\ ServerFires => RemindersInv'
<1> SUFFICES ASSUME RemindersInv, ServerFires PROVE RemindersInv'
  OBVIOUS
<1>1. PICK r \in rows : rows' = (rows \ {r}) \cup {[r EXCEPT !.status = "fired"]}
  BY DEF ServerFires
<1>2. UNCHANGED <<clock, created, reminders, saves, deletions, asked_for, dropped, reminder_slips,
                  prior_status, reminder_undo, batch, answer, timer>>
  BY DEF ServerFires, undo_vars, read_vars, timer_vars, history_vars
<1>3. RemindersTypeOK /\ KnownOnce /\ IsFiniteSet(rows) /\ IsFiniteSet(answer) /\ created \in Nat
      /\ deletions \cup reminder_undo \subseteq Nat
  BY RemindersBounds
<1>4. r \in Rows /\ rows \subseteq Rows
  BY <1>3 DEF RemindersTypeOK
<1> DEFINE f == [r EXCEPT !.status = "fired"]
<1>5. f \in Rows /\ f.id = r.id /\ f.at = r.at
  BY <1>4 DEF Rows
<1> HIDE DEF f
<1>6. rows' = (rows \ {r}) \cup {f}
  BY <1>1 DEF f
<1>7. RemindersTypeOK'
  BY <1>2, <1>3, <1>4, <1>5, <1>6 DEF RemindersTypeOK
<1>8. IsFiniteSet(rows') /\ IsFiniteSet(answer')
  BY <1>2, <1>3, <1>6, FS_AddElement, FS_RemoveElement
<1>9. \A q, s \in rows' : q.id = s.id => q = s
  BY <1>3, <1>5, <1>6 DEF KnownOnce
<1>10. \A id, t : Knows(id, t)' => Knows(id, t)
  BY <1>2, <1>5, <1>6 DEF Knows
<1>11. KnownOnce'
  <2>1. /\ \A q, s \in answer' : q.id = s.id => q = s
        /\ created' \in Nat /\ created' >= created
        /\ deletions' \cup reminder_undo' \subseteq deletions \cup reminder_undo
    BY <1>2, <1>3 DEF KnownOnce
  <2> QED
    BY <1>3, <1>9, <1>10, <2>1, KnownFewer
<1>12. ASSUME reminder_slips' = {} PROVE (\A t \in Times : Carried(t)') /\ Undoable'
  <2>1. (\A t \in Times : Carried(t)) /\ Undoable
    BY <1>2, <1>12 DEF RemindersInv
  <2>4. \A t : Holds(t)' = Holds(t)
    BY <1>2 DEF Holds
  <2>2. ASSUME NEW t \in Times PROVE Carried(t)'
    <3>1. Carried(t)
      BY <2>1
    <3>2. /\ \A q : Lives(q, t)' <=> (Lives(q, t) /\ q # r) \/ (q = f /\ Lives(r, t))
          /\ \A i : Unsaved(i, t)' <=> Unsaved(i, t)
      BY <1>2, <1>5, <1>6 DEF Lives, Unsaved
    <3>3. \A q : Lives(q, t)' => q \in rows'
      BY DEF Lives
    <3>4. \A q : Lives(q, t) => q \in rows
      BY DEF Lives
    <3>5. (\E q \in rows : Lives(q, t)) <=> (\E q \in rows' : Lives(q, t)')
      BY <3>2, <3>3, <3>4
    <3>6. \A q, s \in rows' : Lives(q, t)' /\ Lives(s, t)' => q = s
      BY <3>1, <3>2, <3>4 DEF Carried
    <3>7. \A q \in rows', i \in 1..Len(saves') : ~(Lives(q, t)' /\ Unsaved(i, t)')
      BY <1>2, <3>1, <3>2, <3>4 DEF Carried
    <3> QED
      BY <1>2, <2>4, <3>1, <3>2, <3>5, <3>6, <3>7 DEF Carried
  <2>3. Undoable'
    <3>1. reminder_undo \subseteq RowIds
      BY <1>3 DEF RemindersTypeOK
    <3> QED
      BY <1>2, <1>10, <2>1, <2>4, <3>1, UndoableFewer
  <2> QED
    BY <2>2, <2>3
<1> QED
  BY <1>7, <1>8, <1>11, <1>12 DEF RemindersInv

\* A row goes that was to go.
LEMMA DeletionInv ==
  ASSUME RemindersInv, NEW id \in deletions, DeletionHandled(id) \/ DeletionFails(id)
  PROVE  RemindersInv'
<1>1. /\ deletions' = deletions \ {id}
      /\ UNCHANGED <<clock, created, reminders, saves, asked_for, dropped, prior_status, reminder_undo, batch,
                     answer, timer>>
      /\ \/ rows' = {r \in rows : r.id # id} /\ reminder_slips' = reminder_slips
         \/ rows' = rows /\ reminder_slips' = reminder_slips \cup {"failed"}
  BY DEF DeletionHandled, DeletionFails, server_vars, undo_vars, read_vars, timer_vars, history_vars
<1>2. RemindersTypeOK /\ KnownOnce /\ IsFiniteSet(rows) /\ IsFiniteSet(answer) /\ created \in Nat
      /\ deletions \cup reminder_undo \subseteq Nat
  BY RemindersBounds
<1>3. rows' \subseteq rows
  BY <1>1
<1>4. RemindersTypeOK'
  BY <1>1, <1>2, <1>3 DEF RemindersTypeOK
<1>5. IsFiniteSet(rows') /\ IsFiniteSet(answer')
  BY <1>1, <1>2, <1>3, FS_Subset
<1>6. \A j, t : Knows(j, t)' => Knows(j, t)
  BY <1>1, <1>3 DEF Knows
<1>7. KnownOnce'
  <2>1. /\ \A q, s \in answer' : q.id = s.id => q = s
        /\ \A q, s \in rows' : q.id = s.id => q = s
        /\ created' \in Nat /\ created' >= created
        /\ deletions' \cup reminder_undo' \subseteq deletions \cup reminder_undo
    BY <1>1, <1>2, <1>3 DEF KnownOnce
  <2> QED
    BY <1>2, <1>6, <2>1, KnownFewer
<1>8. ASSUME reminder_slips' = {} PROVE (\A t \in Times : Carried(t)') /\ Undoable'
  <2>1. rows' = {r \in rows : r.id # id} /\ (\A t \in Times : Carried(t)) /\ Undoable
    BY <1>1, <1>8 DEF RemindersInv
  <2>4. \A t : Holds(t)' = Holds(t)
    BY <1>1 DEF Holds
  <2>2. ASSUME NEW t \in Times PROVE Carried(t)'
    <3>1. /\ \A r : Lives(r, t)' <=> Lives(r, t)
          /\ \A i : Unsaved(i, t)' <=> Unsaved(i, t)
          /\ \A r : Lives(r, t) => r \in rows /\ r \in rows'
      BY <1>1, <2>1 DEF Lives, Unsaved
    <3>2. Carried(t)
      BY <2>1
    <3> QED
      BY <1>1, <1>3, <2>4, <3>1, <3>2 DEF Carried
  <2>3. Undoable'
    <3>1. reminder_undo \subseteq RowIds
      BY <1>2 DEF RemindersTypeOK
    <3> QED
      BY <1>1, <1>6, <2>1, <2>4, <3>1, UndoableFewer
  <2> QED
    BY <2>2, <2>3
<1> QED
  BY <1>4, <1>5, <1>7, <1>8 DEF RemindersInv

\* A new row, of an id that nothing has yet.
LEMMA NewRow ==
  ASSUME RemindersInv, NEW t \in Times, Inserted(created + 1, t),
         UNCHANGED <<answer, reminders, deletions, reminder_undo>>,
         \A j \in RowIds, u \in Times : Knows(j, u)' => Knows(j, u) \/ (j = created + 1 /\ u = t)
  PROVE  /\ created' = created + 1 /\ created + 1 \in RowIds
         /\ KnownOnce' /\ IsFiniteSet(rows') /\ rows' \subseteq Rows
         /\ \E r \in Rows : r \notin rows /\ rows' = rows \cup {r} /\ r.id = created + 1 /\ r.at = t
         /\ created + 1 \notin deletions /\ created + 1 \notin reminder_undo
         /\ \A u \in Times : ~Knows(created + 1, u)
<1> DEFINE r == [id |-> created + 1, at |-> t, status |-> "upcoming"]
<1>1. /\ created < MaxRows /\ created' = created + 1 /\ rows' = rows \cup {r}
  BY DEF Inserted
<1>2. /\ RemindersTypeOK /\ KnownOnce /\ IsFiniteSet(rows) /\ IsFiniteSet(answer) /\ created \in Nat
      /\ deletions \cup reminder_undo \subseteq Nat /\ MaxRows \in Nat
  BY RemindersBounds
<1>3. created + 1 \in RowIds
  BY <1>1, <1>2 DEF RowIds
<1>4. r \in Rows /\ r.id = created + 1 /\ r.at = t
  BY <1>3 DEF Rows
<1> HIDE DEF r
<1>5. rows \subseteq Rows
  BY <1>2 DEF RemindersTypeOK
<1>6. \A u \in Times : ~Knows(created + 1, u)
  <2> SUFFICES ASSUME NEW u \in Times, Knows(created + 1, u) PROVE FALSE
    OBVIOUS
  <2>1. created + 1 <= created
    BY <1>2, <1>3 DEF KnownOnce
  <2> QED
    BY <1>2, <2>1
<1>7. \A q \in rows : q.id # created + 1
  <2> SUFFICES ASSUME NEW q \in rows, q.id = created + 1 PROVE FALSE
    OBVIOUS
  <2>1. q.at \in Times
    BY <1>5 DEF Rows
  <2> QED
    BY <1>6, <2>1 DEF Knows
<1>8. created + 1 \notin deletions \cup reminder_undo
  <2> SUFFICES ASSUME created + 1 \in deletions \cup reminder_undo PROVE FALSE
    OBVIOUS
  <2>1. created + 1 <= created
    BY <1>2 DEF KnownOnce
  <2> QED
    BY <1>2, <2>1
<1>9. IsFiniteSet(rows')
  BY <1>1, <1>2, FS_AddElement
<1>10. KnownOnce'
  <2>1. \A q, s \in rows' : q.id = s.id => q = s
    BY <1>1, <1>2, <1>4, <1>7 DEF KnownOnce
  <2>2. \A q, s \in answer' : q.id = s.id => q = s
    BY <1>2 DEF KnownOnce
  <2>3. ASSUME NEW j \in RowIds, NEW u \in Times, Knows(j, u)' PROVE j <= created'
    <3>1. CASE Knows(j, u)
      <4>1. j <= created /\ j \in Nat
        BY <1>2, <3>1 DEF KnownOnce, RowIds
      <4> QED
        BY <1>1, <1>2, <4>1
    <3>2. CASE j = created + 1
      BY <1>1, <1>2, <3>2
    <3> QED
      BY <2>3, <3>1, <3>2
  <2>4. ASSUME NEW j \in RowIds, NEW u \in Times, NEW v \in Times, Knows(j, u)', Knows(j, v)' PROVE u = v
    <3>1. CASE j = created + 1
      BY <1>6, <2>4, <3>1
    <3>2. CASE j # created + 1
      BY <1>2, <2>4, <3>2 DEF KnownOnce
    <3> QED
      BY <3>1, <3>2
  <2>5. ASSUME NEW j \in deletions' \cup reminder_undo' PROVE j <= created'
    <3>1. j \in Nat /\ j <= created
      BY <1>2, <2>5 DEF KnownOnce
    <3> QED
      BY <1>1, <1>2, <3>1
  <2> QED
    BY <2>1, <2>2, <2>3, <2>4, <2>5 DEF KnownOnce
<1> QED
  BY <1>1, <1>3, <1>4, <1>5, <1>6, <1>7, <1>8, <1>9, <1>10

LEMMA ToolSetsInv ==
  ASSUME RemindersInv, NEW t \in Times, ToolSets(t)
  PROVE  RemindersInv'
<1>1. /\ asked_for[t] = "never" /\ Inserted(created + 1, t)
      /\ asked_for' = [asked_for EXCEPT ![t] = "kept"]
      /\ UNCHANGED <<clock, reminders, prior_status, reminder_undo, batch, saves, deletions, answer, timer,
                     dropped, reminder_slips>>
  BY DEF ToolSets, undo_vars, read_vars, timer_vars
<1>2. RemindersTypeOK /\ KnownOnce /\ IsFiniteSet(rows) /\ IsFiniteSet(answer)
      /\ reminder_undo \subseteq RowIds /\ asked_for \in [Times -> {"never", "kept", "dismissed"}]
      /\ MaxRows \in Nat /\ batch \cup dropped \subseteq {u \in Times : asked_for[u] # "never"}
  BY RemindersBounds, RemindersTyped
<1>3. \A j, u : Knows(j, u)' => Knows(j, u) \/ (j = created + 1 /\ u = t)
  BY <1>1 DEF Knows, Inserted
<1>4. PICK r \in Rows : r \notin rows /\ rows' = rows \cup {r} /\ r.id = created + 1 /\ r.at = t
  BY <1>1, <1>3, NewRow
<1>5. /\ created' = created + 1 /\ created + 1 \in RowIds
      /\ KnownOnce' /\ IsFiniteSet(rows') /\ rows' \subseteq Rows
      /\ created + 1 \notin deletions /\ created + 1 \notin reminder_undo
  BY <1>1, <1>3, NewRow
<1>6. asked_for' \in [Times -> {"never", "kept", "dismissed"}] /\ created' \in 0..MaxRows
  BY <1>1, <1>2, <1>5 DEF RowIds
<1>9. /\ \A u \in Times : u # t => asked_for'[u] = asked_for[u] /\ Holds(u)' = Holds(u)
      /\ asked_for'[t] = "kept" /\ Holds(t) = "never" /\ Holds(t)' = "kept" /\ t \notin batch
  BY <1>1, <1>2 DEF Holds
<1>10. batch' \cup dropped' \subseteq {u \in Times : asked_for'[u] # "never"}
  BY <1>1, <1>2, <1>9
<1>7. RemindersTypeOK'
  BY <1>1, <1>2, <1>5, <1>6, <1>10 DEF RemindersTypeOK
<1>8. ASSUME reminder_slips' = {} PROVE (\A u \in Times : Carried(u)') /\ Undoable'
  <2>1. (\A u \in Times : Carried(u)) /\ Undoable
    BY <1>1, <1>8 DEF RemindersInv
  <2>2. ASSUME NEW u \in Times PROVE Carried(u)'
    <3>1. \A i : Unsaved(i, u)' <=> Unsaved(i, u)
      BY <1>1 DEF Unsaved
    <3>2. CASE u = t
      <4>1. ~(\E q \in rows : Lives(q, t)) /\ ~(\E i \in 1..Len(saves) : Unsaved(i, t))
        BY <1>9, <2>1 DEF Carried
      <4>2. \A q \in rows' : Lives(q, t)' <=> q = r
        BY <1>1, <1>4, <1>5, <4>1 DEF Lives
      <4>3. Holds(t)' = "kept"
        BY <1>9
      <4> QED
        BY <1>1, <1>4, <3>1, <3>2, <4>1, <4>2, <4>3 DEF Carried
    <3>3. CASE u # t
      <4>1. \A q \in rows' : Lives(q, u)' <=> Lives(q, u)
        BY <1>1, <1>4, <3>3 DEF Lives
      <4>2. \A q : Lives(q, u) => q \in rows /\ q \in rows'
        BY <1>4 DEF Lives
      <4>3. Holds(u)' = Holds(u) /\ saves' = saves
        BY <1>1, <1>9, <3>3
      <4>4. Carried(u)
        BY <2>1
      <4>5. \A q : Lives(q, u)' => q \in rows'
        BY DEF Lives
      <4>6. (\E q \in rows : Lives(q, u)) <=> (\E q \in rows' : Lives(q, u)')
        BY <4>1, <4>2
      <4> QED
        BY <3>1, <4>1, <4>2, <4>3, <4>4, <4>6 DEF Carried
    <3> QED
      BY <3>2, <3>3
  <2>3. Undoable'
    <3>1. ASSUME NEW j \in reminder_undo, NEW u \in Times, Knows(j, u)'
          PROVE  Knows(j, u)
      BY <1>3, <1>5, <3>1
    <3>2. \A u \in batch : Holds(u)' = "dismissed"
      BY <1>2, <1>9, <2>1 DEF Undoable
    <3> QED
      BY <1>1, <2>1, <3>1, <3>2 DEF Undoable
  <2> QED
    BY <2>2, <2>3
<1> QED
  BY <1>1, <1>2, <1>5, <1>7, <1>8 DEF RemindersInv

\* The row of a reminder that was restored.
LEMMA SaveStoredInv ==
  ASSUME RemindersInv, NEW n \in 1..Len(saves), SaveStored(n)
  PROVE  RemindersInv'
<1> DEFINE t == saves[n].at
<1>1. /\ saves[n].row = NotStored /\ Inserted(created + 1, t)
      /\ saves' = [saves EXCEPT ![n].row = created + 1]
      /\ UNCHANGED <<clock, reminders, prior_status, reminder_undo, batch, deletions, answer, timer, asked_for,
                     dropped, reminder_slips>>
  BY DEF SaveStored, RowOf, undo_vars, read_vars, timer_vars, history_vars
<1>2. RemindersTypeOK /\ KnownOnce /\ IsFiniteSet(rows) /\ IsFiniteSet(answer)
      /\ reminder_undo \subseteq RowIds /\ saves \in Seq(Saves) /\ created \in Nat /\ MaxRows \in Nat
  BY RemindersBounds, RemindersTyped
<1>3. t \in Times /\ \A i \in 1..Len(saves) : saves[i] \in Saves
  <2>1. \A i \in 1..Len(saves) : saves[i] \in Saves
    BY <1>2
  <2> QED
    BY <2>1 DEF Saves
<1> HIDE DEF t
<1>4. /\ created < MaxRows /\ created + 1 \in 0..MaxRows /\ created + 1 # NotStored
  BY <1>1, <1>2 DEF Inserted, NotStored
<1>5. /\ saves' \in Seq(Saves) /\ Len(saves') = Len(saves)
      /\ \A i \in 1..Len(saves) : saves'[i].at = saves[i].at
      /\ \A i \in 1..Len(saves) : i # n => saves'[i].row = saves[i].row
      /\ saves'[n].row = created + 1
  <2>1. /\ saves' \in Seq(Saves) /\ Len(saves') = Len(saves)
        /\ \A i \in 1..Len(saves) : saves'[i] = IF i = n THEN [saves[n] EXCEPT !.row = created + 1] ELSE saves[i]
    <3> DEFINE s == [saves[n] EXCEPT !.row = created + 1]
    <3>1. s \in Saves
      BY <1>3, <1>4 DEF Saves
    <3>2. saves' = [saves EXCEPT ![n] = s]
      BY <1>1
    <3> HIDE DEF s
    <3>3. /\ saves' \in Seq(Saves) /\ Len(saves') = Len(saves)
          /\ \A i \in 1..Len(saves) : saves'[i] = IF i = n THEN s ELSE saves[i]
      BY <1>2, <3>1, <3>2
    <3> QED
      BY <3>3 DEF s
  <2> QED
    BY <1>3, <2>1 DEF Saves
<1>6. \A j \in RowIds, u \in Times : Knows(j, u)' => Knows(j, u) \/ (j = created + 1 /\ u = t)
  BY <1>1, <1>5 DEF Knows, Inserted, t
<1>7. PICK r \in Rows : r \notin rows /\ rows' = rows \cup {r} /\ r.id = created + 1 /\ r.at = t
  BY <1>1, <1>3, <1>6, NewRow
<1>8. /\ created' = created + 1 /\ created + 1 \in RowIds
      /\ KnownOnce' /\ IsFiniteSet(rows') /\ rows' \subseteq Rows
      /\ created + 1 \notin deletions /\ created + 1 \notin reminder_undo
  BY <1>1, <1>3, <1>6, NewRow
<1>9. created' \in 0..MaxRows
  BY <1>4, <1>8
<1>10. RemindersTypeOK'
  BY <1>1, <1>2, <1>5, <1>8, <1>9 DEF RemindersTypeOK, Saves
<1>11. ASSUME reminder_slips' = {} PROVE (\A u \in Times : Carried(u)') /\ Undoable'
  <2>1. (\A u \in Times : Carried(u)) /\ Undoable
    BY <1>1, <1>11 DEF RemindersInv
  <2>4. \A u : Holds(u)' = Holds(u)
    BY <1>1 DEF Holds
  <2>2. ASSUME NEW u \in Times PROVE Carried(u)'
    <3>1. \A i \in 1..Len(saves) : Unsaved(i, u)' <=> (Unsaved(i, u) /\ i # n)
      BY <1>4, <1>5 DEF Unsaved
    <3>2. Carried(u)
      BY <2>1
    <3>3. Len(saves') = Len(saves) /\ Holds(u)' = Holds(u)
      BY <1>5, <2>4
    <3>4. \A q : Lives(q, u) => q \in rows
      BY DEF Lives
    <3>5. CASE u = t
      <4>1. Unsaved(n, u)
        BY <1>1, <3>5 DEF Unsaved, t
      <4>2. ~(\E q \in rows : Lives(q, u)) /\ Holds(u) = "kept"
            /\ \A i \in 1..Len(saves) : Unsaved(i, u) => i = n
        BY <3>2, <4>1 DEF Carried
      <4>3. \A q \in rows' : Lives(q, u)' <=> q = r
        BY <1>1, <1>7, <1>8, <3>4, <3>5, <4>2 DEF Lives
      <4>4. ~(\E i \in 1..Len(saves) : Unsaved(i, u)')
        BY <3>1, <4>2
      <4> QED
        BY <1>7, <3>3, <4>2, <4>3, <4>4 DEF Carried
    <3>6. CASE u # t
      <4>1. \A q \in rows' : Lives(q, u)' <=> Lives(q, u)
        BY <1>1, <1>7, <3>6 DEF Lives
      <4>2. \A i \in 1..Len(saves) : Unsaved(i, u)' <=> Unsaved(i, u)
        BY <3>1, <3>6 DEF Unsaved, t
      <4>3. (\E q \in rows : Lives(q, u)) <=> (\E q \in rows' : Lives(q, u)')
        BY <1>7, <3>4, <4>1
      <4>4. (\E i \in 1..Len(saves) : Unsaved(i, u)) <=> (\E i \in 1..Len(saves) : Unsaved(i, u)')
        BY <4>2
      <4>5. \A q, s \in rows' : Lives(q, u)' /\ Lives(s, u)' => q = s
        BY <3>2, <3>4, <4>1 DEF Carried
      <4>6. \A i, j \in 1..Len(saves) : Unsaved(i, u)' /\ Unsaved(j, u)' => i = j
        BY <3>2, <4>2 DEF Carried
      <4>7. \A q \in rows', i \in 1..Len(saves) : ~(Lives(q, u)' /\ Unsaved(i, u)')
        BY <3>2, <3>4, <4>1, <4>2 DEF Carried
      <4>8. Holds(u) = "kept" <=> (\E q \in rows : Lives(q, u)) \/ (\E i \in 1..Len(saves) : Unsaved(i, u))
        BY <3>2 DEF Carried
      <4> QED
        BY <3>3, <4>3, <4>4, <4>5, <4>6, <4>7, <4>8 DEF Carried
    <3> QED
      BY <3>5, <3>6
  <2>3. Undoable'
    <3>1. ASSUME NEW j \in reminder_undo, NEW u \in Times, Knows(j, u)'
          PROVE  Knows(j, u)
      BY <1>2, <1>6, <1>8, <3>1
    <3> QED
      BY <1>1, <2>1, <2>4, <3>1 DEF Undoable
  <2> QED
    BY <2>2, <2>3
<1> QED
  BY <1>1, <1>2, <1>8, <1>10, <1>11 DEF RemindersInv

\* The entry restored becomes the row that was saved, or stays as it is.
LEMMA SaveEndsInv ==
  ASSUME RemindersInv, NEW n \in 1..Len(saves), SaveAnswered(n) \/ SaveFails(n)
  PROVE  RemindersInv'
<1> DEFINE Was(k) == IF k < n THEN k ELSE k + 1
           e == [id |-> saves[n].row, at |-> saves[n].at, status |-> "upcoming"]
<1>1. /\ saves' = RemoveAt(saves, n)
      /\ UNCHANGED <<clock, rows, created, prior_status, reminder_undo, batch, deletions, answer, asked_for, dropped>>
  BY DEF SaveAnswered, SaveFails, server_vars, undo_vars, read_vars, timer_vars, history_vars
<1>2. RemindersTypeOK /\ KnownOnce /\ IsFiniteSet(rows) /\ IsFiniteSet(answer)
      /\ reminder_undo \subseteq RowIds /\ saves \in Seq(Saves) /\ created \in Nat /\ MaxRows \in Nat
      /\ deletions \cup reminder_undo \subseteq Nat /\ reminders \in Seq(Entries) /\ clock \in Nat
  BY RemindersBounds, RemindersTyped
<1>3. /\ saves' \in Seq(Saves) /\ Len(saves') = Len(saves) - 1
      /\ \A k \in 1..Len(saves') : saves'[k] = saves[Was(k)]
      /\ \A k \in 1..Len(saves') : Was(k) \in 1..Len(saves)
      /\ \A j \in 1..Len(saves) : j # n => \E k \in 1..Len(saves') : Was(k) = j
      /\ \A k, j \in 1..Len(saves') : Was(k) = Was(j) => k = j
  <2>1. /\ saves' \in Seq(Saves) /\ Len(saves') = Len(saves) - 1
        /\ \A k \in 1..Len(saves) - 1 : saves'[k] = IF k < n THEN saves[k] ELSE saves[k + 1]
    BY <1>1, <1>2, Removal
  <2>2. Len(saves) \in Nat
    BY <1>2
  <2>3. ASSUME NEW j \in 1..Len(saves), j # n PROVE \E k \in 1..Len(saves') : Was(k) = j
    <3>1. CASE j < n
      BY <2>1, <2>2, <3>1
    <3>2. CASE j > n
      <4>1. j - 1 \in 1..Len(saves') /\ Was(j - 1) = j
        BY <2>1, <2>2, <3>2
      <4> QED
        BY <4>1
    <3> QED
      BY <2>2, <2>3, <3>1, <3>2
  <2> QED
    BY <2>1, <2>2, <2>3
<1> HIDE DEF Was
<1>4. \A i \in 1..Len(saves) : saves[i] \in Saves
  BY <1>2
<1>5. /\ reminders' \in Seq(Entries) /\ timer' \in Nat
      /\ \A i \in 1..Len(reminders') :
           \/ i \in 1..Len(reminders) /\ reminders'[i] = reminders[i]
           \/ reminders'[i].id = saves[n].row /\ reminders'[i].at = saves[n].at
      /\ (reminder_slips' = reminder_slips /\ saves[n].row # NotStored) \/ reminder_slips' # {}
      /\ reminder_slips' \subseteq {"failed", "outdated"}
  <2>1. CASE SaveAnswered(n)
    <3> DEFINE list == [j \in DOMAIN reminders |->
                         IF reminders[j].id = saves[n].target THEN e ELSE reminders[j]]
    <3>1. /\ saves[n].row # NotStored /\ reminders' = list /\ Armed(list) /\ reminder_slips' = reminder_slips
      BY <2>1 DEF SaveAnswered, Listed, history_vars
    <3>2. e \in Entries /\ e.id = saves[n].row /\ e.at = saves[n].at
      BY <1>2, <1>4, <3>1 DEF Entries, Saves, RowIds, NotStored, Statuses
    <3> HIDE DEF e
    <3>3. DOMAIN reminders = 1..Len(reminders) /\ Len(reminders) \in Nat
          /\ \A i \in 1..Len(reminders) : reminders[i] \in Entries
      BY <1>2
    <3>4. list \in Seq(Entries) /\ Len(list) = Len(reminders)
          /\ \A i \in 1..Len(reminders) : list[i] = reminders[i] \/ list[i] = e
      BY <3>2, <3>3
    <3> HIDE DEF list
    <3>5. timer' \in Nat
      BY <1>2, <3>1, <3>4, TimerTyped
    <3> QED
      BY <1>2, <3>1, <3>2, <3>4, <3>5 DEF RemindersTypeOK
  <2>2. CASE SaveFails(n)
    BY <1>2, <2>2 DEF SaveFails, RemindersTypeOK, timer_vars
  <2> QED
    BY <2>1, <2>2
<1>6. RemindersTypeOK'
  BY <1>1, <1>2, <1>3, <1>5 DEF RemindersTypeOK, Entries, Saves
<1>7. \A j, u : Knows(j, u)' => Knows(j, u)
  <2> SUFFICES ASSUME NEW j, NEW u, Knows(j, u)' PROVE Knows(j, u)
    OBVIOUS
  <2>1. CASE \E r \in rows' : r.id = j /\ r.at = u
    BY <1>1, <2>1 DEF Knows
  <2>2. CASE \E r \in answer' : r.id = j /\ r.at = u
    BY <1>1, <2>2 DEF Knows
  <2>3. CASE \E i \in 1..Len(reminders') : reminders'[i].id = j /\ reminders'[i].at = u
    BY <1>5, <2>3 DEF Knows
  <2>4. CASE \E k \in 1..Len(saves') : saves'[k].row = j /\ saves'[k].at = u
    BY <1>3, <2>4 DEF Knows
  <2> QED
    BY <2>1, <2>2, <2>3, <2>4 DEF Knows
<1>8. KnownOnce'
  <2>1. /\ \A q, s \in answer' : q.id = s.id => q = s
        /\ \A q, s \in rows' : q.id = s.id => q = s
        /\ created' \in Nat /\ created' >= created
        /\ deletions' \cup reminder_undo' \subseteq deletions \cup reminder_undo
    BY <1>1, <1>2 DEF KnownOnce
  <2> QED
    BY <1>2, <1>7, <2>1, KnownFewer
<1>9. ASSUME reminder_slips' = {} PROVE (\A u \in Times : Carried(u)') /\ Undoable'
  <2>1. (\A u \in Times : Carried(u)) /\ Undoable /\ saves[n].row # NotStored
    BY <1>5, <1>9 DEF RemindersInv
  <2>4. \A u : Holds(u)' = Holds(u)
    BY <1>1 DEF Holds
  <2>2. ASSUME NEW u \in Times PROVE Carried(u)'
    <3>1. \A k \in 1..Len(saves') : Unsaved(k, u)' <=> Unsaved(Was(k), u)
      BY <1>3 DEF Unsaved
    <3>2. ~Unsaved(n, u)
      BY <2>1 DEF Unsaved
    <3>3. (\E k \in 1..Len(saves') : Unsaved(k, u)') <=> (\E j \in 1..Len(saves) : Unsaved(j, u))
      <4>1. ASSUME NEW k \in 1..Len(saves'), Unsaved(k, u)' PROVE \E j \in 1..Len(saves) : Unsaved(j, u)
        <5>1. Was(k) \in 1..Len(saves)
          BY <1>3
        <5>2. Unsaved(Was(k), u)
          BY <3>1, <4>1
        <5> QED
          BY <5>1, <5>2
      <4>2. ASSUME NEW j \in 1..Len(saves), Unsaved(j, u) PROVE \E k \in 1..Len(saves') : Unsaved(k, u)'
        <5>1. j # n
          BY <3>2, <4>2
        <5>2. PICK k \in 1..Len(saves') : Was(k) = j
          BY <1>3, <5>1
        <5>3. Unsaved(Was(k), u)
          BY <4>2, <5>2
        <5> QED
          BY <3>1, <5>3
      <4> QED
        BY <4>1, <4>2
    <3>4. Carried(u)
      BY <2>1
    <3>5. \A k, j \in 1..Len(saves') : Unsaved(k, u)' /\ Unsaved(j, u)' => k = j
      <4> SUFFICES ASSUME NEW k \in 1..Len(saves'), NEW j \in 1..Len(saves'), Unsaved(k, u)', Unsaved(j, u)'
                   PROVE  k = j
        OBVIOUS
      <4>1. Was(k) = Was(j)
        BY <1>3, <3>1, <3>4 DEF Carried
      <4> QED
        BY <1>3, <4>1
    <3>6. \A r : Lives(r, u)' <=> Lives(r, u)
      BY <1>1 DEF Lives
    <3>7. \A r \in rows', k \in 1..Len(saves') : ~(Lives(r, u)' /\ Unsaved(k, u)')
      BY <1>1, <1>3, <3>1, <3>4, <3>6 DEF Carried
    <3>8. \A r, q \in rows' : Lives(r, u)' /\ Lives(q, u)' => r = q
      BY <1>1, <3>4, <3>6 DEF Carried
    <3>9. Holds(u)' = "kept" <=>
            (\E r \in rows' : Lives(r, u)') \/ (\E k \in 1..Len(saves') : Unsaved(k, u)')
      BY <1>1, <2>4, <3>3, <3>4, <3>6 DEF Carried
    <3> QED
      BY <3>5, <3>7, <3>8, <3>9 DEF Carried
  <2>3. Undoable'
    BY <1>1, <1>2, <1>7, <2>1, <2>4, UndoableFewer
  <2> QED
    BY <2>2, <2>3
<1> QED
  BY <1>1, <1>2, <1>6, <1>8, <1>9 DEF RemindersInv

\* Entries of the list go, and the rows they are of.
LEMMA DismissRowsInv ==
  ASSUME RemindersInv, NEW entries, dismiss(entries),
         \A e \in entries : e \in ToSet(reminders) /\ e.status \in {"upcoming", "fired"}
  PROVE  RemindersInv'
<1> DEFINE ids == {e.id : e \in entries}
           list == [i \in DOMAIN reminders |->
                     IF reminders[i].id \in ids THEN [reminders[i] EXCEPT !.status = "dismissed"]
                     ELSE reminders[i]]
           times == {e.at : e \in entries}
<1>1. /\ prior_status' = [id \in RowIds |->
            IF \E e \in entries : e.id = id
            THEN (CHOOSE e \in entries : e.id = id).status ELSE prior_status[id]]
      /\ reminders' = list /\ Armed(list) /\ deletions' = deletions \cup ids
      /\ reminder_undo' = ids /\ batch' = times
      /\ asked_for' = [t \in Times |-> IF t \in times THEN "dismissed" ELSE asked_for[t]]
      /\ reminder_slips' = reminder_slips \cup {s \in {"outdated"} : \E e \in entries : Outdated(e, entries)}
      /\ UNCHANGED <<clock, rows, created, saves, answer, dropped>>
  BY DEF dismiss, Listed, Marked, server_vars, read_vars
<1>2. RemindersTypeOK /\ KnownOnce /\ IsFiniteSet(rows) /\ IsFiniteSet(answer)
      /\ reminder_undo \subseteq RowIds /\ deletions \subseteq RowIds /\ created \in Nat /\ RowIds \subseteq Nat
      /\ reminders \in Seq(Entries) /\ clock \in Nat /\ prior_status \in [RowIds -> Statuses]
      /\ asked_for \in [Times -> {"never", "kept", "dismissed"}] /\ rows \subseteq Rows
      /\ dropped \subseteq {t \in Times : asked_for[t] # "never"}
  BY RemindersBounds, RemindersTyped
<1>3. DOMAIN reminders = 1..Len(reminders) /\ Len(reminders) \in Nat
      /\ \A i \in 1..Len(reminders) : reminders[i] \in Entries
  BY <1>2
<1>4. \A e \in entries : e \in Entries /\ Knows(e.id, e.at)
  BY <1>3 DEF ToSet, Knows
<1>5. ids \subseteq RowIds /\ \A id \in ids : id <= created
  <2>1. \A e \in entries : e.id \in RowIds /\ e.at \in Times
    BY <1>4 DEF Entries
  <2>2. \A e \in entries : e.id <= created
    BY <1>2, <1>4, <2>1 DEF KnownOnce
  <2> QED
    BY <2>1, <2>2
<1>6. /\ list \in Seq(Entries) /\ Len(list) = Len(reminders)
      /\ \A i \in 1..Len(reminders) : list[i].id = reminders[i].id /\ list[i].at = reminders[i].at
  <2>1. \A i \in 1..Len(reminders) :
          list[i] \in Entries /\ list[i].id = reminders[i].id /\ list[i].at = reminders[i].at
    <3> HIDE DEF ids
    <3> QED
      BY <1>3 DEF Entries, Statuses
  <2>2. list = [i \in 1..Len(reminders) |-> list[i]]
    BY <1>3
  <2> HIDE DEF list
  <2>3. list \in Seq(Entries) /\ Len(list) = Len(reminders)
    BY <1>3, <2>1, <2>2
  <2> QED
    BY <2>1, <2>3
<1>7. timer' \in Nat
  <2> HIDE DEF list
  <2> QED
    BY <1>1, <1>2, <1>6, TimerTyped
<1>8. prior_status' \in [RowIds -> Statuses]
  <2>1. ASSUME NEW id \in RowIds, \E e \in entries : e.id = id
        PROVE  (CHOOSE e \in entries : e.id = id).status \in Statuses
    BY <2>1 DEF Statuses
  <2> QED
    BY <1>1, <1>2, <2>1
<1>9. asked_for' \in [Times -> {"never", "kept", "dismissed"}]
  BY <1>1, <1>2
<1>14. /\ \A t \in times : t \in Times /\ asked_for'[t] = "dismissed" /\ Holds(t)' = "dismissed"
       /\ \A t \in Times : t \notin times => asked_for'[t] = asked_for[t] /\ Holds(t)' = Holds(t)
  <2>1. times \subseteq Times
    BY <1>4 DEF Entries
  <2> QED
    BY <1>1, <2>1 DEF Holds
<1>15. batch' \cup dropped' \subseteq {t \in Times : asked_for'[t] # "never"}
  <2> HIDE DEF times
  <2> QED
    BY <1>1, <1>2, <1>14
<1> HIDE DEF list, ids, times
<1>10. RemindersTypeOK'
  BY <1>1, <1>2, <1>5, <1>6, <1>7, <1>8, <1>9, <1>15 DEF RemindersTypeOK, Entries
<1>11. \A id, t : Knows(id, t)' <=> Knows(id, t)
  BY <1>1, <1>2, <1>6, Relabelled
<1>12. KnownOnce'
  BY <1>1, <1>2, <1>5, <1>11 DEF KnownOnce
<1>13. ASSUME reminder_slips' = {} PROVE (\A t \in Times : Carried(t)') /\ Undoable'
  <2>1. (\A t \in Times : Carried(t)) /\ Undoable
    BY <1>1, <1>13 DEF RemindersInv
  <2>2. \A e \in entries : ~Outdated(e, entries)
    BY <1>1, <1>13
  <2>3. ASSUME NEW e \in entries
        PROVE  /\ \A i \in 1..Len(saves) : ~Unsaved(i, e.at)
               /\ \A r \in rows : Lives(r, e.at) => r.id = e.id
               /\ \A f \in entries : f.at = e.at => f.id = e.id
    <3>1. DOMAIN saves = 1..Len(saves)
      BY <1>2, RemindersTyped
    <3> QED
      BY <2>2, <3>1 DEF Outdated, Unsaved, Lives
  <2>4. ASSUME NEW t \in Times PROVE Carried(t)'
    <3>1. \A i : Unsaved(i, t)' <=> Unsaved(i, t)
      BY <1>1 DEF Unsaved
    <3>2. CASE t \in times
      <4>1. PICK e \in entries : e.at = t
        BY <3>2 DEF times
      <4>2. \A i \in 1..Len(saves) : ~Unsaved(i, t)
        BY <2>3, <4>1
      <4>3. \A r \in rows : ~Lives(r, t)'
        BY <1>1, <2>3, <4>1 DEF Lives, ids
      <4>4. Holds(t)' = "dismissed"
        BY <1>14, <3>2
      <4> QED
        BY <1>1, <3>1, <4>2, <4>3, <4>4 DEF Carried
    <3>3. CASE t \notin times
      <4>1. \A r \in rows : Lives(r, t)' <=> Lives(r, t)
        <5> SUFFICES ASSUME NEW r \in rows, r.at = t PROVE r.id \notin ids
          BY <1>1 DEF Lives
        <5>1. ASSUME r.id \in ids PROVE FALSE
          <6>1. PICK e \in entries : e.id = r.id
            BY <5>1 DEF ids
          <6>2. Knows(r.id, t) /\ Knows(r.id, e.at) /\ r.id \in RowIds /\ e.at \in Times
            <7>1. rows \subseteq Rows
              BY <1>2
            <7>2. Knows(r.id, t) /\ r.id \in RowIds
              BY <7>1 DEF Knows, Rows
            <7> QED
              BY <1>4, <6>1, <7>2 DEF Entries
          <6>3. e.at = t
            BY <1>2, <6>2 DEF KnownOnce
          <6> QED
            BY <3>3, <6>3 DEF times
        <5> QED
          BY <5>1
      <4>2. Holds(t)' = Holds(t)
        BY <1>14, <3>3
      <4>3. Carried(t)
        BY <2>1
      <4> QED
        BY <1>1, <3>1, <4>1, <4>2, <4>3 DEF Carried
    <3> QED
      BY <3>2, <3>3
  <2>5. ASSUME NEW id \in ids, NEW t \in Times, Knows(id, t)
        PROVE  \E e \in entries : e.id = id /\ e.at = t
    <3>1. PICK e \in entries : e.id = id
      BY DEF ids
    <3>2. Knows(id, e.at) /\ id \in RowIds /\ e.at \in Times
      BY <1>4, <1>5, <3>1 DEF Entries
    <3>3. e.at = t
      BY <1>2, <2>5, <3>2 DEF KnownOnce
    <3> QED
      BY <3>1, <3>3
  <2>6. Undoable'
    <3>1. ASSUME NEW id \in ids, NEW t \in Times, Knows(id, t) PROVE t \in times
      BY <2>5, <3>1 DEF times
    <3>2. ASSUME NEW id \in ids, NEW jd \in ids, NEW t \in Times, Knows(id, t), Knows(jd, t) PROVE id = jd
      <4>1. PICK e \in entries : e.id = id /\ e.at = t
        BY <2>5, <3>2
      <4>2. PICK f \in entries : f.id = jd /\ f.at = t
        BY <2>5, <3>2
      <4> QED
        BY <2>3, <4>1, <4>2
    <3> QED
      BY <1>1, <1>11, <1>14, <3>1, <3>2 DEF Undoable
  <2> QED
    BY <2>4, <2>6
<1> QED
  BY <1>1, <1>2, <1>10, <1>12, <1>13 DEF RemindersInv

\* The reminders that the list has kept are asked for again.
LEMMA UndoRemindersInv == RemindersInv /\ UndoReminders => RemindersInv'
<1> SUFFICES ASSUME RemindersInv, UndoReminders PROVE RemindersInv'
  OBVIOUS
<1> DEFINE found == {e \in ToSet(reminders) : e.id \in reminder_undo}
           Save(e) == [target |-> e.id, at |-> e.at, row |-> NotStored]
           new == {Save(e) : e \in found}
           added == SetToSeq(new)
           list == [i \in DOMAIN reminders |->
                     IF reminders[i].id \in reminder_undo
                     THEN [reminders[i] EXCEPT !.status = prior_status[reminders[i].id]]
                     ELSE reminders[i]]
           times == {e.at : e \in found}
<1>1. /\ prior_status' = [id \in RowIds |-> IF id \in reminder_undo THEN "upcoming" ELSE prior_status[id]]
      /\ reminders' = list /\ Armed(list) /\ reminder_undo' = {} /\ batch' = {}
      /\ saves' = saves \o added /\ dropped' = (dropped \cup batch) \ times
      /\ asked_for' = [t \in Times |-> IF t \in batch THEN "kept" ELSE asked_for[t]]
      /\ UNCHANGED <<clock, rows, created, deletions, answer, reminder_slips>>
  BY DEF UndoReminders, Listed, Marked, server_vars, read_vars
<1>2. RemindersTypeOK /\ KnownOnce /\ IsFiniteSet(rows) /\ IsFiniteSet(answer)
      /\ reminder_undo \subseteq RowIds /\ deletions \subseteq RowIds /\ created \in Nat /\ RowIds \subseteq Nat
      /\ reminders \in Seq(Entries) /\ clock \in Nat /\ prior_status \in [RowIds -> Statuses]
      /\ asked_for \in [Times -> {"never", "kept", "dismissed"}] /\ saves \in Seq(Saves) /\ MaxRows \in Nat
      /\ batch \cup dropped \subseteq {t \in Times : asked_for[t] # "never"}
  BY RemindersBounds, RemindersTyped
<1>3. DOMAIN reminders = 1..Len(reminders) /\ Len(reminders) \in Nat
      /\ \A i \in 1..Len(reminders) : reminders[i] \in Entries
  BY <1>2
<1>4. \A e \in found : e \in Entries /\ Knows(e.id, e.at) /\ e.id \in reminder_undo /\ e.at \in Times
  BY <1>3 DEF ToSet, Knows, Entries
<1>5. IsFiniteSet(found)
  <2>1. IsFiniteSet(1..Len(reminders))
    BY <1>3, FS_Interval
  <2>2. reminders \in Surjection(1..Len(reminders), ToSet(reminders))
    BY <1>2, <1>3 DEF ToSet, Surjection
  <2>3. IsFiniteSet(ToSet(reminders))
    BY <2>1, <2>2, FS_Surjection
  <2> QED
    BY <2>3, FS_Subset
<1> HIDE DEF found
<1>6. IsFiniteSet(new) /\ new \subseteq Saves
  <2> DEFINE g == [e \in found |-> Save(e)]
  <2>1. g \in Surjection(found, new)
    BY DEF Surjection
  <2>2. \A e \in found : Save(e) \in Saves
    BY <1>2, <1>4 DEF Saves, Entries, NotStored
  <2> HIDE DEF g
  <2>3. IsFiniteSet(new)
    BY <1>5, <2>1, FS_Surjection
  <2> QED
    BY <2>2, <2>3
<1>7. \A s \in new : \E e \in found : s.target = e.id /\ s.at = e.at /\ s.row = NotStored /\ s = Save(e)
  OBVIOUS
<1>8. \A e \in found : Save(e) \in new
  OBVIOUS
<1> HIDE DEF new
<1>9. /\ added \in Seq(new) /\ Len(added) \in Nat
      /\ \A s \in new : \E m \in 1..Len(added) : added[m] = s
      /\ \A m, k \in 1..Len(added) : added[m] = added[k] => m = k
  BY <1>6, Listing
<1> HIDE DEF added
<1>10. /\ saves' \in Seq(Saves) /\ Len(saves') = Len(saves) + Len(added) /\ Len(saves) \in Nat
       /\ \A k \in 1..Len(saves') : saves'[k] = IF k <= Len(saves) THEN saves[k] ELSE added[k - Len(saves)]
  <2>1. added \in Seq(Saves)
    BY <1>6, <1>9
  <2> QED
    BY <1>1, <1>2, <2>1, ConcatProperties
<1>11. /\ list \in Seq(Entries) /\ Len(list) = Len(reminders)
       /\ \A i \in 1..Len(reminders) : list[i].id = reminders[i].id /\ list[i].at = reminders[i].at
  <2>1. \A i \in 1..Len(reminders) :
          list[i] \in Entries /\ list[i].id = reminders[i].id /\ list[i].at = reminders[i].at
    BY <1>2, <1>3 DEF Entries
  <2>2. list = [i \in 1..Len(reminders) |-> list[i]]
    BY <1>3
  <2> HIDE DEF list
  <2>3. list \in Seq(Entries) /\ Len(list) = Len(reminders)
    BY <1>3, <2>1, <2>2
  <2> QED
    BY <2>1, <2>3
<1> HIDE DEF list
<1>12. timer' \in Nat
  BY <1>1, <1>2, <1>11, TimerTyped
<1>13. prior_status' \in [RowIds -> Statuses]
  BY <1>1, <1>2 DEF Statuses
<1>14. asked_for' \in [Times -> {"never", "kept", "dismissed"}]
  BY <1>1, <1>2
<1>19. batch' \cup dropped' \subseteq {t \in Times : asked_for'[t] # "never"}
  BY <1>1, <1>2
<1>15. RemindersTypeOK'
  BY <1>1, <1>2, <1>10, <1>11, <1>12, <1>13, <1>14, <1>19 DEF RemindersTypeOK, Entries, Saves
<1> HIDE DEF times
<1>16. \A j \in RowIds, u \in Times : Knows(j, u)' => Knows(j, u)
  <2> SUFFICES ASSUME NEW j \in RowIds, NEW u \in Times, Knows(j, u)' PROVE Knows(j, u)
    OBVIOUS
  <2>1. CASE \E r \in rows' : r.id = j /\ r.at = u
    BY <1>1, <2>1 DEF Knows
  <2>2. CASE \E r \in answer' : r.id = j /\ r.at = u
    BY <1>1, <2>2 DEF Knows
  <2>3. CASE \E i \in 1..Len(reminders') : reminders'[i].id = j /\ reminders'[i].at = u
    BY <1>1, <1>11, <2>3 DEF Knows
  <2>4. CASE \E k \in 1..Len(saves') : saves'[k].row = j /\ saves'[k].at = u
    <3>1. PICK k \in 1..Len(saves') : saves'[k].row = j /\ saves'[k].at = u
      BY <2>4
    <3>2. CASE k <= Len(saves)
      <4>1. k \in 1..Len(saves) /\ saves'[k] = saves[k]
        BY <1>9, <1>10, <3>2
      <4> QED
        BY <3>1, <4>1 DEF Knows
    <3>3. CASE ~(k <= Len(saves))
      <4>1. k - Len(saves) \in 1..Len(added) /\ saves'[k] = added[k - Len(saves)]
        BY <1>9, <1>10, <3>3
      <4>2. saves'[k] \in new
        BY <1>9, <4>1
      <4>3. j = NotStored
        BY <1>7, <3>1, <4>2
      <4> QED
        BY <1>2, <4>3 DEF RowIds, NotStored
    <3> QED
      BY <3>2, <3>3
  <2> QED
    BY <2>1, <2>2, <2>3, <2>4 DEF Knows
<1>17. KnownOnce'
  <2>1. /\ \A q, s \in answer' : q.id = s.id => q = s
        /\ \A q, s \in rows' : q.id = s.id => q = s
        /\ created' \in Nat /\ created' >= created
        /\ deletions' \cup reminder_undo' \subseteq deletions \cup reminder_undo
        /\ deletions \cup reminder_undo \subseteq Nat
    BY <1>1, <1>2 DEF KnownOnce
  <2> QED
    BY <1>2, <1>16, <2>1, KnownFewer
<1>18. ASSUME reminder_slips' = {} PROVE (\A t \in Times : Carried(t)') /\ Undoable'
  <2>1. (\A t \in Times : Carried(t)) /\ Undoable
    BY <1>1, <1>18 DEF RemindersInv
  <2>4. \A t \in times : t \in batch
    BY <1>4, <2>1 DEF times, Undoable
  <2>2. ASSUME NEW t \in Times PROVE Carried(t)'
    <3>1. \A r : Lives(r, t)' <=> Lives(r, t)
      BY <1>1 DEF Lives
    <3>2. \A k \in 1..Len(saves) : k \in 1..Len(saves') /\ (Unsaved(k, t)' <=> Unsaved(k, t))
      BY <1>9, <1>10 DEF Unsaved
    <3>3. Carried(t)
      BY <2>1
    <3>4. CASE t \in times
      <4>1. PICK e \in found : e.at = t
        BY <3>4 DEF times
      <4>2. t \in batch /\ Holds(t) = "dismissed"
        BY <2>1, <2>4, <3>4 DEF Undoable
      <4>3. (\A r \in rows : ~Lives(r, t)) /\ (\A k \in 1..Len(saves) : ~Unsaved(k, t))
        BY <3>3, <4>2 DEF Carried
      <4>4. Holds(t)' = "kept"
        BY <1>1, <3>4, <4>2 DEF Holds
      <4>5. ASSUME NEW k \in 1..Len(saves'), Unsaved(k, t)'
            PROVE  k - Len(saves) \in 1..Len(added) /\ added[k - Len(saves)] = Save(e)
        <5>1. ~(k <= Len(saves))
          <6>1. ASSUME k <= Len(saves) PROVE FALSE
            <7>1. k \in 1..Len(saves)
              BY <1>10, <6>1
            <7> QED
              BY <3>2, <4>3, <4>5, <7>1
          <6> QED
            BY <6>1
        <5>2. k - Len(saves) \in 1..Len(added) /\ saves'[k] = added[k - Len(saves)]
          BY <1>9, <1>10, <5>1
        <5>3. saves'[k] \in new /\ saves'[k].at = t
          BY <1>9, <4>5, <5>2 DEF Unsaved
        <5>4. PICK f \in found : saves'[k].target = f.id /\ saves'[k].at = f.at /\ saves'[k] = Save(f)
          BY <1>7, <5>3
        <5>5. f.id = e.id /\ f.at = e.at
          BY <1>4, <2>1, <4>1, <5>3, <5>4 DEF Undoable
        <5> QED
          BY <5>2, <5>4, <5>5
      <4>6. \A k, j \in 1..Len(saves') : Unsaved(k, t)' /\ Unsaved(j, t)' => k = j
        <5> SUFFICES ASSUME NEW k \in 1..Len(saves'), NEW j \in 1..Len(saves'), Unsaved(k, t)', Unsaved(j, t)'
                     PROVE  k = j
          OBVIOUS
        <5>1. k - Len(saves) = j - Len(saves)
          <6>1. /\ k - Len(saves) \in 1..Len(added) /\ added[k - Len(saves)] = Save(e)
                /\ j - Len(saves) \in 1..Len(added) /\ added[j - Len(saves)] = Save(e)
            BY <4>5
          <6> QED
            BY <1>9, <6>1
        <5> QED
          BY <1>10, <5>1
      <4>7. \E k \in 1..Len(saves') : Unsaved(k, t)'
        <5>1. PICK m \in 1..Len(added) : added[m] = Save(e)
          BY <1>8, <1>9
        <5> DEFINE k == m + Len(saves)
        <5>2. k \in 1..Len(saves') /\ ~(k <= Len(saves)) /\ k - Len(saves) = m
          BY <1>9, <1>10
        <5> HIDE DEF k
        <5>3. saves'[k] = Save(e)
          BY <1>10, <5>1, <5>2
        <5> QED
          BY <4>1, <5>2, <5>3 DEF Unsaved
      <4> QED
        BY <1>1, <3>1, <4>3, <4>4, <4>6, <4>7 DEF Carried
    <3>5. CASE t \notin times
      <4>1. \A k \in 1..Len(saves') : Unsaved(k, t)' => k \in 1..Len(saves)
        <5> SUFFICES ASSUME NEW k \in 1..Len(saves'), Unsaved(k, t)', ~(k <= Len(saves)) PROVE FALSE
          BY <1>10
        <5>1. k - Len(saves) \in 1..Len(added) /\ saves'[k] = added[k - Len(saves)]
          BY <1>9, <1>10
        <5>2. saves'[k] \in new /\ saves'[k].at = t
          BY <1>9, <5>1 DEF Unsaved
        <5>3. PICK f \in found : saves'[k].at = f.at
          BY <1>7, <5>2
        <5> QED
          BY <3>5, <5>2, <5>3 DEF times
      <4>2. Holds(t)' = Holds(t)
        BY <1>1, <2>1, <3>5 DEF Holds, Undoable
      <4>3. (\E k \in 1..Len(saves') : Unsaved(k, t)') <=> (\E k \in 1..Len(saves) : Unsaved(k, t))
        BY <3>2, <4>1
      <4>4. \A k, j \in 1..Len(saves') : Unsaved(k, t)' /\ Unsaved(j, t)' => k = j
        BY <3>2, <3>3, <4>1 DEF Carried
      <4>5. \A r \in rows', k \in 1..Len(saves') : ~(Lives(r, t)' /\ Unsaved(k, t)')
        BY <1>1, <3>1, <3>2, <3>3, <4>1 DEF Carried
      <4> QED
        BY <1>1, <3>1, <3>3, <4>2, <4>3, <4>4, <4>5 DEF Carried
    <3> QED
      BY <3>4, <3>5
  <2>3. Undoable'
    BY <1>1 DEF Undoable
  <2> QED
    BY <2>2, <2>3
<1> QED
  BY <1>1, <1>2, <1>15, <1>17, <1>18 DEF RemindersInv

\* No rows, no requests, and nothing asked for.
LEMMA RemindersInitInv == RemindersInit => RemindersInv
<1> SUFFICES ASSUME RemindersInit PROVE RemindersInv
  OBVIOUS
<1>1. MaxRows \in Nat /\ Times \in SUBSET Nat /\ Times # {} /\ IsFiniteSet(Times)
  BY RemindersAssumption
<1>2. Max(Times) \in Nat
  BY <1>1, Largest
<1>3. <<>> \in Seq(Entries) /\ <<>> \in Seq(Saves) /\ Len(<<>>) = 0
  OBVIOUS
<1>4. RemindersTypeOK
  BY <1>1, <1>2, <1>3, RemindersTyped DEF RemindersInit, Statuses, Off
<1>5. IsFiniteSet(rows) /\ IsFiniteSet(answer)
  BY FS_EmptySet DEF RemindersInit
<1>6. \A id, t : ~Knows(id, t)
  BY <1>3 DEF RemindersInit, Knows
<1>7. KnownOnce
  BY <1>6 DEF RemindersInit, KnownOnce
<1>8. \A t \in Times : Carried(t)
  BY <1>3 DEF RemindersInit, Carried, Holds
<1>9. Undoable
  BY DEF RemindersInit, Undoable
<1> QED
  BY <1>4, <1>5, <1>7, <1>8, <1>9 DEF RemindersInv

\* No step of the list breaks the invariant.
LEMMA RemindersNextInv == RemindersInv /\ [RemindersNext]_reminder_vars => RemindersInv'
<1> SUFFICES ASSUME RemindersInv, [RemindersNext]_reminder_vars PROVE RemindersInv'
  OBVIOUS
<1>1. CASE UNCHANGED reminder_vars
  <2>1. UNCHANGED <<clock, rows, created, reminders, prior_status, reminder_undo, batch, saves,
                    deletions, answer, timer, asked_for, dropped, reminder_slips>>
    BY <1>1 DEF reminder_vars, server_vars, undo_vars, read_vars, timer_vars, history_vars
  <2>2. RemindersTypeOK' /\ IsFiniteSet(answer')
    BY <2>1, RemindersBounds DEF RemindersTypeOK
  <2>3. \A id, t : Knows(id, t)' <=> Knows(id, t)
    BY <2>1 DEF Knows
  <2>4. \A r, q \in answer' : r.id = q.id => r = q
    BY <2>1, RemindersBounds DEF KnownOnce
  <2> QED
    BY <2>1, <2>2, <2>3, <2>4, SameRequests
<1>2. CASE DismissReminder
  <2>1. PICK e \in Lane("upcoming") \cup Lane("fired") : dismiss({e})
    BY <1>2 DEF DismissReminder
  <2>2. \A f \in {e} : f \in ToSet(reminders) /\ f.status \in {"upcoming", "fired"}
    BY <2>1 DEF Lane
  <2> QED
    BY <2>1, <2>2, DismissRowsInv
<1>3. CASE ClearReminders
  <2>1. PICK status \in {"upcoming", "fired"} : dismiss(Lane(status))
    BY <1>3 DEF ClearReminders
  <2>2. \A f \in Lane(status) : f \in ToSet(reminders) /\ f.status \in {"upcoming", "fired"}
    BY <2>1 DEF Lane
  <2> QED
    BY <2>1, <2>2, DismissRowsInv
<1>4. CASE \E t \in Times : ToolSets(t)
  BY <1>4, ToolSetsInv
<1>5. CASE \E i \in DOMAIN saves : SaveStored(i) \/ SaveAnswered(i) \/ SaveFails(i)
  <2>1. DOMAIN saves = 1..Len(saves)
    BY RemindersBounds, RemindersTyped
  <2> QED
    BY <1>5, <2>1, SaveStoredInv, SaveEndsInv
<1>6. CASE \E id \in deletions : DeletionHandled(id) \/ DeletionFails(id)
  BY <1>6, DeletionInv
<1> QED
  BY <1>1, <1>2, <1>3, <1>4, <1>5, <1>6, TimerElapsesInv, TimePassesInv, ServerFiresInv, ReadInv,
     ListArrivesInv, UndoRemindersInv
     DEF RemindersNext

\* With no request under way, what holds a reminder is its row.
LEMMA UndoKeeps == RemindersInv => UndoPersists
<1> SUFFICES ASSUME RemindersInv PROVE UndoPersists
  OBVIOUS
<1>1. RemindersTypeOK
  BY DEF RemindersInv
<1>2. ASSUME AllAnswered, NEW t \in Times
      PROVE  Cardinality(RowsOf(t)) = IF asked_for[t] = "kept" /\ t \notin dropped THEN 1 ELSE 0
  <2>1. Carried(t) /\ Len(saves) = 0
    BY <1>2 DEF RemindersInv, AllAnswered
  <2> DEFINE R == RowsOf(t)
  <2>2. \A r : r \in R <=> r \in rows /\ Lives(r, t)
    BY <1>2 DEF Lives, RowsOf, AllAnswered
  <2>3. \A r, q \in R : r = q
    BY <2>1, <2>2 DEF Carried
  <2>4. Holds(t) = "kept" <=> \E r : r \in R
    <3>1. ~(\E i \in 1..Len(saves) : Unsaved(i, t))
      BY <2>1
    <3>2. (\E r \in rows : Lives(r, t)) <=> (\E r : r \in R)
      BY <2>2
    <3> QED
      BY <2>1, <3>1, <3>2 DEF Carried
  <2> HIDE DEF R
  <2>5. CASE Holds(t) = "kept"
    <3>1. PICK r : r \in R
      BY <2>4, <2>5
    <3>2. R = {r}
      BY <2>3, <3>1
    <3>3. Cardinality(R) = 1
      BY <3>2, FS_Singleton
    <3> QED
      BY <2>5, <3>3 DEF R, Holds
  <2>6. CASE Holds(t) # "kept"
    <3>1. R = {}
      BY <2>4, <2>6
    <3>2. Cardinality(R) = 0
      BY <3>1, FS_EmptySet
    <3> QED
      BY <2>6, <3>2 DEF R, Holds
  <2> QED
    BY <2>5, <2>6
<1> QED
  BY <1>1, <1>2 DEF UndoPersists

\* Whatever the order in which deletions and re-creations reach the server, and
\* whatever stale lists come in between, a reminder that was taken back has one row
\* once the requests are through, and a dismissed one has none; one taken back when
\* the list had lost its entry has none either.
THEOREM UndoAlwaysPersists == PhoneSpec => []UndoPersists
<1>1. PhoneInit => RemindersInv
  BY RemindersInitInv DEF PhoneInit
<1>2. [PhoneNext]_app_vars => [RemindersNext]_reminder_vars
  BY DEF PhoneNext, app_vars, reminder_vars
<1>3. RemindersInv => UndoPersists
  BY UndoKeeps
<1> QED
  BY <1>1, <1>2, <1>3, RemindersNextInv, PTL DEF PhoneSpec

-----------------------------------------------------------------------------
(* The scrape *)

\* The pages the first n steps of a script may lead to.
PagesAfter(steps, n) ==
  IF steps = herokuapp
  THEN <<{"home"}, {"home"}, {"keys"}, {"keys"}, {"login"}, {"login"}, {"login"}, {"login"},
         {"secure", "refused"}>>[n + 1]
  ELSE <<{"page1"}, {"page1"}, {"page2"}, {"page3"}>>[n + 1]

\* As long as no click was outrun: what ran is the steps behind the pointer, and
\* the page, or the one on its way, is where they lead.
ScrapeInv ==
  /\ ScrapeTypeOK
  /\ script = "settling" => ran # <<>>
  /\ job = "queued" => script = "loading"
  /\ script = "posted" <=> job \in {"bills", "empty", "failed", "timed_out"}
  /\ ~outran =>
       /\ \A i \in DOMAIN ran : ran[i] = i
       /\ script \in {"loading", "stepping", "settling", "waiting"} => window_name = Len(ran)
       /\ script \in {"loading", "stepping"} => next_page = "none" /\ page \in PagesAfter(NAV_STEPS, Len(ran))
       /\ script \in {"settling", "waiting"} =>
            next_page # "none" /\ next_page \in PagesAfter(NAV_STEPS, Len(ran))
       /\ script = "extracting" => next_page = "none"
       /\ script = "extracting" \/ job = "bills" =>
            Len(ran) = Len(NAV_STEPS) /\ page \in {LastPage(NAV_STEPS), "refused"}

LEMMA ScriptLengths == Len(herokuapp) = 8 /\ Len(toscrape_js) = 3 /\ herokuapp # toscrape_js
<1>1. Len(herokuapp) = 8
  BY DEF herokuapp
<1>2. Len(toscrape_js) = 3
  BY DEF toscrape_js
<1> QED
  BY <1>1, <1>2

\* Where each step leads, if it finds its element where the steps before it led.
LeadsOn(steps, n) ==
  /\ "none" \notin PagesAfter(steps, n + 1)
  /\ steps[n + 1].type = "goto" => steps[n + 1].to \in PagesAfter(steps, n + 1)
  /\ steps[n + 1].type = "click" =>
       \A p \in PagesAfter(steps, n) : Leads(p, steps[n + 1].to) \subseteq PagesAfter(steps, n + 1)
  /\ steps[n + 1].type \in {"fill", "wait_for"} =>
       PagesAfter(steps, n) \subseteq PagesAfter(steps, n + 1)

LEMMA StepLeads == ASSUME NEW steps \in Scripts, NEW n \in 0..Len(steps) - 1 PROVE LeadsOn(steps, n)
<1> USE DEF LeadsOn, Leads, Goto, Click, Fill, WaitFor
<1>1. CASE steps = herokuapp
  <2>1. n \in {0, 1, 2, 3, 4, 5, 6, 7}
    BY <1>1, ScriptLengths
  <2>2. CASE n = 0
    BY <1>1, <2>2 DEF herokuapp, PagesAfter
  <2>3. CASE n = 1
    BY <1>1, <2>3 DEF herokuapp, PagesAfter
  <2>4. CASE n = 2
    BY <1>1, <2>4 DEF herokuapp, PagesAfter
  <2>5. CASE n = 3
    BY <1>1, <2>5 DEF herokuapp, PagesAfter
  <2>6. CASE n = 4
    BY <1>1, <2>6 DEF herokuapp, PagesAfter
  <2>7. CASE n = 5
    BY <1>1, <2>7 DEF herokuapp, PagesAfter
  <2>8. CASE n = 6
    BY <1>1, <2>8 DEF herokuapp, PagesAfter
  <2>9. CASE n = 7
    BY <1>1, <2>9 DEF herokuapp, PagesAfter
  <2> QED
    BY <2>1, <2>2, <2>3, <2>4, <2>5, <2>6, <2>7, <2>8, <2>9
<1>2. CASE steps = toscrape_js
  <2>1. steps # herokuapp /\ n \in {0, 1, 2}
    BY <1>2, ScriptLengths
  <2>2. /\ steps[1] = Goto("page1")
        /\ steps[2] = Click({"page1", "page2"}, "next")
        /\ steps[3] = Click({"page1", "page2"}, "next")
    BY <1>2 DEF toscrape_js
  <2>3. /\ PagesAfter(steps, 0) = {"page1"} /\ PagesAfter(steps, 1) = {"page1"}
        /\ PagesAfter(steps, 2) = {"page2"} /\ PagesAfter(steps, 3) = {"page3"}
    BY <2>1 DEF PagesAfter
  <2>4. CASE n = 0
    BY <2>2, <2>3, <2>4
  <2>5. CASE n = 1
    BY <2>2, <2>3, <2>5
  <2>6. CASE n = 2
    BY <2>2, <2>3, <2>6
  <2> QED
    BY <2>1, <2>4, <2>5, <2>6
<1> QED
  BY <1>1, <1>2 DEF Scripts

LEMMA ScriptEnds ==
  ASSUME NEW steps \in Scripts
  PROVE  /\ FirstPage(steps) \in PagesAfter(steps, 0)
         /\ PagesAfter(steps, Len(steps)) \subseteq {LastPage(steps), "refused"}
         /\ Len(steps) \in Nat \ {0}
<1>1. CASE steps = herokuapp
  BY <1>1, ScriptLengths DEF PagesAfter, FirstPage, LastPage
<1>2. CASE steps = toscrape_js
  <2>1. steps # herokuapp /\ Len(steps) = 3
    BY <1>2, ScriptLengths
  <2> QED
    BY <2>1 DEF PagesAfter, FirstPage, LastPage
<1> QED
  BY <1>1, <1>2 DEF Scripts

LEMMA ScrapeInitInv == ScrapeInit => ScrapeInv
<1> SUFFICES ASSUME ScrapeInit PROVE ScrapeInv
  OBVIOUS
<1>1. ran = <<>> /\ NAV_STEPS \in Scripts
  BY DEF ScrapeInit
<1>0. Len(<<>>) = 0 /\ <<>> \in Seq(1..Len(NAV_STEPS))
  OBVIOUS
<1>2. 0 \in 0..Len(NAV_STEPS) /\ 0 \in 0..MaxRetries
  BY <1>1, ScriptEnds, ScriptAssumption
<1>3. page \in PagesAfter(NAV_STEPS, 0)
  BY <1>1, ScriptEnds DEF ScrapeInit
<1>4. ScrapeTypeOK
  BY <1>0, <1>1, <1>2 DEF ScrapeInit, ScrapeTypeOK
<1> QED
  BY <1>0, <1>1, <1>3, <1>4 DEF ScrapeInit, ScrapeInv

LEMMA ScrapeNextInv == ScrapeInv /\ [ScrapeNext]_scrape_vars => ScrapeInv'
<1> SUFFICES ASSUME ScrapeInv, [ScrapeNext]_scrape_vars PROVE ScrapeInv'
  OBVIOUS
<1>a. NAV_STEPS \in Scripts /\ ran \in Seq(1..Len(NAV_STEPS)) /\ window_name \in 0..Len(NAV_STEPS)
  BY DEF ScrapeInv, ScrapeTypeOK
<1>b. /\ Len(NAV_STEPS) \in Nat \ {0}
      /\ FirstPage(NAV_STEPS) \in PagesAfter(NAV_STEPS, 0)
      /\ PagesAfter(NAV_STEPS, Len(NAV_STEPS)) \subseteq {LastPage(NAV_STEPS), "refused"}
  BY <1>a, ScriptEnds
<1>c. /\ Len(ran) \in Nat /\ DOMAIN ran = 1..Len(ran) /\ (Len(ran) = 0 <=> ran = <<>>)
      /\ \A i \in 1..Len(ran) : ran[i] \in 1..Len(NAV_STEPS)
  BY <1>a
<1>1. CASE RunJob
  BY <1>1 DEF RunJob, ScrapeInv, ScrapeTypeOK
<1>2. CASE JobIsGivenUp
  BY <1>2 DEF JobIsGivenUp, Posted, ScrapeInv, ScrapeTypeOK
<1>3. CASE Navigates
  BY <1>3 DEF Navigates, ScrapeInv, ScrapeTypeOK
<1>4. CASE Injected
  <2>1. CASE Extracting /\ UNCHANGED ran /\ window_name >= Len(NAV_STEPS)
    <3>1. window_name = Len(NAV_STEPS) /\ 0 \in 0..Len(NAV_STEPS) /\ MaxRetries \in 0..MaxRetries
      BY <1>a, <1>b, <2>1, ScriptAssumption
    <3> QED
      BY <1>b, <1>4, <2>1, <3>1 DEF Injected, Extracting, ScrapeInv, ScrapeTypeOK
  <2>2. CASE script' = "stepping" /\ UNCHANGED <<window_name, attempts>>
             /\ ran' = (IF window_name = 0 THEN <<>> ELSE ran)
    <3>1. script = "loading" /\ job = "running" /\ UNCHANGED <<NAV_STEPS, page, next_page, job, outran>>
      BY <1>4 DEF Injected
    <3>2. ran' \in Seq(1..Len(NAV_STEPS))
      <4>1. <<>> \in Seq(1..Len(NAV_STEPS))
        OBVIOUS
      <4> QED
        BY <1>a, <2>2, <4>1
    <3>3. ~outran => ran' = ran
      BY <1>c, <2>2, <3>1 DEF ScrapeInv
    <3> QED
      BY <2>2, <3>1, <3>2, <3>3 DEF ScrapeInv, ScrapeTypeOK
  <2> QED
    BY <1>4, <2>1, <2>2 DEF Injected
<1>5. CASE Step
  <2> DEFINE w == window_name + 1
             step == NAV_STEPS[w]
  <2>1. /\ job = "running" /\ script = "stepping" /\ window_name < Len(NAV_STEPS)
        /\ ran' = Append(ran, w) /\ window_name' = w
        /\ UNCHANGED <<NAV_STEPS, page, attempts, job, outran>>
    BY <1>5 DEF Step, AfterClick
  <2>2. w \in 1..Len(NAV_STEPS) /\ window_name \in 0..Len(NAV_STEPS) - 1
    BY <1>a, <1>b, <2>1
  <2>3. /\ ran' \in Seq(1..Len(NAV_STEPS)) /\ Len(ran') = Len(ran) + 1 /\ ran' # <<>>
        /\ ran'[Len(ran) + 1] = w /\ \A i \in 1..Len(ran) : ran'[i] = ran[i]
    BY <1>a, <2>1, <2>2
  <2>4. ~outran =>
         /\ \A i \in DOMAIN ran : ran[i] = i
         /\ window_name = Len(ran) /\ page \in PagesAfter(NAV_STEPS, window_name)
         /\ next_page = "none"
    BY <2>1 DEF ScrapeInv
  <2>5. ~outran => w = Len(ran') /\ \A i \in DOMAIN ran' : ran'[i] = i
    BY <1>a, <1>c, <2>3, <2>4, SMTT(30)
  <2>6. LeadsOn(NAV_STEPS, window_name)
    BY <1>a, <2>2, StepLeads
  <2>7. \/ step.type = "goto" /\ script' = "waiting" /\ next_page' = step.to
        \/ step.type = "click" /\ script' = "settling" /\ next_page' \in Leads(page, step.to)
        \/ step.type \in {"fill", "wait_for"} /\ UNCHANGED <<script, next_page>>
    BY <1>5 DEF Step
  <2>8. ~outran =>
          /\ script' \in {"settling", "waiting"} =>
               next_page' # "none" /\ next_page' \in PagesAfter(NAV_STEPS, w)
          /\ script' = "stepping" => next_page' = "none" /\ page \in PagesAfter(NAV_STEPS, w)
    BY <2>1, <2>4, <2>6, <2>7 DEF LeadsOn
  <2>9. ScrapeTypeOK'
    BY <1>a, <1>b, <2>1, <2>2, <2>3, <2>7 DEF ScrapeInv, ScrapeTypeOK
  <2>10. script' \in {"waiting", "settling", "stepping"} /\ job' = "running"
    BY <2>1, <2>7
  <2> QED
    BY <2>1, <2>3, <2>5, <2>8, <2>9, <2>10 DEF ScrapeInv
<1>6. CASE StepFails
  BY <1>6 DEF StepFails, Posted, ScrapeInv, ScrapeTypeOK
<1>7. CASE Settled
  <2>1. ran # <<>> /\ outran'
    BY <1>7 DEF Settled, ScrapeInv
  <2>2. ran[Len(ran)] \in 0..Len(NAV_STEPS)
    BY <1>b, <1>c, <2>1
  <2> QED
    BY <1>7, <2>1, <2>2 DEF Settled, ScrapeInv, ScrapeTypeOK
<1>8. CASE StepsAreOver
  <2>1. window_name = Len(NAV_STEPS) /\ 0 \in 0..Len(NAV_STEPS) /\ MaxRetries \in 0..MaxRetries
    BY <1>8, <1>a, <1>b, ScriptAssumption DEF StepsAreOver
  <2> QED
    BY <1>8, <1>b, <2>1 DEF StepsAreOver, Extracting, ScrapeInv, ScrapeTypeOK
<1>9. CASE Extract
  <2>1. attempts' \in 0..MaxRetries
    BY <1>9, ScriptAssumption DEF Extract, ScrapeInv, ScrapeTypeOK
  <2> QED
    BY <1>9, <2>1 DEF Extract, Posted, ScrapeInv, ScrapeTypeOK
<1>10. CASE UNCHANGED scrape_vars
  BY <1>10 DEF scrape_vars, ScrapeInv, ScrapeTypeOK
<1> QED
  BY <1>1, <1>2, <1>3, <1>4, <1>5, <1>6, <1>7, <1>8, <1>9, <1>10 DEF ScrapeNext

\* However pages load, steps fail and the job times out, the steps of a script run
\* on the pages they are written for, one after the other.
THEOREM StepsAlwaysInOrder == PhoneSpec => []StepsInOrder
<1>1. PhoneInit => ScrapeInv
  BY ScrapeInitInv DEF PhoneInit
<1>2. [PhoneNext]_app_vars => [ScrapeNext]_scrape_vars
  BY DEF PhoneNext, app_vars, scrape_vars
<1>3. ScrapeInv => StepsInOrder
  BY DEF ScrapeInv, StepsInOrder
<1> QED
  BY <1>1, <1>2, <1>3, ScrapeNextInv, PTL DEF PhoneSpec

-----------------------------------------------------------------------------
(* The voice stream *)

\* What a stream has sent past the handshake: frames in their order, the n-th first.
Numbered(s, n, f) == \A i \in 1..Len(s) : s[i] + 1 = f + n + i

\* Between the bridge, which has taken n frames, and the microphone nothing is missing.
Connects(s, n, f, c, state) ==
  Numbered(s, n, f) /\ (state = "open" => f + n + Len(s) = c + 1)

Shakes(s, f) == s # <<>> /\ s[1] = Handshake /\ \A i \in 2..Len(s) : s[i] + 2 = f + i

UplinkTypeOK ==
  /\ captured \in Nat /\ first \in Nat \ {0}
  /\ socket \in {"none", "connecting", "opening", "open", "closed"} /\ flushed \in BOOLEAN
  /\ pending \in Seq(Nat) /\ wire \in Seq(Nat) /\ queued \in Seq(Nat) /\ heard \in Seq(Nat)
  /\ auth_state \in {"pending", "authorizing", "authorized", "failed"}
  /\ upstream \in {"none", "connecting", "open", "closed"}

\* Until the phone has flushed its queue nothing has left it; until the bridge has
\* the handshake it holds nothing, and until it is through ap-voice has nothing.
UplinkInv ==
  /\ UplinkTypeOK
  /\ socket \in {"none", "connecting", "opening"} => ~flushed
  /\ ~flushed => wire = <<>> /\ auth_state = "pending"
  /\ socket \in {"connecting", "opening"} =>
       Numbered(pending, 0, first) /\ first + Len(pending) = captured + 1
  /\ socket = "open" => flushed
  /\ socket = "closed" => wire = <<>>
  /\ auth_state = "pending" =>
       /\ queued = <<>>
       /\ socket = "open" => Shakes(wire, first) /\ first + Len(wire) = captured + 2
  /\ auth_state # "authorized" => upstream = "none" /\ heard = <<>>
  /\ auth_state = "authorized" => upstream # "none"
  /\ auth_state = "failed" => socket = "closed"
  /\ auth_state = "authorizing" \/ upstream = "connecting" =>
       heard = <<>> /\ Numbered(queued, 0, first) /\ Connects(wire, Len(queued), first, captured, socket)
  /\ upstream = "open" => queued = <<>> /\ heard # <<>> /\ Connects(wire, Len(heard) - 1, first, captured, socket)
  /\ upstream = "closed" => socket = "closed"
  /\ heard # <<>> => Shakes(heard, first)

\* A frame more keeps the order; the first frame taken leaves the rest one on.
LEMMA LongerInOrder ==
  ASSUME NEW f0 \in Nat, NEW s \in Seq(Nat), NEW n \in Nat, NEW f \in Nat,
         Numbered(s, n, f0), f0 + n + Len(s) = f
  PROVE  Numbered(Append(s, f), n, f0)
<1>1. Len(s) \in Nat /\ Len(Append(s, f)) = Len(s) + 1
  OBVIOUS
<1>2. \A i \in 1..Len(s) : Append(s, f)[i] = s[i]
  OBVIOUS
<1>3. Append(s, f)[Len(s) + 1] = f
  OBVIOUS
<1> QED
  BY <1>1, <1>2, <1>3 DEF Numbered

LEMMA TailInOrder ==
  ASSUME NEW f0 \in Nat, NEW s \in Seq(Nat), NEW n \in Nat, Numbered(s, n, f0), s # <<>>
  PROVE  Numbered(Tail(s), n + 1, f0) /\ Head(s) + 1 = f0 + n + 1
<1>1. Len(s) \in Nat \ {0} /\ Len(Tail(s)) = Len(s) - 1 /\ Tail(s) \in Seq(Nat) /\ Head(s) = s[1]
  OBVIOUS
<1>2. \A i \in 1..Len(Tail(s)) : Tail(s)[i] = s[i + 1] /\ s[i + 1] \in Nat
  OBVIOUS
<1>3. ASSUME NEW i \in 1..Len(Tail(s)) PROVE Tail(s)[i] + 1 = f0 + (n + 1) + i
  <2>1. i + 1 \in 1..Len(s) /\ i \in Nat
    BY <1>1
  <2>2. s[i + 1] + 1 = f0 + n + (i + 1)
    BY <2>1 DEF Numbered
  <2> QED
    BY <1>2, <2>1, <2>2
<1>4. s[1] + 1 = f0 + n + 1
  BY <1>1 DEF Numbered
<1> QED
  BY <1>1, <1>3, <1>4 DEF Numbered

\* The handshake, then frames in order.
LEMMA ShakesFirst ==
  ASSUME NEW f0 \in Nat, NEW s \in Seq(Nat), Numbered(s, 0, f0)
  PROVE  Shakes(<<Handshake>> \o s, f0) /\ Len(<<Handshake>> \o s) = Len(s) + 1
<1> DEFINE t == <<Handshake>> \o s
<1>1. Len(s) \in Nat /\ t \in Seq(Nat) /\ Len(t) = Len(s) + 1 /\ t[1] = Handshake /\ t # <<>>
  BY DEF Handshake
<1>2. \A i \in 2..Len(t) : t[i] = s[i - 1] /\ s[i - 1] \in Nat
  BY <1>1
<1>3. ASSUME NEW i \in 2..Len(t) PROVE t[i] + 2 = f0 + i
  <2>1. i - 1 \in 1..Len(s) /\ i \in Nat
    BY <1>1
  <2>2. s[i - 1] + 1 = f0 + 0 + (i - 1)
    BY <2>1 DEF Numbered
  <2> QED
    BY <1>2, <2>1, <2>2, SMTT(30)
<1> HIDE DEF t
<1>4. Shakes(t, f0) /\ Len(t) = Len(s) + 1
  BY <1>1, <1>3 DEF Shakes
<1> QED
  BY <1>4 DEF t

LEMMA LongerShakes ==
  ASSUME NEW f0 \in Nat, NEW s \in Seq(Nat), Shakes(s, f0), NEW f \in Nat, f + 1 = f0 + Len(s)
  PROVE  Shakes(Append(s, f), f0) /\ Append(s, f) \in Seq(Nat) /\ Len(Append(s, f)) = Len(s) + 1
<1> DEFINE t == Append(s, f)
<1>1. /\ Len(s) \in Nat \ {0} /\ t \in Seq(Nat) /\ Len(t) = Len(s) + 1 /\ t # <<>>
      /\ \A i \in 1..Len(s) : t[i] = s[i]
      /\ t[Len(s) + 1] = f
  BY DEF Shakes
<1> HIDE DEF t
<1>2. ASSUME NEW i \in 2..Len(t) PROVE t[i] + 2 = f0 + i
  <2>1. CASE i \in 2..Len(s)
    <3>1. s[i] + 2 = f0 + i /\ i \in 1..Len(s)
      BY <1>1, <2>1 DEF Shakes
    <3> QED
      BY <1>1, <3>1
  <2>2. CASE i = Len(s) + 1
    BY <1>1, <2>2
  <2> QED
    BY <1>1, <2>1, <2>2
<1>3. t[1] = Handshake
  <2>1. 1 \in 1..Len(s) /\ s[1] = Handshake
    BY <1>1 DEF Shakes
  <2> QED
    BY <1>1, <2>1
<1>4. Shakes(t, f0)
  BY <1>1, <1>2, <1>3 DEF Shakes
<1> QED
  BY <1>1, <1>4 DEF t

\* Without the handshake the rest is in order.
LEMMA ShakenInOrder ==
  ASSUME NEW f0 \in Nat, NEW s \in Seq(Nat), Shakes(s, f0)
  PROVE  /\ Numbered(Tail(s), 0, f0) /\ Tail(s) \in Seq(Nat) /\ Len(Tail(s)) + 1 = Len(s)
         /\ Head(s) = Handshake
<1>1. /\ Len(s) \in Nat \ {0} /\ Tail(s) \in Seq(Nat) /\ Len(Tail(s)) = Len(s) - 1
      /\ Head(s) = s[1]
      /\ \A i \in 1..Len(Tail(s)) : Tail(s)[i] = s[i + 1] /\ s[i + 1] \in Nat
  BY DEF Shakes
<1>2. ASSUME NEW i \in 1..Len(Tail(s)) PROVE Tail(s)[i] + 1 = f0 + 0 + i
  <2>1. i + 1 \in 2..Len(s) /\ i \in Nat
    BY <1>1
  <2>2. s[i + 1] + 2 = f0 + (i + 1)
    BY <2>1 DEF Shakes
  <2> QED
    BY <1>1, <2>1, <2>2
<1> QED
  BY <1>1, <1>2 DEF Numbered, Shakes

LEMMA UplinkInitInv == UplinkInit => UplinkInv
<1> SUFFICES ASSUME UplinkInit PROVE UplinkInv
  OBVIOUS
<1>1. UplinkTypeOK
    <2>1. <<>> \in Seq(Nat)
    OBVIOUS
  <2> QED
    BY <2>1, 0 \in Nat, 1 \in Nat \ {0}, Zenon DEF UplinkInit, UplinkTypeOK
<1> QED
  BY <1>1 DEF UplinkInit, UplinkInv

LEMMA OpenStreamInv == ASSUME UplinkInv, open_voice_stream PROVE UplinkInv'
<1> PICK n \in 0..captured :
      first' = captured - n + 1 /\ pending' = [i \in 1..n |-> captured - n + i]
  BY DEF open_voice_stream
<1>1. captured \in Nat /\ n \in Nat
  BY DEF UplinkInv, UplinkTypeOK
<1>2. /\ socket = "none" /\ socket' = "connecting"
      /\ UNCHANGED <<captured, flushed, wire, bridge_vars, heard>>
  BY DEF open_voice_stream
<1>3. first' \in Nat \ {0}
  BY <1>1
<1>4. pending' \in Seq(Nat) /\ Len(pending') = n
  <2>1. \A i \in 1..n : captured - n + i \in Nat
    BY <1>1
  <2>2. pending' \in [1..n -> Nat]
    BY <2>1
  <2> QED
    BY <1>1, <2>2
<1>5. \A i \in 1..n : pending'[i] + 1 = first' + 0 + i
  BY <1>1
<1>6. first' + Len(pending') = captured + 1
  BY <1>1, <1>4
<1>7. UplinkTypeOK'
  BY <1>2, <1>3, <1>4 DEF UplinkInv, UplinkTypeOK, bridge_vars
<1>8. Numbered(pending', 0, first')
  BY <1>4, <1>5 DEF Numbered
<1> QED
  BY <1>2, <1>6, <1>7, <1>8 DEF UplinkInv, Connects, bridge_vars

LEMMA SocketOpensInv == ASSUME UplinkInv, SocketOpens PROVE UplinkInv'
BY DEF SocketOpens, UplinkInv, UplinkTypeOK, Connects, bridge_vars

LEMMA OnopenInv == ASSUME UplinkInv, onopen PROVE UplinkInv'
<1>1. /\ socket = "opening" /\ socket' = "open" /\ flushed' = TRUE /\ pending' = <<>>
      /\ wire' = wire \o <<Handshake>> \o pending
      /\ UNCHANGED <<captured, first, bridge_vars, heard>>
  BY DEF onopen
<1>2. /\ wire = <<>> /\ auth_state = "pending" /\ Numbered(pending, 0, first)
      /\ first + Len(pending) = captured + 1
      /\ pending \in Seq(Nat) /\ first \in Nat /\ captured \in Nat /\ Len(pending) \in Nat
  BY <1>1 DEF UplinkInv, UplinkTypeOK
<1>3. wire' = <<Handshake>> \o pending
  BY <1>1, <1>2 DEF Handshake
<1>4. Shakes(wire', first) /\ Len(wire') = Len(pending) + 1 /\ wire' \in Seq(Nat)
  BY <1>2, <1>3, ShakesFirst DEF Handshake
<1>5. Shakes(wire', first') /\ first' + Len(wire') = captured' + 2
  BY <1>1, <1>2, <1>4 DEF Shakes
<1>6. UplinkTypeOK'
  BY <1>1, <1>4 DEF UplinkInv, UplinkTypeOK, bridge_vars
<1> QED
  BY <1>1, <1>2, <1>5, <1>6 DEF UplinkInv, UplinkTypeOK, Connects, bridge_vars

LEMMA InputFrameInv == ASSUME UplinkInv, on_input_frame PROVE UplinkInv'
<1>1. /\ captured' = captured + 1 /\ captured' \in Nat /\ first \in Nat /\ captured \in Nat
      /\ UNCHANGED <<first, socket, flushed, bridge_vars, heard>>
      /\ pending \in Seq(Nat) /\ wire \in Seq(Nat)
      /\ Len(pending) \in Nat /\ Len(wire) \in Nat /\ Len(queued) \in Nat /\ Len(heard) \in Nat
  BY SMTT(30) DEF on_input_frame, UplinkInv, UplinkTypeOK
<1>2. CASE socket \in {"none", "closed"}
  <2>1. UNCHANGED <<pending, wire>>
    BY <1>2 DEF on_input_frame
  <2> QED
    BY <1>1, <1>2, <2>1 DEF UplinkInv, UplinkTypeOK, Connects, bridge_vars
<1>3. CASE socket \in {"connecting", "opening"}
  <2>1. pending' = Append(pending, captured') /\ wire' = wire
    BY <1>3 DEF on_input_frame, SendsLive, UplinkInv
  <2>2. Numbered(pending, 0, first) /\ first + 0 + Len(pending) = captured'
    BY <1>1, <1>3 DEF UplinkInv
  <2>3. Numbered(Append(pending, captured'), 0, first)
    BY <1>1, <2>2, LongerInOrder
  <2>4. pending' \in Seq(Nat) /\ Len(pending') = Len(pending) + 1
    BY <1>1, <2>1
  <2>5. Numbered(pending', 0, first') /\ first' + Len(pending') = captured' + 1
    BY <1>1, <2>1, <2>2, <2>3, <2>4 DEF Numbered
  <2> QED
    BY <1>1, <1>3, <2>1, <2>4, <2>5 DEF UplinkInv, UplinkTypeOK, Connects, bridge_vars
<1>4. CASE socket = "open"
  <2>1. wire' = Append(wire, captured') /\ UNCHANGED pending
    BY <1>4 DEF on_input_frame, SendsLive, UplinkInv
  <2>2. wire' \in Seq(Nat) /\ Len(wire') = Len(wire) + 1
    BY <1>1, <2>1
  <2>3. ASSUME NEW n \in Nat, Connects(wire, n, first, captured, socket) PROVE Numbered(wire', n, first) /\ first + n + Len(wire') = captured' + 1
    <3>1. Numbered(wire, n, first) /\ first + n + Len(wire) = captured'
      BY <1>1, <1>4, <2>3 DEF Connects
    <3>2. Numbered(Append(wire, captured'), n, first)
      BY <1>1, <3>1, LongerInOrder
    <3> QED
      BY <1>1, <2>1, <2>2, <3>1, <3>2
  <2>4. ASSUME Shakes(wire, first), first + Len(wire) = captured + 2
        PROVE  Shakes(wire', first) /\ first + Len(wire') = captured' + 2
    <3>1. captured' + 1 = first + Len(wire)
      BY <1>1, <2>4
    <3>2. Shakes(Append(wire, captured'), first)
      BY <1>1, <2>4, <3>1, LongerShakes
    <3> QED
      BY <1>1, <2>1, <2>2, <2>4, <3>2
  <2>5. UplinkTypeOK'
    BY <1>1, <2>1, <2>2 DEF UplinkInv, UplinkTypeOK, bridge_vars
  <2>6. auth_state = "pending" => Shakes(wire', first') /\ first' + Len(wire') = captured' + 2
    <3>1. auth_state = "pending" => Shakes(wire, first) /\ first + Len(wire) = captured + 2
      BY <1>4 DEF UplinkInv
    <3> QED
      BY <1>1, <2>4, <3>1 DEF Shakes
  <2>7. \A n \in Nat : Connects(wire, n, first, captured, socket) =>
                         Connects(wire', n, first', captured', socket')
    BY <1>1, <2>3 DEF Connects
  <2>8. upstream = "open" => Len(heard) - 1 \in Nat
    BY <1>1 DEF UplinkInv, UplinkTypeOK
  <2>9. auth_state = "authorizing" \/ upstream = "connecting" =>
          Connects(wire', Len(queued), first', captured', socket')
    BY <1>1, <2>7 DEF UplinkInv
  <2>10. upstream = "open" => Connects(wire', Len(heard) - 1, first', captured', socket')
    BY <2>7, <2>8 DEF UplinkInv
  <2> QED
    BY <1>1, <1>4, <2>1, <2>5, <2>6, <2>9, <2>10 DEF UplinkInv, bridge_vars
<1> QED
  BY <1>2, <1>3, <1>4 DEF UplinkInv, UplinkTypeOK

LEMMA TeardownInv == ASSUME UplinkInv, teardown PROVE UplinkInv'
<1>1. /\ socket' = "closed" /\ wire' = <<>> /\ socket \notin {"none", "closed"}
      /\ UNCHANGED <<captured, first, flushed, pending, bridge_vars, heard>>
  BY DEF teardown
<1>2. Numbered(<<>>, Len(queued), first) /\ Numbered(<<>>, Len(heard) - 1, first)
  BY DEF Numbered
<1>3. UplinkTypeOK'
  BY <1>1 DEF UplinkInv, UplinkTypeOK, bridge_vars
<1> QED
  BY <1>1, <1>2, <1>3 DEF UplinkInv, Connects, bridge_vars

LEMMA MessageInv == ASSUME UplinkInv, client_message PROVE UplinkInv'
<1>1. /\ wire # <<>> /\ wire' = Tail(wire)
      /\ UNCHANGED <<captured, first, flushed, pending, gone, upstream>>
      /\ first \in Nat /\ captured \in Nat /\ wire \in Seq(Nat) /\ queued \in Seq(Nat)
      /\ heard \in Seq(Nat) /\ Len(queued) \in Nat /\ Len(heard) \in Nat
  BY DEF client_message, UplinkInv, UplinkTypeOK
<1>2. flushed /\ socket = "open"
  BY <1>1 DEF UplinkInv, UplinkTypeOK
<1>3. CASE auth_state = "pending"
  <2>1. Shakes(wire, first) /\ first + Len(wire) = captured + 2 /\ queued = <<>>
        /\ upstream = "none" /\ heard = <<>>
    BY <1>2, <1>3 DEF UplinkInv
  <2>2. /\ Numbered(wire', 0, first) /\ wire' \in Seq(Nat) /\ Len(wire') + 1 = Len(wire)
        /\ Head(wire) = Handshake
    BY <1>1, <2>1, ShakenInOrder
  <2>3. auth_state' = "authorizing" /\ UNCHANGED <<socket, queued, heard>>
    BY <1>3, <2>2 DEF client_message, IsFirst
  <2>4. Numbered(queued', 0, first') /\ Len(queued') = 0
    BY <2>1, <2>3 DEF Numbered
  <2>5. Connects(wire', 0, first', captured', socket')
    BY <1>1, <1>2, <2>1, <2>2, <2>3 DEF Connects
  <2>6. UplinkTypeOK'
    BY <1>1, <2>2, <2>3 DEF UplinkInv, UplinkTypeOK
  <2> QED
    BY <1>1, <1>2, <2>1, <2>3, <2>4, <2>5, <2>6 DEF UplinkInv
<1>4. CASE auth_state # "pending"
  <2>1. /\ UNCHANGED <<auth_state, socket>>
        /\ IF upstream = "open" THEN heard' = Append(heard, Head(wire)) /\ UNCHANGED queued
                                ELSE queued' = Append(queued, Head(wire)) /\ UNCHANGED heard
    BY <1>4 DEF client_message, IsFirst
  <2>2. /\ wire' \in Seq(Nat) /\ Len(wire') + 1 = Len(wire) /\ Head(wire) \in Nat
        /\ Len(wire) \in Nat /\ Len(wire') \in Nat
    BY <1>1
  <2>3. ASSUME NEW n \in Nat, Connects(wire, n, first, captured, socket)
        PROVE  /\ Connects(wire', n + 1, first, captured, socket)
               /\ Head(wire) = first + n
    <3>1. Numbered(wire', n + 1, first) /\ Head(wire) + 1 = first + n + 1
      BY <1>1, <2>3, TailInOrder DEF Connects
    <3>2. first + n + Len(wire) = captured + 1
      BY <1>2, <2>3 DEF Connects
    <3>3. first + (n + 1) + Len(wire') = captured + 1
      BY <1>1, <2>2, <3>2
    <3>4. Head(wire) = first + n
      BY <1>1, <2>2, <3>1
    <3> QED
      BY <3>1, <3>3, <3>4 DEF Connects
  <2>4. CASE upstream = "open"
    <3>1. /\ heard' = Append(heard, Head(wire)) /\ queued' = <<>> /\ queued = <<>>
          /\ heard # <<>> /\ Shakes(heard, first) /\ auth_state = "authorized"
          /\ Connects(wire, Len(heard) - 1, first, captured, socket)
      BY <2>1, <2>4 DEF UplinkInv
    <3>2. Len(heard) - 1 \in Nat /\ Len(heard) \in Nat \ {0}
      BY <1>1, <3>1
    <3>3. /\ Connects(wire', Len(heard) - 1 + 1, first, captured, socket)
          /\ Head(wire) = first + (Len(heard) - 1)
      BY <2>3, <3>1, <3>2
    <3>4. Head(wire) + 1 = first + Len(heard) /\ Len(heard) - 1 + 1 = Len(heard)
      BY <1>1, <2>2, <3>2, <3>3
    <3>5. Shakes(heard', first) /\ heard' \in Seq(Nat) /\ Len(heard') = Len(heard) + 1
      BY <1>1, <2>2, <3>1, <3>4, LongerShakes
    <3>6. heard' # <<>> /\ Len(heard') - 1 = Len(heard)
      BY <1>1, <3>5 DEF Shakes
    <3>7. UplinkTypeOK'
      BY <1>1, <2>1, <2>2, <3>1, <3>5 DEF UplinkInv, UplinkTypeOK
    <3> QED
      BY <1>1, <1>2, <2>1, <2>4, <3>1, <3>3, <3>4, <3>5, <3>6, <3>7 DEF UplinkInv
  <2>5. CASE upstream # "open"
    <3>1. /\ queued' = Append(queued, Head(wire)) /\ heard' = heard
          /\ auth_state = "authorizing" \/ upstream = "connecting"
          /\ heard = <<>> /\ Numbered(queued, 0, first)
          /\ Connects(wire, Len(queued), first, captured, socket)
      BY <1>1, <1>2, <1>4, <2>1, <2>5 DEF UplinkInv, UplinkTypeOK
    <3>2. /\ Connects(wire', Len(queued) + 1, first, captured, socket)
          /\ Head(wire) = first + Len(queued)
      BY <1>1, <2>3, <3>1
    <3>3. Numbered(queued', 0, first)
      BY <1>1, <2>2, <3>1, <3>2, LongerInOrder
    <3>4. queued' \in Seq(Nat) /\ Len(queued') = Len(queued) + 1
      BY <1>1, <2>2, <3>1
    <3>5. UplinkTypeOK'
      BY <1>1, <2>1, <2>2, <3>1, <3>4 DEF UplinkInv, UplinkTypeOK
    <3> QED
      BY <1>1, <1>2, <1>4, <2>1, <2>5, <3>1, <3>2, <3>3, <3>4, <3>5 DEF UplinkInv
  <2> QED
    BY <2>4, <2>5
<1> QED
  BY <1>3, <1>4

LEMMA VerifiedInv == ASSUME UplinkInv, Verified PROVE UplinkInv'
<1>1. auth_state = "authorizing"
      /\ UNCHANGED <<captured, first, flushed, pending, gone, queued, heard>>
  BY DEF Verified
<1>2. CASE auth_state' = "authorized" /\ upstream' = "connecting" /\ UNCHANGED <<socket, wire>>
  BY <1>1, <1>2 DEF UplinkInv, UplinkTypeOK
<1>3. CASE auth_state' = "failed" /\ socket' = "closed" /\ wire' = <<>> /\ UNCHANGED upstream
  <2>1. <<>> \in Seq(Nat)
    OBVIOUS
  <2> QED
    BY <1>1, <1>3, <2>1 DEF UplinkInv, UplinkTypeOK
<1> QED
  BY <1>2, <1>3 DEF Verified

LEMMA UpstreamOpensInv == ASSUME UplinkInv, UpstreamOpens PROVE UplinkInv'
<1>1. /\ upstream = "connecting" /\ upstream' = "open" /\ heard' = heard \o Flushed
      /\ queued' = <<>> /\ UNCHANGED <<phone_vars, wire, auth_state, gone>>
  BY DEF UpstreamOpens
<1>2. /\ first \in Nat /\ queued \in Seq(Nat) /\ Len(queued) \in Nat /\ heard = <<>>
      /\ Numbered(queued, 0, first) /\ Connects(wire, Len(queued), first, captured, socket)
      /\ auth_state = "authorized"
  BY <1>1 DEF UplinkInv, UplinkTypeOK
<1>3. heard' = <<Handshake>> \o queued
  BY <1>1, <1>2 DEF Flushed, Handshake
<1>4. Shakes(heard', first) /\ Len(heard') = Len(queued) + 1 /\ heard' \in Seq(Nat)
  BY <1>2, <1>3, ShakesFirst DEF Handshake
<1>5. heard' # <<>> /\ Len(heard') - 1 = Len(queued)
  BY <1>2, <1>4 DEF Shakes
<1>6. UplinkTypeOK'
  BY <1>1, <1>4 DEF UplinkInv, UplinkTypeOK, phone_vars
<1> QED
  BY <1>1, <1>2, <1>4, <1>5, <1>6 DEF UplinkInv, phone_vars

LEMMA ClosesInv == ASSUME UplinkInv, UpstreamCloses \/ ClientCloses PROVE UplinkInv'
<1>1. CASE UpstreamCloses
  <2>1. /\ upstream \in {"connecting", "open"} /\ upstream' = "closed" /\ socket' = "closed"
        /\ wire' = <<>>
        /\ UNCHANGED <<captured, first, flushed, pending, auth_state, gone, queued, heard>>
    BY <1>1 DEF UpstreamCloses
  <2>2. <<>> \in Seq(Nat)
    OBVIOUS
  <2>3. auth_state = "authorized"
    BY <2>1 DEF UplinkInv, UplinkTypeOK
  <2> QED
    BY <2>1, <2>2, <2>3 DEF UplinkInv, UplinkTypeOK
<1>2. CASE ClientCloses
  <2>1. /\ socket = "closed" /\ UNCHANGED <<phone_vars, wire, auth_state, queued, heard>>
        /\ upstream' = IF upstream = "none" THEN "none" ELSE "closed"
    BY <1>2 DEF ClientCloses
  <2> QED
    BY <2>1 DEF UplinkInv, UplinkTypeOK, phone_vars
<1> QED
  BY <1>1, <1>2

LEMMA UplinkNextInv == UplinkInv /\ [UplinkNext]_uplink_vars => UplinkInv'
<1> SUFFICES ASSUME UplinkInv, [UplinkNext]_uplink_vars PROVE UplinkInv'
  OBVIOUS
<1>1. CASE UplinkNext
  BY <1>1, OpenStreamInv, SocketOpensInv, OnopenInv, InputFrameInv, TeardownInv, MessageInv,
     VerifiedInv, UpstreamOpensInv, ClosesInv
  DEF UplinkNext, BridgeStep
<1>2. CASE UNCHANGED uplink_vars
  BY <1>2 DEF uplink_vars, phone_vars, bridge_vars, UplinkInv, UplinkTypeOK
<1> QED
  BY <1>1, <1>2

LEMMA UplinkHears == UplinkInv => HeardInOrder
<1> SUFFICES ASSUME UplinkInv PROVE HeardInOrder
  OBVIOUS
<1>1. auth_state # "rejected"
  BY DEF UplinkInv, UplinkTypeOK
<1>2. ASSUME heard # <<>>, NEW i \in 2..Len(heard) PROVE heard[i] = first + i - 2
  <2>1. heard[i] + 2 = first + i
    BY <1>2 DEF UplinkInv, Shakes
  <2>2. heard[i] \in Nat /\ i \in Nat /\ first \in Nat
    <3>1. heard \in Seq(Nat) /\ first \in Nat
      BY DEF UplinkInv, UplinkTypeOK
    <3> QED
      BY <3>1
  <2> QED
    BY <2>1, <2>2
<1> QED
  BY <1>1, <1>2 DEF HeardInOrder, UplinkInv, Shakes

\* Of the frames that are captured for a stream none is missing from what ap-voice hears,
\* and none is out of order, whichever connection opens or closes when.
THEOREM FramesAlwaysInOrder == PhoneSpec => []HeardInOrder
<1>1. PhoneInit => UplinkInv
  BY UplinkInitInv DEF PhoneInit
<1>2. [PhoneNext]_app_vars => [UplinkNext]_uplink_vars
  BY DEF PhoneNext, app_vars, uplink_vars
<1> QED
  BY <1>1, <1>2, UplinkHears, UplinkNextInv, PTL DEF PhoneSpec
=============================================================================
