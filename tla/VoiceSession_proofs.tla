------------------------- MODULE VoiceSession_proofs -------------------------
(***************************************************************************)
(* Of a voice session, for any number of turns, units, barge-ins and       *)
(* reconnects: replies do not mix, a filler and a barged-out reply give    *)
(* way within a unit, and the phone drops audio of turns the resident      *)
(* barged out of only.                                                     *)
(***************************************************************************)
EXTENDS VoiceSession, FiniteSetTheorems, SequenceTheorems, TLAPS

Is(frame, kind, t) == frame.kind = kind /\ frame.turn = t

\* The turns not taken yet are the last ones queued, in the order they were
\* spoken, and all before the last one taken are over.
TurnsQueued ==
  /\ \A i \in 1..Len(queue) : queue[i] + Len(queue) = pump.turns + i
  /\ \A t \in Turns :
       /\ turn[t].phase = "unspoken" <=> t > pump.turns
       /\ turn[t].phase = "queued" <=> (t <= pump.turns /\ t + Len(queue) > pump.turns)
       /\ t + Len(queue) < pump.turns => turn[t].phase \in Over

\* Who has something to send has begun, unless the client is gone.
HasBegun(t) ==
  client.open /\ (turn[t].phase \in {"querying", "replying", "sending"} \/ filler[t].phase # "none") =>
    \E i \in 1..Len(sent) : Is(sent[i], "start", t)

\* Frames are of turns taken; all but those of fillers come in the order of
\* their turns, and audio comes after its turn's start.
FramesOrdered ==
  /\ \A j \in 1..Len(sent) : sent[j].turn + Len(queue) <= pump.turns
  /\ \A i, j \in 1..Len(sent) :
       i <= j /\ sent[i].kind # "filler" /\ sent[j].kind # "filler" => sent[i].turn <= sent[j].turn
  /\ \A j \in 1..Len(sent) : sent[j].kind # "start" =>
       \E i \in 1..Len(sent) : i < j /\ Is(sent[i], "start", sent[j].turn)
  /\ \A t \in Turns : HasBegun(t)

\* At most one such frame is sent from there on, and none while one is on its way.
AtMostOne(s, kind, t, from, pending) ==
  /\ \A i, j \in 1..Len(s) :
       from <= i /\ from <= j /\ Is(s[i], kind, t) /\ Is(s[j], kind, t) => i = j
  /\ pending => \A i \in 1..Len(s) : from <= i => ~Is(s[i], kind, t)

\* Where the frames begin that were sent after the barge-in a turn is to notice.
BargedAt(t) == raised_at[turn[t].generation + 1] + 1

AudioBounded ==
  /\ \A j \in 1..Len(sent) : sent[j].kind = "unit" => sent[j].turn \in first_audio
  /\ \A t \in Turns : turn[t].phase = "sending" => t \in first_audio
  /\ \A t \in Turns : \A j \in 1..Len(sent) :
       Is(sent[j], "unit", t) => AtMostOne(sent, "filler", t, j, filler[t].phase = "sending")
  /\ \A t \in Turns : turn[t].phase # "unspoken" /\ turn[t].generation < generation =>
       /\ AtMostOne(sent, "unit", t, BargedAt(t), turn[t].phase = "sending")
       /\ AtMostOne(sent, "filler", t, BargedAt(t), filler[t].phase = "sending")

\* While the phone suppresses, it has read the start of no turn queued after the
\* last barge-in.
SuppressedOnly ==
  /\ client.read <= Len(sent)
  /\ client.suppressing => \A i \in 1..client.read :
       sent[i].kind = "start" => turn[sent[i].turn].generation < client.barge_ins
  /\ \A t \in client.dropped : t <= pump.turns /\ turn[t].generation < client.barge_ins

Raises ==
  /\ Len(raised_at) = generation /\ generation <= client.barge_ins
  /\ \A t \in Turns : turn[t].generation <= generation

\* A final transcript is heard while there is a turn for it.
Hearing ==
  /\ pump \in [over: BOOLEAN, buffered: BOOLEAN, turns: 0..MaxTurns]
  /\ pump.buffered => pump.turns < MaxTurns

VoiceInv == TypeOK /\ Raises /\ TurnsQueued /\ FramesOrdered /\ AudioBounded /\ SuppressedOnly

Phases == {"unspoken", "queued"} \cup Running \cup Over
FillerPhases == {"none", "sleeping", "waiting", "sending", "sent", "over"}
ClientType == [open: BOOLEAN, suppressing: BOOLEAN, read: Nat, barge_ins: Nat, dropped: SUBSET Turns]

LEMMA Parameters ==
  /\ MaxTurns \in Nat /\ MaxReconnect \in Nat
  /\ \A t \in Turns : t \in Nat /\ t >= 1
BY VoiceAssumption DEF Turns

LEMMA SentTyped ==
  ASSUME TypeOK
  PROVE  /\ Len(sent) \in Nat /\ Len(queue) \in Nat /\ pump.turns \in Nat /\ generation \in Nat
         /\ client.read \in Nat /\ client.barge_ins \in Nat
         /\ \A i \in 1..Len(sent) : /\ sent[i].turn \in Turns /\ sent[i].turn \in Nat
                                   /\ sent[i].kind \in {"start", "unit", "filler"}
<1>1. sent \in Seq(Frames) /\ queue \in Seq(Turns) /\ generation \in Nat /\ pump.turns \in 0..MaxTurns
  BY DEF TypeOK
<1>2. \A i \in 1..Len(sent) : sent[i] \in Frames
  BY <1>1
<1>3. client.read \in Nat /\ client.barge_ins \in Nat
  BY DEF TypeOK
<1> QED
  BY <1>1, <1>2, <1>3, Parameters DEF Frames

\* What a frame adds to those sent.
LEMMA Sending ==
  ASSUME TypeOK, NEW kind \in {"start", "unit", "filler"}, NEW t \in Turns, Send(kind, t)
  PROVE  /\ sent' \in Seq(Frames)
         /\ \/ ~client.open /\ sent' = sent
            \/ /\ client.open
               /\ Len(sent') = Len(sent) + 1
               /\ \A i \in 1..Len(sent) : sent'[i] = sent[i]
               /\ sent'[Len(sent) + 1].kind = kind /\ sent'[Len(sent) + 1].turn = t
<1> DEFINE frame == [kind |-> kind, turn |-> t]
<1>1. frame \in Frames /\ frame.kind = kind /\ frame.turn = t
  BY DEF Frames
<1>2. sent \in Seq(Frames)
  BY DEF TypeOK
<1>3. sent' = IF client.open THEN Append(sent, frame) ELSE sent
  BY DEF Send
<1>4. client.open \in BOOLEAN
  BY DEF TypeOK
<1> HIDE DEF frame
<1>5. CASE ~client.open
  BY <1>2, <1>3, <1>5
<1>6. CASE client.open
  <2>1. sent' = Append(sent, frame)
    BY <1>3, <1>6
  <2>2. /\ Append(sent, frame) \in Seq(Frames) /\ Len(Append(sent, frame)) = Len(sent) + 1
        /\ \A i \in 1..Len(sent) : Append(sent, frame)[i] = sent[i]
        /\ Append(sent, frame)[Len(sent) + 1] = frame
    BY <1>1, <1>2, AppendProperties
  <2> QED
    BY <1>1, <1>6, <2>1, <2>2
<1> QED
  BY <1>4, <1>5, <1>6

LEMMA InitInv == Init => VoiceInv
<1> SUFFICES ASSUME Init PROVE VoiceInv
  OBVIOUS
<1>1. TypeOK
  BY VoiceAssumption DEF Init, TypeOK, Turns
<1>2. Len(sent) = 0 /\ Len(queue) = 0 /\ Len(raised_at) = 0 /\ generation = 0 /\ pump.turns = 0
  BY DEF Init
<1>3. /\ \A t \in Turns : turn[t].phase = "unspoken" /\ turn[t].generation = 0
      /\ \A t \in Turns : filler[t].phase = "none"
      /\ client.read = 0 /\ client.barge_ins = 0 /\ client.dropped = {}
  BY DEF Init
<1>4. Raises
  BY <1>2, <1>3 DEF Raises
<1>5. TurnsQueued
  BY <1>2, <1>3, Parameters DEF TurnsQueued
<1>6. FramesOrdered
  BY <1>2, <1>3 DEF FramesOrdered, HasBegun
<1>7. AudioBounded
  BY <1>2, <1>3 DEF AudioBounded
<1>8. SuppressedOnly
  BY <1>2, <1>3 DEF SuppressedOnly
<1> QED
  BY <1>1, <1>4, <1>5, <1>6, <1>7, <1>8 DEF VoiceInv

\* Steps that leave frames, turns and fillers as they are.
LEMMA Untouched ==
  ASSUME VoiceInv, TypeOK', UNCHANGED <<turn, filler, sent, first_audio, generation, raised_at, queue>>,
         pump'.turns = pump.turns, UNCHANGED client
  PROVE  VoiceInv'
<1>1. Raises'
  BY DEF VoiceInv, Raises
<1>2. TurnsQueued'
  BY DEF VoiceInv, TurnsQueued
<1>3. FramesOrdered'
  BY DEF VoiceInv, FramesOrdered, HasBegun, Is
<1>4. AudioBounded'
  BY DEF VoiceInv, AudioBounded, AtMostOne, BargedAt, Is
<1>5. SuppressedOnly'
  BY DEF VoiceInv, SuppressedOnly
<1> QED
  BY <1>1, <1>2, <1>3, <1>4, <1>5 DEF VoiceInv

LEMMA SttKeeps == VoiceInv /\ SttStep => VoiceInv'
<1> SUFFICES ASSUME VoiceInv, SttStep PROVE VoiceInv'
  OBVIOUS
<1>1. UNCHANGED <<pump, generation, sent, raised_at, client, queue, turn, first_audio, filler>>
  BY DEF SttStep, SttConnects, SttDrops, SttDropsLate, turnVars
<1>2. stt' \in [state: {"connecting", "up", "over"}, attempts: 0..MaxReconnect]
  <2>1. /\ stt \in [state: {"connecting", "up", "over"}, attempts: 0..MaxReconnect]
        /\ 0 \in 0..MaxReconnect
    BY Parameters DEF VoiceInv, TypeOK
  <2>2. stt.attempts < MaxReconnect => stt.attempts + 1 \in 0..MaxReconnect
    BY <2>1, Parameters
  <2>3. ~(stt.attempts >= MaxReconnect) => stt.attempts < MaxReconnect
    BY <2>1, Parameters
  <2>4. after_drop \in [state: {"connecting", "up", "over"}, attempts: 0..MaxReconnect]
    BY <2>1, <2>2, <2>3 DEF after_drop
  <2> QED
    BY <2>1, <2>4 DEF SttStep, SttConnects, SttDrops, SttDropsLate
<1>3. TypeOK'
  BY <1>1, <1>2 DEF VoiceInv, TypeOK
<1> QED
  BY <1>1, <1>3, Untouched

LEMMA HeardKeeps == VoiceInv /\ (HearFinal \/ PumpEnds) => VoiceInv'
<1> SUFFICES ASSUME VoiceInv, HearFinal \/ PumpEnds PROVE VoiceInv'
  OBVIOUS
<1>1. UNCHANGED <<stt, generation, sent, raised_at, client, queue, turn, first_audio, filler>>
  BY DEF HearFinal, PumpEnds, turnVars
<1>2. pump' \in [over: BOOLEAN, buffered: BOOLEAN, turns: 0..MaxTurns] /\ pump'.turns = pump.turns
  BY DEF HearFinal, PumpEnds, VoiceInv, TypeOK
<1>3. TypeOK'
  BY <1>1, <1>2 DEF VoiceInv, TypeOK
<1> QED
  BY <1>1, <1>2, <1>3, Untouched

\* Steps that send nothing: who begins to send had not been told to stop.
LEMMA Silent ==
  ASSUME VoiceInv, TypeOK', TurnsQueued',
         UNCHANGED <<sent, generation, raised_at, client>>, pump'.turns = pump.turns,
         Len(queue') <= Len(queue), first_audio \subseteq first_audio',
         \A u \in Turns :
           /\ turn'[u].generation = turn[u].generation
           /\ turn[u].phase = "unspoken" => turn'[u].phase = "unspoken"
           /\ turn'[u].phase = "sending" =>
                u \in first_audio' /\ (turn[u].phase = "sending" \/ MaySpeak(u))
           /\ filler'[u].phase = "sending" => filler[u].phase = "sending" \/ ~Pointless(u)
           /\ turn'[u].phase \in {"querying", "replying", "sending"} \/ filler'[u].phase # "none" =>
                turn[u].phase \in {"querying", "replying", "sending"} \/ filler[u].phase # "none"
  PROVE  VoiceInv'
<1>1. Raises'
  BY DEF VoiceInv, Raises
<1>2. FramesOrdered'
  <2>1. ASSUME NEW j \in 1..Len(sent) PROVE sent[j].turn + Len(queue') <= pump.turns
    <3>1. sent[j].turn \in Nat /\ Len(queue) \in Nat /\ Len(queue') \in Nat /\ pump.turns \in Nat
      <4>1. Len(queue') \in Nat
        BY DEF TypeOK
      <4> QED
        BY <4>1, SentTyped DEF VoiceInv
    <3>2. sent[j].turn + Len(queue) <= pump.turns /\ Len(queue') <= Len(queue)
      BY DEF VoiceInv, FramesOrdered
    <3> QED
      BY <3>1, <3>2
  <2>2. ASSUME NEW u \in Turns PROVE HasBegun(u)'
    BY DEF VoiceInv, FramesOrdered, HasBegun
  <2> QED
    BY <2>1, <2>2 DEF VoiceInv, FramesOrdered
<1>3. AudioBounded'
  <2>1. \A j \in 1..Len(sent) : sent[j].kind = "unit" => sent[j].turn \in first_audio'
    BY DEF VoiceInv, AudioBounded
  <2>2. ASSUME NEW u \in Turns, NEW j \in 1..Len(sent), Is(sent[j], "unit", u)
        PROVE  AtMostOne(sent, "filler", u, j, filler'[u].phase = "sending")
    <3>1. u \in first_audio /\ AtMostOne(sent, "filler", u, j, filler[u].phase = "sending")
      BY <2>2 DEF VoiceInv, AudioBounded, Is
    <3>2. filler'[u].phase = "sending" => filler[u].phase = "sending"
      BY <3>1 DEF Pointless
    <3> QED
      BY <3>1, <3>2 DEF AtMostOne
  <2>3. ASSUME NEW u \in Turns, turn'[u].phase # "unspoken", turn'[u].generation < generation
        PROVE  /\ AtMostOne(sent, "unit", u, BargedAt(u), turn'[u].phase = "sending")
               /\ AtMostOne(sent, "filler", u, BargedAt(u), filler'[u].phase = "sending")
    <3>1. turn[u].phase # "unspoken" /\ turn[u].generation < generation
      BY <2>3
    <3>2. turn[u].generation \in Nat /\ generation \in Nat
      BY DEF VoiceInv, TypeOK
    <3>3. /\ turn'[u].phase = "sending" => turn[u].phase = "sending"
          /\ filler'[u].phase = "sending" => filler[u].phase = "sending"
      BY <3>1, <3>2 DEF MaySpeak, Pointless, is_raised_since
    <3>4. /\ AtMostOne(sent, "unit", u, BargedAt(u), turn[u].phase = "sending")
          /\ AtMostOne(sent, "filler", u, BargedAt(u), filler[u].phase = "sending")
      BY <3>1 DEF VoiceInv, AudioBounded
    <3> QED
      BY <3>3, <3>4 DEF AtMostOne
  <2>4. ASSUME NEW u \in Turns PROVE BargedAt(u)' = BargedAt(u)
    BY DEF BargedAt
  <2> QED
    BY <2>1, <2>2, <2>3, <2>4 DEF AudioBounded
<1>4. SuppressedOnly'
  <2>1. \A i \in 1..client.read : i \in 1..Len(sent) /\ sent[i].turn \in Turns
    BY SentTyped DEF VoiceInv, SuppressedOnly
  <2>2. \A t \in client.dropped : t \in Turns
    BY DEF VoiceInv, TypeOK
  <2> QED
    BY <2>1, <2>2 DEF VoiceInv, SuppressedOnly
<1> QED
  BY <1>1, <1>2, <1>3, <1>4 DEF VoiceInv

\* One more frame: at most one still, when it is not such a frame or was on its way.
LEMMA OneMore ==
  ASSUME NEW s \in Seq(Frames), NEW r \in Seq(Frames), Len(r) = Len(s) + 1,
         \A i \in 1..Len(s) : r[i] = s[i],
         NEW kind, NEW t, NEW from \in Nat, NEW was \in BOOLEAN, NEW is \in BOOLEAN,
         AtMostOne(s, kind, t, from, was), is => was,
         Is(r[Len(r)], kind, t) => was /\ ~is
  PROVE  AtMostOne(r, kind, t, from, is)
<1>1. Len(s) \in Nat /\ \A i \in 1..Len(r) : i \in 1..Len(s) \/ i = Len(r)
  OBVIOUS
<1>2. ASSUME NEW i \in 1..Len(s), from <= i, Is(r[i], kind, t) PROVE ~Is(r[Len(r)], kind, t)
  BY <1>2 DEF AtMostOne
<1> QED
  BY <1>1, <1>2 DEF AtMostOne

\* A turn that is past its start and not over is the last one taken.
LEMMA TakenLast ==
  ASSUME VoiceInv, NEW t \in Turns, turn[t].phase \in Running
  PROVE  t + Len(queue) = pump.turns
<1>1. t \in Nat /\ Len(queue) \in Nat /\ pump.turns \in Nat
  BY SentTyped, Parameters DEF VoiceInv
<1>2. ~(t > pump.turns) /\ ~(t <= pump.turns /\ t + Len(queue) > pump.turns) /\ ~(t + Len(queue) < pump.turns)
  BY DEF VoiceInv, TurnsQueued, Running, Over
<1> QED
  BY <1>1, <1>2

\* Turns stay in their places while only the one taken last moves on.
LEMMA MovesOn ==
  ASSUME VoiceInv, NEW t \in Turns, turn[t].phase \in Running,
         UNCHANGED queue, pump'.turns = pump.turns,
         \A u \in Turns : u # t => turn'[u] = turn[u],
         turn'[t].phase \in Running \cup Over
  PROVE  TurnsQueued'
<1>1. t + Len(queue) = pump.turns
  BY TakenLast
<1>2. t \in Nat /\ Len(queue) \in Nat /\ pump.turns \in Nat
  BY SentTyped, Parameters DEF VoiceInv
<1>3. ~(t > pump.turns) /\ ~(t + Len(queue) > pump.turns) /\ ~(t + Len(queue) < pump.turns)
  BY <1>1, <1>2
<1>4. turn'[t].phase # "unspoken" /\ turn'[t].phase # "queued"
  BY DEF Running, Over
<1>5. ASSUME NEW u \in Turns
      PROVE  /\ turn'[u].phase = "unspoken" <=> u > pump.turns
             /\ turn'[u].phase = "queued" <=> (u <= pump.turns /\ u + Len(queue) > pump.turns)
             /\ u + Len(queue) < pump.turns => turn'[u].phase \in Over
  <2>1. CASE u = t
    BY <1>3, <1>4, <2>1
  <2>2. CASE u # t
    BY <2>2 DEF VoiceInv, TurnsQueued
  <2> QED
    BY <2>1, <2>2
<1> QED
  BY <1>5 DEF VoiceInv, TurnsQueued

\* Turns, fillers and the rest keep their types when a phase changes.
LEMMA PhasesTyped ==
  ASSUME TypeOK, NEW t \in Turns
  PROVE  /\ \A how \in Phases :
              [turn EXCEPT ![t].phase = how] \in [Turns -> [phase: Phases, generation: Nat]]
         /\ \A how \in FillerPhases :
              [filler EXCEPT ![t].phase = how] \in [Turns -> [phase: FillerPhases, cancelled: BOOLEAN]]
         /\ [filler EXCEPT ![t].cancelled = TRUE] \in [Turns -> [phase: FillerPhases, cancelled: BOOLEAN]]
         /\ turn \in [Turns -> [phase: Phases, generation: Nat]]
         /\ filler \in [Turns -> [phase: FillerPhases, cancelled: BOOLEAN]]
BY ZenonT(40) DEF TypeOK, Phases, FillerPhases

LEMMA TakeKeeps == ASSUME VoiceInv, NEW t \in Turns, TakeTurn(t) PROVE VoiceInv'
<1>1. /\ turn \in [Turns -> [phase: Phases, generation: Nat]] /\ queue \in Seq(Turns) /\ queue # <<>>
      /\ pump.turns \in Nat /\ t \in Nat /\ \A u \in Turns : u \in Nat
  BY SentTyped, Parameters DEF VoiceInv, TypeOK, TakeTurn, Phases
<1>2. /\ t = queue[1] /\ queue' = Tail(queue)
      /\ UNCHANGED <<first_audio, filler, generation, sent, raised_at, client, stt, pump>>
      /\ \E how \in {"skipped", "starting"} : turn' = [turn EXCEPT ![t].phase = how]
      /\ \A u \in Turns : turn[u].phase \notin Running
  <2>1. t = Head(queue) /\ Head(queue) = queue[1]
    BY <1>1 DEF TakeTurn
  <2>2. \E how \in {"skipped", "starting"} : turn' = [turn EXCEPT ![t].phase = how]
    BY DEF TakeTurn
  <2> QED
    BY <2>1, <2>2 DEF TakeTurn, pumpVars, WorkerFree
<1>3. /\ queue' \in Seq(Turns) /\ Len(queue) \in Nat \ {0} /\ Len(queue') = Len(queue) - 1
      /\ \A i \in 1..Len(queue') : queue'[i] = queue[i + 1] /\ i + 1 \in 1..Len(queue)
  BY <1>1, <1>2, SMTT(20)
<1>4. PICK how \in {"skipped", "starting"} : turn' = [turn EXCEPT ![t].phase = how]
  BY <1>2
<1>5. how \in Phases /\ turn' \in [Turns -> [phase: Phases, generation: Nat]]
  <2>1. how \in Phases
    BY <1>4 DEF Phases, Running, Over
  <2> QED
    BY <2>1, <1>4, PhasesTyped DEF VoiceInv
<1>6. TypeOK'
  BY <1>2, <1>3, <1>5 DEF VoiceInv, TypeOK, Phases
<1>7. \A u \in Turns : /\ turn'[u].generation = turn[u].generation
                       /\ u # t => turn'[u] = turn[u]
  BY <1>1, <1>4
<1>8. turn'[t].phase = how
  BY <1>1, <1>4
<1>9. t + Len(queue) = pump.turns + 1
  <2>1. 1 \in 1..Len(queue)
    BY <1>3
  <2> QED
    BY <1>2, <2>1 DEF VoiceInv, TurnsQueued
<1>10. TurnsQueued'
  <2>1. ASSUME NEW i \in 1..Len(queue') PROVE queue'[i] + Len(queue') = pump.turns + i
    <3>1. i + 1 \in 1..Len(queue) /\ queue'[i] = queue[i + 1]
      BY <1>3
    <3>2. queue[i + 1] + Len(queue) = pump.turns + (i + 1)
      BY <3>1 DEF VoiceInv, TurnsQueued
    <3>3. queue[i + 1] \in Turns
      BY <1>1, <3>1
    <3>4. queue'[i] \in Nat /\ queue'[i] + Len(queue) = pump.turns + (i + 1)
      BY <1>1, <3>1, <3>2, <3>3
    <3>5. i \in Nat /\ Len(queue) \in Nat /\ Len(queue') = Len(queue) - 1 /\ pump.turns \in Nat
      BY <1>1, <1>3
    <3> DEFINE q == queue'[i]
               was == Len(queue)
               is == Len(queue')
    <3>6. q \in Nat /\ q + was = pump.turns + (i + 1) /\ is = was - 1 /\ was \in Nat
      BY <3>4, <3>5
    <3> HIDE DEF q, was, is
    <3>7. q + is = pump.turns + i
      BY <3>5, <3>6
    <3> QED
      BY <3>7 DEF q, is
  <2>2. ASSUME NEW u \in Turns
        PROVE  /\ turn'[u].phase = "unspoken" <=> u > pump.turns
               /\ turn'[u].phase = "queued" <=> (u <= pump.turns /\ u + Len(queue') > pump.turns)
               /\ u + Len(queue') < pump.turns => turn'[u].phase \in Over
    <3>1. CASE u = t
      <4>1. ~(u > pump.turns) /\ ~(u + Len(queue') > pump.turns) /\ ~(u + Len(queue') < pump.turns)
        BY <1>1, <1>3, <1>9, <3>1
      <4> QED
        BY <1>4, <1>8, <3>1, <4>1
    <3>2. CASE u # t
      <4>1. /\ (u <= pump.turns /\ u + Len(queue') > pump.turns) <=> (u <= pump.turns /\ u + Len(queue) > pump.turns)
            /\ u + Len(queue') < pump.turns => ~(u > pump.turns) /\ ~(u + Len(queue) > pump.turns)
        BY <1>1, <1>3, <1>9, <3>2, SMTT(20)
      <4>2. turn[u].phase \in Over \/ turn[u].phase \in {"unspoken", "queued"}
        BY <1>1, <1>2 DEF Phases
      <4>3. turn'[u] = turn[u]
        BY <1>7, <3>2
      <4>4. /\ turn[u].phase = "unspoken" <=> u > pump.turns
            /\ turn[u].phase = "queued" <=> (u <= pump.turns /\ u + Len(queue) > pump.turns)
        BY DEF VoiceInv, TurnsQueued
      <4>5. u + Len(queue') < pump.turns => turn[u].phase \in Over
        BY <4>1, <4>2, <4>4
      <4> QED
        BY <4>1, <4>3, <4>4, <4>5
    <3> QED
      BY <3>1, <3>2
  <2> QED
    BY <1>2, <2>1, <2>2 DEF TurnsQueued
<1>11. turn[t].phase # "unspoken"
  <2>1. t <= pump.turns
    BY <1>1, <1>3, <1>9
  <2> QED
    BY <1>1, <2>1 DEF VoiceInv, TurnsQueued
<1>12. \A u \in Turns :
         /\ turn[u].phase = "unspoken" => turn'[u].phase = "unspoken"
         /\ turn'[u].phase \notin {"querying", "replying", "sending"} \/ turn'[u] = turn[u]
  BY <1>4, <1>7, <1>8, <1>11
<1>13. \A u \in Turns : turn[u].phase = "sending" => u \in first_audio
  BY DEF VoiceInv, AudioBounded
<1> QED
  BY <1>2, <1>3, <1>6, <1>7, <1>10, <1>12, <1>13, Silent

\* What changes the phases of a turn under way and of its filler.
LEMMA PhaseKeeps ==
  ASSUME VoiceInv, NEW t \in Turns, turn[t].phase \in Running,
         NEW how \in Running \cup Over, turn' = [turn EXCEPT ![t].phase = how],
         UNCHANGED <<stt, pump, queue, generation, sent, raised_at, client>>,
         first_audio' = IF how = "sending" THEN first_audio \cup {t} ELSE first_audio,
         how = "sending" => MaySpeak(t),
         how \in {"querying", "replying", "sending"} => turn[t].phase \in {"querying", "replying", "sending"},
         \/ filler' = [filler EXCEPT ![t].cancelled = TRUE]
         \/ filler' = [filler EXCEPT ![t].phase = "sleeping"] /\ turn[t].phase = "querying"
  PROVE  VoiceInv'
<1>1. /\ turn \in [Turns -> [phase: Phases, generation: Nat]]
      /\ filler \in [Turns -> [phase: FillerPhases, cancelled: BOOLEAN]]
      /\ turn' \in [Turns -> [phase: Phases, generation: Nat]]
      /\ filler' \in [Turns -> [phase: FillerPhases, cancelled: BOOLEAN]]
  <2>1. how \in Phases /\ "sleeping" \in FillerPhases
    BY DEF Phases, FillerPhases
  <2>2. /\ turn \in [Turns -> [phase: Phases, generation: Nat]]
        /\ filler \in [Turns -> [phase: FillerPhases, cancelled: BOOLEAN]]
        /\ [turn EXCEPT ![t].phase = how] \in [Turns -> [phase: Phases, generation: Nat]]
        /\ [filler EXCEPT ![t].phase = "sleeping"] \in [Turns -> [phase: FillerPhases, cancelled: BOOLEAN]]
        /\ [filler EXCEPT ![t].cancelled = TRUE] \in [Turns -> [phase: FillerPhases, cancelled: BOOLEAN]]
    BY <2>1, PhasesTyped DEF VoiceInv
  <2> QED
    BY <2>2
<1>2. TypeOK'
  <2>1. first_audio' \subseteq Turns
    BY DEF VoiceInv, TypeOK
  <2> QED
    BY <1>1, <2>1 DEF VoiceInv, TypeOK, Phases, FillerPhases
<1>3. /\ turn'[t].phase = how
      /\ \A u \in Turns : turn'[u].generation = turn[u].generation
      /\ \A u \in Turns : u # t => turn'[u] = turn[u]
  BY <1>1
<1>4. TurnsQueued'
  BY <1>3, MovesOn
<1>5. \A u \in Turns : turn[u].phase = "sending" => u \in first_audio
  BY DEF VoiceInv, AudioBounded
<1>6. turn[t].phase # "unspoken" /\ how # "unspoken"
  BY DEF Running, Over
<1>7. \A u \in Turns :
         /\ filler'[u].phase = "sending" => filler[u].phase = "sending"
         /\ filler'[u].phase # "none" => filler[u].phase # "none" \/ (u = t /\ turn[u].phase = "querying")
  <2>1. CASE filler' = [filler EXCEPT ![t].cancelled = TRUE]
    BY <1>1, <2>1
  <2>2. CASE filler' = [filler EXCEPT ![t].phase = "sleeping"] /\ turn[t].phase = "querying"
    BY <1>1, <2>2
  <2> QED
    BY <2>1, <2>2
<1>8. \A u \in Turns :
         /\ turn'[u].generation = turn[u].generation
         /\ turn[u].phase = "unspoken" => turn'[u].phase = "unspoken"
         /\ turn'[u].phase = "sending" => u \in first_audio' /\ (turn[u].phase = "sending" \/ MaySpeak(u))
         /\ turn'[u].phase \in {"querying", "replying", "sending"} =>
              turn[u].phase \in {"querying", "replying", "sending"}
  BY <1>3, <1>5, <1>6
<1>9. Len(queue) <= Len(queue) /\ first_audio \subseteq first_audio'
  BY SentTyped DEF VoiceInv
<1> QED
  BY <1>2, <1>4, <1>7, <1>8, <1>9, Silent

LEMMA FillerKeeps ==
  ASSUME VoiceInv, NEW t \in Turns, NEW how \in {"waiting", "sending", "over"},
         filler' = [filler EXCEPT ![t].phase = how], filler[t].phase # "none",
         how = "sending" => ~Pointless(t),
         UNCHANGED <<stt, pump, queue, turn, first_audio, generation, sent, raised_at, client>>
  PROVE  VoiceInv'
<1>1. /\ filler \in [Turns -> [phase: FillerPhases, cancelled: BOOLEAN]]
      /\ filler' \in [Turns -> [phase: FillerPhases, cancelled: BOOLEAN]]
  <2>1. how \in FillerPhases
    BY DEF FillerPhases
  <2> QED
    BY <2>1, PhasesTyped DEF VoiceInv
<1>2. TypeOK'
  BY <1>1 DEF VoiceInv, TypeOK, FillerPhases
<1>3. TurnsQueued'
  BY DEF VoiceInv, TurnsQueued
<1>4. \A u \in Turns :
         /\ filler'[u].phase = "sending" => filler[u].phase = "sending" \/ ~Pointless(u)
         /\ filler'[u].phase # "none" => filler[u].phase # "none"
  BY <1>1
<1>5. \A u \in Turns : turn[u].phase = "sending" => u \in first_audio
  BY DEF VoiceInv, AudioBounded
<1>6. Len(queue) <= Len(queue)
  BY SentTyped DEF VoiceInv
<1> QED
  BY <1>2, <1>3, <1>4, <1>5, <1>6, Silent

\* What follows a frame that is sent, but for how many may still follow.
LEMMA Speaks ==
  ASSUME VoiceInv, NEW t \in Turns, NEW kind \in {"start", "unit", "filler"}, Send(kind, t),
         t + Len(queue) <= pump.turns, kind # "filler" => t + Len(queue) = pump.turns,
         kind # "start" => HasBegun(t) /\ (turn[t].phase = "sending" \/ filler[t].phase # "none"),
         UNCHANGED <<pump, queue, generation, raised_at, first_audio, client>>,
         \A u \in Turns :
           /\ turn'[u].generation = turn[u].generation
           /\ turn'[u].phase \in {"querying", "replying", "sending"} \/ filler'[u].phase # "none" =>
                \/ turn[u].phase \in {"querying", "replying", "sending"} \/ filler[u].phase # "none"
                \/ kind = "start" /\ u = t
  PROVE  Raises' /\ FramesOrdered' /\ SuppressedOnly'
<1>0. Raises'
  BY DEF VoiceInv, Raises
<1>1. /\ Len(sent) \in Nat /\ Len(queue) \in Nat /\ pump.turns \in Nat /\ client.read \in Nat /\ t \in Nat
      /\ \A i \in 1..Len(sent) : sent[i].turn \in Turns /\ sent[i].turn \in Nat
  BY SentTyped, Parameters DEF VoiceInv
<1>2. CASE ~client.open /\ sent' = sent
  <2>1. FramesOrdered'
    BY <1>2 DEF VoiceInv, FramesOrdered, HasBegun
  <2>2. SuppressedOnly'
    <3>1. \A i \in 1..client.read : i \in 1..Len(sent)
      BY <1>1 DEF VoiceInv, SuppressedOnly
    <3>2. \A u \in client.dropped : u \in Turns
      BY DEF VoiceInv, TypeOK
    <3> QED
      BY <1>1, <1>2, <3>1, <3>2 DEF VoiceInv, SuppressedOnly
  <2> QED
    BY <1>0, <2>1, <2>2
<1>3. CASE /\ client.open
           /\ Len(sent') = Len(sent) + 1
           /\ \A i \in 1..Len(sent) : sent'[i] = sent[i]
           /\ sent'[Len(sent) + 1].kind = kind /\ sent'[Len(sent) + 1].turn = t
  <2> DEFINE n == Len(sent) + 1
  <2>1. /\ n \in Nat /\ Len(sent') = n /\ sent'[n].kind = kind /\ sent'[n].turn = t
        /\ \A i \in 1..n : i = n \/ (i \in 1..Len(sent) /\ sent'[i] = sent[i] /\ i < n)
        /\ \A i \in 1..Len(sent) : i \in 1..n /\ sent'[i] = sent[i] /\ i < n /\ ~(n <= i)
        /\ n \in 1..n
    BY <1>1, <1>3
  <2> HIDE DEF n
  <2>2. \A j \in 1..n : sent'[j].turn + Len(queue) <= pump.turns
    BY <2>1 DEF VoiceInv, FramesOrdered
  <2>3. ASSUME NEW i \in 1..n, NEW j \in 1..n, i <= j, sent'[i].kind # "filler", sent'[j].kind # "filler"
        PROVE  sent'[i].turn <= sent'[j].turn
    <3>1. CASE j \in 1..Len(sent)
      <4>1. i \in 1..Len(sent)
        BY <2>1, <2>3, <3>1
      <4> QED
        BY <2>1, <2>3, <3>1, <4>1 DEF VoiceInv, FramesOrdered
    <3>2. CASE j = n
      <4>1. sent'[j].turn = t /\ t + Len(queue) = pump.turns /\ sent'[i].turn + Len(queue) <= pump.turns
        BY <2>1, <2>2, <2>3, <3>2
      <4>2. sent'[i].turn \in Nat
        BY <1>1, <2>1
      <4> DEFINE m == sent'[i].turn
      <4>3. m + Len(queue) <= t + Len(queue) /\ m \in Nat
        BY <4>1, <4>2
      <4> HIDE DEF m
      <4>4. m <= t
        BY <1>1, <4>3
      <4> QED
        BY <4>1, <4>4 DEF m
    <3> QED
      BY <2>1, <3>1, <3>2
  <2>4. ASSUME NEW j \in 1..n, sent'[j].kind # "start"
        PROVE  \E i \in 1..n : i < j /\ Is(sent'[i], "start", sent'[j].turn)
    <3>1. CASE j \in 1..Len(sent)
      <4>1. PICK i \in 1..Len(sent) : i < j /\ Is(sent[i], "start", sent[j].turn)
        BY <2>1, <2>4, <3>1 DEF VoiceInv, FramesOrdered
      <4> QED
        BY <2>1, <3>1, <4>1
    <3>2. CASE j = n
      <4>1. PICK i \in 1..Len(sent) : Is(sent[i], "start", t)
        BY <1>3, <2>1, <2>4, <3>2 DEF HasBegun
      <4> QED
        BY <2>1, <3>2, <4>1
    <3> QED
      BY <2>1, <3>1, <3>2
  <2>5. ASSUME NEW u \in Turns PROVE HasBegun(u)'
    <3>1. CASE kind = "start" /\ u = t
      BY <2>1, <3>1 DEF HasBegun, Is
    <3>2. CASE ~(kind = "start" /\ u = t)
      <4> SUFFICES ASSUME turn[u].phase \in {"querying", "replying", "sending"} \/ filler[u].phase # "none"
                   PROVE  \E i \in 1..Len(sent') : Is(sent'[i], "start", u)
        BY <3>2 DEF HasBegun
      <4>1. PICK i \in 1..Len(sent) : Is(sent[i], "start", u)
        BY <1>3 DEF VoiceInv, FramesOrdered, HasBegun
      <4> QED
        BY <2>1, <4>1
    <3> QED
      BY <3>1, <3>2
  <2>6. FramesOrdered'
    BY <2>1, <2>2, <2>3, <2>4, <2>5 DEF FramesOrdered
  <2>7. SuppressedOnly'
    <3>1. client.read <= Len(sent)
      BY DEF VoiceInv, SuppressedOnly
    <3>2. client.read <= n /\ \A i \in 1..client.read : i \in 1..Len(sent)
      BY <1>1, <2>1, <3>1 DEF n
    <3>3. \A u \in client.dropped : u \in Turns
      BY DEF VoiceInv, TypeOK
    <3>4. ASSUME client.suppressing, NEW i \in 1..client.read, sent'[i].kind = "start"
          PROVE  turn'[sent'[i].turn].generation < client.barge_ins
      <4>1. i \in 1..Len(sent) /\ sent'[i] = sent[i] /\ sent[i].turn \in Turns
        BY <1>1, <2>1, <3>2
      <4>2. turn[sent[i].turn].generation < client.barge_ins
        BY <3>4, <4>1 DEF VoiceInv, SuppressedOnly
      <4> QED
        BY <4>1, <4>2
    <3>5. \A u \in client.dropped : u <= pump.turns /\ turn'[u].generation < client.barge_ins
      BY <3>3 DEF VoiceInv, SuppressedOnly
    <3> QED
      BY <2>1, <3>2, <3>4, <3>5 DEF SuppressedOnly
  <2> QED
    BY <1>0, <2>6, <2>7
<1> QED
  BY <1>2, <1>3, Sending DEF VoiceInv

\* How many frames may follow a frame that was on its way.
LEMMA SpeaksLittle ==
  ASSUME VoiceInv, NEW t \in Turns, NEW kind \in {"start", "unit", "filler"}, Send(kind, t),
         kind = "unit" => turn[t].phase = "sending" /\ turn'[t].phase # "sending",
         kind = "filler" => filler[t].phase = "sending" /\ filler'[t].phase # "sending",
         UNCHANGED <<generation, raised_at, first_audio>>,
         \A u \in Turns :
           /\ turn'[u].generation = turn[u].generation
           /\ turn[u].phase = "unspoken" => turn'[u].phase = "unspoken"
           /\ turn'[u].phase = "sending" => turn[u].phase = "sending"
           /\ filler'[u].phase = "sending" => filler[u].phase = "sending"
  PROVE  AudioBounded'
<1>1. /\ Len(sent) \in Nat /\ sent \in Seq(Frames) /\ generation \in Nat
      /\ \A u \in Turns : turn[u].generation \in Nat
      /\ \A i \in 1..Len(sent) : sent[i].turn \in Turns
  BY SentTyped DEF VoiceInv, TypeOK
<1>2. \A u \in Turns : BargedAt(u)' = BargedAt(u)
  BY DEF BargedAt
<1>3. CASE sent' = sent
  <2>1. ASSUME NEW u \in Turns, NEW k, NEW from
        PROVE  /\ AtMostOne(sent, k, u, from, turn[u].phase = "sending") =>
                    AtMostOne(sent, k, u, from, turn'[u].phase = "sending")
               /\ AtMostOne(sent, k, u, from, filler[u].phase = "sending") =>
                    AtMostOne(sent, k, u, from, filler'[u].phase = "sending")
    BY DEF AtMostOne
  <2> QED
    BY <1>2, <1>3, <2>1 DEF VoiceInv, AudioBounded
<1>4. CASE /\ sent' \in Seq(Frames)
           /\ Len(sent') = Len(sent) + 1
           /\ \A i \in 1..Len(sent) : sent'[i] = sent[i]
           /\ sent'[Len(sent) + 1].kind = kind /\ sent'[Len(sent) + 1].turn = t
  <2> DEFINE n == Len(sent')
  <2>1. /\ n \in Nat /\ sent'[n].kind = kind /\ sent'[n].turn = t
        /\ \A i \in 1..n : i = n \/ (i \in 1..Len(sent) /\ sent'[i] = sent[i])
        /\ \A i \in 1..n : n <= i => i = n
    BY <1>1, <1>4
  <2> HIDE DEF n
  <2>2. \A j \in 1..n : sent'[j].kind = "unit" => sent'[j].turn \in first_audio
    BY <2>1 DEF VoiceInv, AudioBounded
  <2>3. ASSUME NEW u \in Turns, NEW from \in Nat
        PROVE  /\ AtMostOne(sent, "unit", u, from, turn[u].phase = "sending") =>
                    AtMostOne(sent', "unit", u, from, turn'[u].phase = "sending")
               /\ AtMostOne(sent, "filler", u, from, filler[u].phase = "sending") =>
                    AtMostOne(sent', "filler", u, from, filler'[u].phase = "sending")
    <3>1. /\ Is(sent'[n], "unit", u) => turn[u].phase = "sending" /\ turn'[u].phase # "sending"
          /\ Is(sent'[n], "filler", u) => filler[u].phase = "sending" /\ filler'[u].phase # "sending"
      BY <2>1 DEF Is
    <3> DEFINE a == turn[u].phase = "sending"
               b == turn'[u].phase = "sending"
               c == filler[u].phase = "sending"
               d == filler'[u].phase = "sending"
    <3>2. /\ {a, b, c, d} \subseteq BOOLEAN /\ (b => a) /\ (d => c)
          /\ Is(sent'[n], "unit", u) => a /\ ~b
          /\ Is(sent'[n], "filler", u) => c /\ ~d
      BY <3>1
    <3> HIDE DEF a, b, c, d
    <3>3. AtMostOne(sent, "unit", u, from, a) => AtMostOne(sent', "unit", u, from, b)
      BY <1>1, <1>4, <3>2, OneMore DEF n
    <3>4. AtMostOne(sent, "filler", u, from, c) => AtMostOne(sent', "filler", u, from, d)
      BY <1>1, <1>4, <3>2, OneMore DEF n
    <3> QED
      BY <3>3, <3>4 DEF a, b, c, d
  <2>4. ASSUME NEW u \in Turns, NEW j \in 1..n, Is(sent'[j], "unit", u)
        PROVE  AtMostOne(sent', "filler", u, j, filler'[u].phase = "sending")
    <3>1. CASE j \in 1..Len(sent)
      <4>1. j \in Nat /\ sent'[j] = sent[j]
        BY <1>4, <3>1
      <4> QED
        BY <2>3, <2>4, <3>1, <4>1 DEF VoiceInv, AudioBounded
    <3>2. CASE j = n
      <4>1. ~Is(sent'[n], "filler", u)
        BY <2>4, <3>2 DEF Is
      <4> QED
        BY <2>1, <3>2, <4>1 DEF AtMostOne, n
    <3> QED
      BY <2>1, <3>1, <3>2
  <2>5. ASSUME NEW u \in Turns, turn'[u].phase # "unspoken", turn'[u].generation < generation
        PROVE  /\ AtMostOne(sent', "unit", u, BargedAt(u), turn'[u].phase = "sending")
               /\ AtMostOne(sent', "filler", u, BargedAt(u), filler'[u].phase = "sending")
    <3>1. turn[u].phase # "unspoken" /\ turn[u].generation < generation
      BY <2>5
    <3>2. BargedAt(u) \in Nat
      <4>1. raised_at \in Seq(Nat) /\ Len(raised_at) = generation
        BY DEF VoiceInv, TypeOK, Raises
      <4>2. turn[u].generation + 1 \in 1..Len(raised_at)
        BY <1>1, <3>1, <4>1
      <4>3. raised_at[turn[u].generation + 1] \in Nat
        BY <4>1, <4>2
      <4> QED
        BY <4>3 DEF BargedAt
    <3>3. /\ AtMostOne(sent, "unit", u, BargedAt(u), turn[u].phase = "sending")
          /\ AtMostOne(sent, "filler", u, BargedAt(u), filler[u].phase = "sending")
      BY <3>1 DEF VoiceInv, AudioBounded
    <3> DEFINE from == BargedAt(u)
    <3>4. from \in Nat
      BY <3>2
    <3> HIDE DEF from
    <3>5. /\ AtMostOne(sent, "unit", u, from, turn[u].phase = "sending") =>
               AtMostOne(sent', "unit", u, from, turn'[u].phase = "sending")
          /\ AtMostOne(sent, "filler", u, from, filler[u].phase = "sending") =>
               AtMostOne(sent', "filler", u, from, filler'[u].phase = "sending")
      BY <2>3, <3>4
    <3> QED
      BY <3>3, <3>5 DEF from
  <2>6. \A u \in Turns : turn'[u].phase = "sending" => u \in first_audio
    BY DEF VoiceInv, AudioBounded
  <2> QED
    BY <1>2, <2>2, <2>4, <2>5, <2>6 DEF AudioBounded, n
<1> QED
  BY <1>3, <1>4, Sending DEF VoiceInv

LEMMA StartKeeps == ASSUME VoiceInv, NEW t \in Turns, SendStart(t) PROVE VoiceInv'
<1>1. /\ turn \in [Turns -> [phase: Phases, generation: Nat]]
      /\ turn' \in [Turns -> [phase: Phases, generation: Nat]]
  <2>1. "querying" \in Phases /\ turn' = [turn EXCEPT ![t].phase = "querying"]
    BY DEF Phases, Running, SendStart
  <2>2. /\ turn \in [Turns -> [phase: Phases, generation: Nat]]
        /\ [turn EXCEPT ![t].phase = "querying"] \in [Turns -> [phase: Phases, generation: Nat]]
    BY <2>1, PhasesTyped DEF VoiceInv
  <2> QED
    BY <2>1, <2>2
<1>2. /\ UNCHANGED <<stt, pump, queue, first_audio, filler, generation, raised_at, client>>
      /\ Send("start", t) /\ turn[t].phase = "starting"
  BY DEF SendStart, pumpVars
<1>3. /\ turn'[t].phase = "querying"
      /\ \A u \in Turns : turn'[u].generation = turn[u].generation
      /\ \A u \in Turns : u # t => turn'[u] = turn[u]
  BY <1>1 DEF SendStart
<1>4. turn[t].phase \in Running /\ turn'[t].phase \in Running \cup Over
  BY <1>2, <1>3 DEF Running
<1>5. t + Len(queue) = pump.turns /\ t + Len(queue) <= pump.turns
  <2>1. t + Len(queue) = pump.turns
    BY <1>4, TakenLast
  <2> QED
    BY <2>1, SentTyped DEF VoiceInv
<1>6. TurnsQueued'
  BY <1>2, <1>3, <1>4, MovesOn
<1>7. "start" \in {"start", "unit", "filler"}
  OBVIOUS
<1>8. TypeOK'
  <2>1. sent' \in Seq(Frames)
    BY <1>2, <1>7, Sending DEF VoiceInv
  <2> QED
    BY <1>1, <1>2, <2>1 DEF VoiceInv, TypeOK, Phases
<1>9. Raises' /\ FramesOrdered' /\ SuppressedOnly'
  BY <1>2, <1>3, <1>5, Speaks
<1>10. AudioBounded'
  BY <1>2, <1>3, SpeaksLittle
<1> QED
  BY <1>6, <1>8, <1>9, <1>10 DEF VoiceInv

LEMMA UnitKeeps == ASSUME VoiceInv, NEW t \in Turns, SendUnit(t) PROVE VoiceInv'
<1>1. /\ turn \in [Turns -> [phase: Phases, generation: Nat]]
      /\ turn' \in [Turns -> [phase: Phases, generation: Nat]]
  <2>1. "replying" \in Phases /\ turn' = [turn EXCEPT ![t].phase = "replying"]
    BY DEF Phases, Running, SendUnit
  <2>2. /\ turn \in [Turns -> [phase: Phases, generation: Nat]]
        /\ [turn EXCEPT ![t].phase = "replying"] \in [Turns -> [phase: Phases, generation: Nat]]
    BY <2>1, PhasesTyped DEF VoiceInv
  <2> QED
    BY <2>1, <2>2
<1>2. /\ UNCHANGED <<stt, pump, queue, first_audio, filler, generation, raised_at, client>>
      /\ Send("unit", t) /\ turn[t].phase = "sending"
  BY DEF SendUnit, pumpVars
<1>3. /\ turn'[t].phase = "replying"
      /\ \A u \in Turns : turn'[u].generation = turn[u].generation
      /\ \A u \in Turns : u # t => turn'[u] = turn[u]
  BY <1>1 DEF SendUnit
<1>4. turn[t].phase \in Running /\ turn'[t].phase \in Running \cup Over
  BY <1>2, <1>3 DEF Running
<1>5. t + Len(queue) = pump.turns /\ t + Len(queue) <= pump.turns
  <2>1. t + Len(queue) = pump.turns
    BY <1>4, TakenLast
  <2> QED
    BY <2>1, SentTyped DEF VoiceInv
<1>6. TurnsQueued'
  BY <1>2, <1>3, <1>4, MovesOn
<1>8. TypeOK'
  <2>1. sent' \in Seq(Frames)
    BY <1>2, Sending DEF VoiceInv
  <2> QED
    BY <1>1, <1>2, <2>1 DEF VoiceInv, TypeOK, Phases
<1>9. Raises' /\ FramesOrdered' /\ SuppressedOnly'
  <2>1. HasBegun(t)
    BY DEF VoiceInv, FramesOrdered
  <2> QED
    BY <1>2, <1>3, <1>5, <2>1, Speaks
<1>10. AudioBounded'
  BY <1>2, <1>3, SpeaksLittle
<1> QED
  BY <1>6, <1>8, <1>9, <1>10 DEF VoiceInv

LEMMA FillerSent == ASSUME VoiceInv, NEW t \in Turns, SendFiller(t) PROVE VoiceInv'
<1>1. /\ filler \in [Turns -> [phase: FillerPhases, cancelled: BOOLEAN]]
      /\ filler' \in [Turns -> [phase: FillerPhases, cancelled: BOOLEAN]]
  <2>1. "sent" \in FillerPhases /\ filler' = [filler EXCEPT ![t].phase = "sent"]
    BY DEF FillerPhases, SendFiller
  <2>2. /\ filler \in [Turns -> [phase: FillerPhases, cancelled: BOOLEAN]]
        /\ [filler EXCEPT ![t].phase = "sent"] \in [Turns -> [phase: FillerPhases, cancelled: BOOLEAN]]
    BY <2>1, PhasesTyped DEF VoiceInv
  <2> QED
    BY <2>1, <2>2
<1>2. /\ UNCHANGED <<stt, pump, queue, turn, first_audio, generation, raised_at, client>>
      /\ Send("filler", t) /\ filler[t].phase = "sending"
  BY DEF SendFiller, pumpVars
<1>3. /\ filler'[t].phase = "sent"
      /\ \A u \in Turns : u # t => filler'[u] = filler[u]
  BY <1>1 DEF SendFiller
<1>4. HasBegun(t)
  BY DEF VoiceInv, FramesOrdered
<1>5. TurnsQueued'
  BY <1>2 DEF VoiceInv, TurnsQueued
<1>6. TypeOK'
  <2>1. sent' \in Seq(Frames)
    BY <1>2, Sending DEF VoiceInv
  <2> QED
    BY <1>1, <1>2, <2>1 DEF VoiceInv, TypeOK, FillerPhases
<1>7. AudioBounded'
  BY <1>2, <1>3, SpeaksLittle
<1>8. CASE client.open
  \* Its turn has begun: it is taken.
  <2>1. PICK i \in 1..Len(sent) : Is(sent[i], "start", t)
    BY <1>2, <1>4, <1>8 DEF HasBegun
  <2>2. t + Len(queue) <= pump.turns
    BY <2>1 DEF VoiceInv, FramesOrdered, Is
  <2>3. Raises' /\ FramesOrdered' /\ SuppressedOnly'
    BY <1>2, <1>3, <1>4, <2>2, Speaks
  <2> QED
    BY <1>5, <1>6, <1>7, <2>3 DEF VoiceInv
<1>9. CASE ~client.open
  <2>1. sent' = sent
    BY <1>2, <1>9 DEF Send
  <2>2. FramesOrdered'
    BY <1>2, <1>9, <2>1 DEF VoiceInv, FramesOrdered, HasBegun
  <2>3. Raises'
    BY <1>2 DEF VoiceInv, Raises
  <2>4. SuppressedOnly'
    BY <1>2, <2>1 DEF VoiceInv, SuppressedOnly
  <2> QED
    BY <1>5, <1>6, <1>7, <2>2, <2>3, <2>4 DEF VoiceInv
<1> QED
  BY <1>8, <1>9

LEMMA TurnKeeps == ASSUME VoiceInv, NEW t \in Turns, TurnStep(t) PROVE VoiceInv'
<1> USE DEF EndTurn, pumpVars
<1>1. CASE TakeTurn(t)
  BY <1>1, TakeKeeps
<1>2. CASE SendStart(t)
  BY <1>2, StartKeeps
<1>3. CASE Query(t)
  <2>1. "replying" \in Running \cup Over /\ turn[t].phase \in Running
    BY <1>3 DEF Running, Query
  <2> QED
    BY <1>3, <2>1, PhaseKeeps DEF Query
<1>4. CASE NextUnit(t)
  <2>1. "sending" \in Running \cup Over /\ turn[t].phase \in Running
    BY <1>4 DEF Running, NextUnit
  <2> QED
    BY <1>4, <2>1, PhaseKeeps DEF NextUnit
<1>5. CASE SendUnit(t)
  BY <1>5, UnitKeeps
<1>6. CASE BargedOut(t)
  <2>1. "barged" \in Running \cup Over /\ turn[t].phase \in Running
    BY <1>6 DEF Running, Over, BargedOut
  <2> QED
    BY <1>6, <2>1, PhaseKeeps DEF BargedOut
<1>7. CASE ReplyEnds(t)
  <2>1. "done" \in Running \cup Over /\ turn[t].phase \in Running
    BY <1>7 DEF Running, Over, ReplyEnds
  <2> QED
    BY <1>7, <2>1, PhaseKeeps DEF ReplyEnds
<1>8. CASE TurnFails(t)
  <2>1. "failed" \in Running \cup Over /\ turn[t].phase \in Running
    BY <1>8 DEF Running, Over, TurnFails
  <2> QED
    BY <1>8, <2>1, PhaseKeeps DEF TurnFails
<1> QED
  BY <1>1, <1>2, <1>3, <1>4, <1>5, <1>6, <1>7, <1>8 DEF TurnStep

LEMMA FillerStepKeeps == ASSUME VoiceInv, NEW t \in Turns, FillerStep(t) PROVE VoiceInv'
<1>1. CASE FillerWakes(t)
  BY <1>1, FillerKeeps DEF FillerWakes, pumpVars
<1>2. CASE NextFiller(t)
  BY <1>2, FillerKeeps DEF NextFiller, FillerMaySend, pumpVars
<1>3. CASE SendFiller(t)
  BY <1>3, FillerSent
<1>4. CASE FillerEnds(t)
  BY <1>4, FillerKeeps DEF FillerEnds, FillerStops, pumpVars
<1> QED
  BY <1>1, <1>2, <1>3, <1>4 DEF FillerStep

LEMMA HearingKept ==
  /\ Init => Hearing
  /\ TypeOK /\ Hearing /\ [Next]_vars => Hearing'
<1>1. Init => Hearing
  BY Parameters DEF Init, Hearing
<1>2. ASSUME TypeOK, Hearing, [Next]_vars PROVE Hearing'
  <2>1. CASE UNCHANGED pump
    BY <1>2, <2>1 DEF Hearing
  <2>2. CASE HearFinal \/ PumpEnds
    BY <1>2, <2>2 DEF HearFinal, PumpEnds, Hearing
  <2>3. CASE EndUtterance
    <3>1. pump.turns + 1 \in 0..MaxTurns
      BY <1>2, <2>3, Parameters DEF queued, EndUtterance, Hearing
    <3>2. pump' = [pump EXCEPT !.buffered = FALSE, !.turns = pump.turns + 1]
      BY <2>3 DEF queued, EndUtterance
    <3> QED
      BY <1>2, <3>1, <3>2 DEF Hearing
  <2>4. CASE SttStep
    BY <2>1, <2>4 DEF SttStep, SttConnects, SttDrops, SttDropsLate
  <2>5. ASSUME NEW t \in Turns, TurnStep(t) \/ FillerStep(t) PROVE Hearing'
    BY <2>1, <2>5 DEF TurnStep, FillerStep, TakeTurn, SendStart, Query, NextUnit, SendUnit, BargedOut,
         ReplyEnds, TurnFails, EndTurn, FillerWakes, NextFiller, SendFiller, FillerEnds, FillerStops, pumpVars
  <2>6. CASE BargeIn \/ Raise \/ Receive \/ Close
    BY <2>1, <2>6 DEF BargeIn, Raise, Receive, Close, pumpVars
  <2>7. CASE UNCHANGED vars
    BY <2>1, <2>7 DEF vars
  <2> QED
    BY <1>2, <2>2, <2>3, <2>4, <2>5, <2>6, <2>7 DEF Next, PumpStep
<1> QED
  BY <1>1, <1>2

LEMMA UtteranceKeeps == VoiceInv /\ Hearing /\ EndUtterance => VoiceInv'
<1> SUFFICES ASSUME VoiceInv, Hearing, EndUtterance PROVE VoiceInv'
  OBVIOUS
<1> DEFINE t == pump.turns + 1
<1>1. /\ pump \in [over: BOOLEAN, buffered: BOOLEAN, turns: 0..MaxTurns] /\ queue \in Seq(Turns)
      /\ turn \in [Turns -> [phase: Phases, generation: Nat]] /\ generation \in Nat
  BY DEF VoiceInv, TypeOK, Phases
<1>2. /\ Len(queue) \in Nat /\ pump.turns \in Nat /\ t \in Nat /\ t > pump.turns
      /\ \A u \in Turns : u \in Nat
  BY SentTyped, Parameters DEF VoiceInv
<1>3. /\ UNCHANGED <<stt, first_audio, filler, generation, sent, raised_at, client>>
      /\ pump' = [pump EXCEPT !.buffered = FALSE, !.turns = t] /\ queue' = Append(queue, t)
      /\ turn' = [turn EXCEPT ![t].phase = "queued", ![t].generation = generation]
  BY DEF queued, EndUtterance
<1>4. pump.turns < MaxTurns
  BY DEF queued, EndUtterance, Hearing
<1>5. VoiceInv'
  <2>1. t \in Turns /\ t \in 0..MaxTurns
    BY <1>2, <1>4, Parameters DEF Turns
  <2>2. /\ pump' \in [over: BOOLEAN, buffered: BOOLEAN, turns: 0..MaxTurns] /\ pump'.turns = t
    BY <1>1, <1>3, <2>1
  <2>3. /\ queue' \in Seq(Turns) /\ Len(queue') = Len(queue) + 1 /\ queue'[Len(queue) + 1] = t
        /\ \A i \in 1..Len(queue) : queue'[i] = queue[i]
    <3> HIDE DEF t
    <3> QED
      BY <1>1, <1>3, <2>1, AppendProperties
  <2>4. /\ turn' \in [Turns -> [phase: Phases, generation: Nat]]
        /\ turn'[t].phase = "queued" /\ turn'[t].generation = generation
        /\ \A u \in Turns : u # t => turn'[u] = turn[u]
    <3>1. "queued" \in Phases
      BY DEF Phases
    <3> HIDE DEF t
    <3> QED
      BY <1>1, <1>3, <2>1, <3>1
  <2>5. TypeOK'
    BY <1>3, <2>2, <2>3, <2>4 DEF VoiceInv, TypeOK, Phases
  <2>6. Raises'
    <3>1. \A u \in Turns : turn'[u].generation <= generation
      <4>1. ASSUME NEW u \in Turns PROVE turn'[u].generation <= generation
        <5>1. turn[u].generation <= generation /\ generation <= generation
          BY <1>1 DEF VoiceInv, Raises
        <5> HIDE DEF t
        <5> QED
          BY <2>4, <5>1
      <4> QED
        BY <4>1
    <3> QED
      BY <1>3, <3>1 DEF VoiceInv, Raises
  <2>7. TurnsQueued'
    <3>1. ASSUME NEW i \in 1..Len(queue') PROVE queue'[i] + Len(queue') = t + i
      <4>1. CASE i = Len(queue) + 1
        BY <1>2, <2>3, <4>1
      <4>2. CASE i \in 1..Len(queue)
        <5>1. queue[i] + Len(queue) = pump.turns + i /\ queue[i] \in Nat
          BY <1>1, <1>2, <4>2 DEF VoiceInv, TurnsQueued
        <5> DEFINE q == queue[i]
        <5>2. q \in Nat /\ q + Len(queue) = pump.turns + i /\ queue'[i] = q
          BY <2>3, <4>2, <5>1
        <5> DEFINE now == Len(queue')
               was == Len(queue)
               last == pump.turns
        <5>3. /\ now = was + 1 /\ t = last + 1 /\ q + was = last + i
              /\ was \in Nat /\ last \in Nat /\ i \in Nat /\ q \in Nat
          BY <1>2, <2>3, <5>2
        <5> HIDE DEF q, now, was, last, t
        <5>4. q + now = t + i
          BY <5>3
        <5> QED
          BY <5>2, <5>4 DEF now
      <4> QED
        BY <1>2, <2>3, <4>1, <4>2
    <3>2. ASSUME NEW u \in Turns
          PROVE  /\ turn'[u].phase = "unspoken" <=> u > t
                 /\ turn'[u].phase = "queued" <=> (u <= t /\ u + Len(queue') > t)
                 /\ u + Len(queue') < t => turn'[u].phase \in Over
      <4>1. CASE u = t
        <5>1. ~(u > t) /\ u <= t /\ u + Len(queue') > t /\ ~(u + Len(queue') < t)
          BY <1>2, <2>3, <4>1
        <5> QED
          BY <2>4, <4>1, <5>1
      <4>2. CASE u # t
        <5>1. /\ u > t <=> u > pump.turns
              /\ (u <= t /\ u + Len(queue') > t) <=> (u <= pump.turns /\ u + Len(queue) > pump.turns)
              /\ u + Len(queue') < t <=> u + Len(queue) < pump.turns
          BY <1>2, <2>3, <4>2
        <5>2. /\ turn[u].phase = "unspoken" <=> u > pump.turns
              /\ turn[u].phase = "queued" <=> (u <= pump.turns /\ u + Len(queue) > pump.turns)
              /\ u + Len(queue) < pump.turns => turn[u].phase \in Over
          BY DEF VoiceInv, TurnsQueued
        <5>3. turn'[u] = turn[u]
          BY <2>4, <4>2
        <5> HIDE DEF t
        <5> QED
          BY <5>1, <5>2, <5>3
      <4> QED
        BY <4>1, <4>2
    <3> HIDE DEF t
    <3> QED
      BY <2>2, <3>1, <3>2 DEF TurnsQueued
  <2>8. FramesOrdered'
    <3>1. ASSUME NEW j \in 1..Len(sent) PROVE sent[j].turn + Len(queue') <= t
      <4>1. sent[j].turn \in Nat /\ sent[j].turn + Len(queue) <= pump.turns
        BY SentTyped DEF VoiceInv, FramesOrdered
      <4> QED
        BY <1>2, <2>3, <4>1
    <3>2. ASSUME NEW u \in Turns PROVE HasBegun(u)'
      <4>1. turn'[u].phase \in {"querying", "replying", "sending"} => turn'[u] = turn[u]
        BY <2>4
      <4> QED
        BY <1>3, <4>1 DEF VoiceInv, FramesOrdered, HasBegun
    <3> HIDE DEF t
    <3> QED
      BY <1>3, <2>2, <3>1, <3>2 DEF VoiceInv, FramesOrdered
  <2>9. AudioBounded'
    <3>1. \A u \in Turns : turn'[u].phase = "sending" => u \in first_audio
      BY <2>4 DEF VoiceInv, AudioBounded
    <3>2. ASSUME NEW u \in Turns, turn'[u].phase # "unspoken", turn'[u].generation < generation
          PROVE  /\ AtMostOne(sent, "unit", u, BargedAt(u)', turn'[u].phase = "sending")
                 /\ AtMostOne(sent, "filler", u, BargedAt(u)', filler[u].phase = "sending")
      <4>1. u # t
        BY <1>1, <2>4, <3>2
      <4>2. turn'[u] = turn[u] /\ BargedAt(u)' = BargedAt(u)
        BY <1>3, <2>4, <4>1 DEF BargedAt
      <4> QED
        BY <3>2, <4>2 DEF VoiceInv, AudioBounded
    <3> QED
      BY <1>3, <3>1, <3>2 DEF VoiceInv, AudioBounded
  <2>10. SuppressedOnly'
    \* What was sent, or dropped, is not of the turn that begins.
    <3>1. ASSUME NEW i \in 1..Len(sent) PROVE sent[i].turn \in Turns /\ sent[i].turn # t
      <4>1. sent[i].turn \in Turns /\ sent[i].turn \in Nat /\ sent[i].turn + Len(queue) <= pump.turns
        BY SentTyped DEF VoiceInv, FramesOrdered
      <4> QED
        BY <1>2, <4>1
    <3>2. \A i \in 1..client.read : i \in 1..Len(sent)
      BY SentTyped DEF VoiceInv, SuppressedOnly
    <3>3. ASSUME NEW u \in client.dropped
          PROVE  u <= t /\ turn'[u].generation < client.barge_ins
      <4>1. u \in Turns /\ u <= pump.turns /\ turn[u].generation < client.barge_ins
        BY DEF VoiceInv, TypeOK, SuppressedOnly
      <4>2. u <= t /\ u # t
        BY <1>2, <4>1
      <4> QED
        BY <2>4, <4>1, <4>2
    <3>4. \A i \in 1..client.read : turn'[sent[i].turn] = turn[sent[i].turn]
      BY <2>4, <3>1, <3>2
    <3> HIDE DEF t
    <3> QED
      BY <1>3, <2>2, <3>3, <3>4 DEF VoiceInv, SuppressedOnly
  <2> QED
    BY <2>5, <2>6, <2>7, <2>8, <2>9, <2>10 DEF VoiceInv
<1> QED
  BY <1>5

LEMMA RaiseKeeps == VoiceInv /\ Raise => VoiceInv'
<1> SUFFICES ASSUME VoiceInv, Raise PROVE VoiceInv'
  OBVIOUS
<1>1. /\ UNCHANGED <<stt, pump, queue, turn, first_audio, filler, sent, client>>
      /\ generation < client.barge_ins /\ generation' = generation + 1
      /\ raised_at' = Append(raised_at, Len(sent))
  BY DEF Raise, pumpVars, turnVars
<1>2. /\ generation \in Nat /\ client.barge_ins \in Nat /\ Len(sent) \in Nat
      /\ raised_at \in Seq(Nat) /\ Len(raised_at) = generation
      /\ \A u \in Turns : turn[u].generation \in Nat
  BY SentTyped DEF VoiceInv, Raises, TypeOK
<1>3. /\ raised_at' \in Seq(Nat) /\ Len(raised_at') = generation + 1
      /\ raised_at'[generation + 1] = Len(sent)
      /\ \A i \in 1..generation : raised_at'[i] = raised_at[i]
  BY <1>1, <1>2, AppendProperties
<1>4. TypeOK'
  BY <1>1, <1>2, <1>3 DEF VoiceInv, TypeOK
<1>5. Raises'
  <2>1. \A u \in Turns : turn[u].generation <= generation + 1
    BY <1>2 DEF VoiceInv, Raises
  <2> QED
    BY <1>1, <1>2, <1>3, <2>1 DEF Raises
<1>6. TurnsQueued' /\ FramesOrdered' /\ SuppressedOnly'
  BY <1>1 DEF VoiceInv, TurnsQueued, FramesOrdered, HasBegun, SuppressedOnly
<1>7. AudioBounded'
  <2>1. ASSUME NEW u \in Turns, turn[u].phase # "unspoken", turn[u].generation < generation + 1
        PROVE  /\ AtMostOne(sent, "unit", u, BargedAt(u)', turn[u].phase = "sending")
               /\ AtMostOne(sent, "filler", u, BargedAt(u)', filler[u].phase = "sending")
    <3>1. CASE turn[u].generation < generation
      <4>1. turn[u].generation + 1 \in 1..generation
        BY <1>2, <3>1
      <4>2. BargedAt(u)' = BargedAt(u)
        BY <1>1, <1>3, <4>1 DEF BargedAt
      <4> QED
        BY <2>1, <3>1, <4>2 DEF VoiceInv, AudioBounded
    <3>2. CASE turn[u].generation = generation
      \* Nothing was sent since this barge-in.
      <4>1. BargedAt(u)' = Len(sent) + 1
        BY <1>1, <1>3, <3>2 DEF BargedAt
      <4>2. \A i \in 1..Len(sent) : ~(Len(sent) + 1 <= i)
        BY <1>2
      <4> QED
        BY <4>1, <4>2 DEF AtMostOne
    <3> QED
      BY <1>2, <2>1, <3>1, <3>2
  <2> QED
    BY <1>1, <2>1 DEF VoiceInv, AudioBounded
<1> QED
  BY <1>4, <1>5, <1>6, <1>7 DEF VoiceInv

\* Steps of the phone.
LEMMA PhoneKeeps ==
  ASSUME VoiceInv, client' \in ClientType, SuppressedOnly',
         client.barge_ins <= client'.barge_ins, client'.open => client.open,
         UNCHANGED <<stt, pump, queue, turn, first_audio, filler, generation, sent, raised_at>>
  PROVE  VoiceInv'
<1>1. TypeOK'
  BY DEF VoiceInv, TypeOK, ClientType
<1>2. Raises'
  <2>1. generation \in Nat /\ client.barge_ins \in Nat /\ client'.barge_ins \in Nat
    BY SentTyped DEF VoiceInv, ClientType
  <2>2. generation <= client.barge_ins
    BY DEF VoiceInv, Raises
  <2>3. generation <= client'.barge_ins
    BY <2>1, <2>2
  <2> QED
    BY <2>3 DEF VoiceInv, Raises
<1>3. TurnsQueued' /\ FramesOrdered'
  BY DEF VoiceInv, TurnsQueued, FramesOrdered, HasBegun
<1>4. AudioBounded'
  BY DEF VoiceInv, AudioBounded, BargedAt
<1> QED
  BY <1>1, <1>2, <1>3, <1>4 DEF VoiceInv

LEMMA ClientKeeps == VoiceInv /\ (BargeIn \/ Receive \/ Close) => VoiceInv'
<1> SUFFICES ASSUME VoiceInv, BargeIn \/ Receive \/ Close PROVE VoiceInv'
  OBVIOUS
<1>1. client \in ClientType
  BY DEF VoiceInv, TypeOK, ClientType
<1>2. UNCHANGED <<stt, pump, queue, turn, first_audio, filler, generation, sent, raised_at>>
  BY DEF BargeIn, Receive, Close, pumpVars, turnVars
<1>3. /\ client.read \in Nat /\ client.barge_ins \in Nat /\ Len(sent) \in Nat /\ generation \in Nat
      /\ client.read <= Len(sent) /\ generation <= client.barge_ins
      /\ \A i \in 1..Len(sent) : sent[i].turn \in Turns /\ sent[i].turn \in Nat
      /\ pump.turns \in Nat /\ Len(queue) \in Nat
      /\ \A u \in Turns : turn[u].generation \in Nat /\ turn[u].generation <= generation
  BY SentTyped DEF VoiceInv, SuppressedOnly, Raises, TypeOK
<1>4. /\ \A i \in 1..client.read : i \in 1..Len(sent)
      /\ \A u \in client.dropped : u \in Turns /\ u <= pump.turns /\ turn[u].generation < client.barge_ins
  BY <1>3 DEF VoiceInv, SuppressedOnly, TypeOK
<1>5. CASE BargeIn
  \* No turn has seen this barge-in yet.
  <2>1. /\ client' = [client EXCEPT !.suppressing = TRUE, !.barge_ins = client.barge_ins + 1]
        /\ client.barge_ins + 1 \in Nat
    BY <1>3, <1>5 DEF BargeIn
  <2>2. /\ client' \in ClientType /\ client'.barge_ins = client.barge_ins + 1 /\ client'.open = client.open
        /\ client'.read = client.read /\ client'.dropped = client.dropped
    BY <1>1, <2>1 DEF ClientType
  <2>3. \A u \in Turns : turn[u].generation < client.barge_ins + 1
    BY <1>3
  <2>4. client.barge_ins <= client.barge_ins + 1
    BY <1>3
  <2>5. SuppressedOnly'
    BY <1>2, <1>3, <1>4, <2>2, <2>3 DEF SuppressedOnly
  <2> QED
    BY <1>2, <2>2, <2>4, <2>5, PhoneKeeps
<1>6. CASE Close
  <2>1. /\ client' \in ClientType /\ client'.barge_ins = client.barge_ins /\ client'.open = FALSE
        /\ client'.read = client.read /\ client'.dropped = client.dropped
        /\ client'.suppressing = client.suppressing
    BY <1>1, <1>6 DEF Close, ClientType
  <2>2. SuppressedOnly'
    BY <1>2, <2>1 DEF VoiceInv, SuppressedOnly
  <2>3. client.barge_ins <= client'.barge_ins
    BY <1>3, <2>1
  <2> QED
    BY <1>2, <2>1, <2>2, <2>3, PhoneKeeps
<1>7. CASE Receive
  <2> DEFINE n == client.read + 1
             frame == sent[n]
  <2>1. /\ n \in 1..Len(sent) /\ n \in Nat /\ n <= Len(sent) /\ frame.turn \in Turns
        /\ \A i \in 1..n : i = n \/ i \in 1..client.read
        /\ \A i \in 1..Len(sent) : i < n => i \in 1..client.read
    BY <1>3, <1>7 DEF Receive
  <2>2. \/ /\ frame.kind = "start"
           /\ client' = [client EXCEPT !.read = n, !.suppressing = FALSE]
        \/ /\ frame.kind # "start"
           /\ client' = [client EXCEPT !.read = n,
                           !.dropped = IF client.suppressing THEN client.dropped \cup {frame.turn}
                                       ELSE client.dropped]
    BY <1>7 DEF Receive
  <2> HIDE DEF n, frame
  <2>3. client.barge_ins <= client.barge_ins
    BY <1>3
  <2>4. CASE /\ frame.kind = "start"
             /\ client' = [client EXCEPT !.read = n, !.suppressing = FALSE]
    <3>1. /\ client' \in ClientType /\ client'.barge_ins = client.barge_ins /\ client'.open = client.open
          /\ client'.read = n /\ client'.dropped = client.dropped /\ client'.suppressing = FALSE
      BY <1>1, <2>1, <2>4 DEF ClientType
    <3>2. SuppressedOnly'
      BY <1>2, <1>4, <2>1, <3>1 DEF SuppressedOnly
    <3> QED
      BY <1>2, <2>3, <3>1, <3>2, PhoneKeeps
  <2>5. CASE /\ frame.kind # "start"
             /\ client' = [client EXCEPT !.read = n,
                             !.dropped = IF client.suppressing THEN client.dropped \cup {frame.turn}
                                         ELSE client.dropped]
    <3>1. /\ client' \in ClientType /\ client'.barge_ins = client.barge_ins /\ client'.open = client.open
          /\ client'.read = n /\ client'.suppressing = client.suppressing
          /\ client'.dropped \subseteq client.dropped \cup {frame.turn}
          /\ ~client.suppressing => client'.dropped = client.dropped
      BY <1>1, <2>1, <2>5 DEF ClientType
    \* Its turn's start was read before it, while the phone suppressed.
    <3>2. ASSUME client.suppressing
          PROVE  frame.turn <= pump.turns /\ turn[frame.turn].generation < client.barge_ins
      <4>1. PICK i \in 1..Len(sent) : i < n /\ Is(sent[i], "start", frame.turn)
        BY <2>1, <2>5 DEF VoiceInv, FramesOrdered, frame
      <4>2. turn[frame.turn].generation < client.barge_ins
        BY <2>1, <3>2, <4>1 DEF VoiceInv, SuppressedOnly, Is
      <4>3. frame.turn + Len(queue) <= pump.turns /\ frame.turn \in Nat
        BY <1>3, <2>1 DEF VoiceInv, FramesOrdered, frame
      <4>4. frame.turn <= pump.turns
        BY <1>3, <4>3
      <4> QED
        BY <4>2, <4>4
    <3>3. \A u \in client'.dropped : u <= pump.turns /\ turn[u].generation < client.barge_ins
      BY <1>4, <3>1, <3>2
    <3>4. client.suppressing => \A i \in 1..n :
            sent[i].kind = "start" => turn[sent[i].turn].generation < client.barge_ins
      BY <2>1, <2>5 DEF VoiceInv, SuppressedOnly, frame
    <3>5. SuppressedOnly'
      BY <1>2, <2>1, <3>1, <3>3, <3>4 DEF SuppressedOnly
    <3> QED
      BY <1>2, <2>3, <3>1, <3>5, PhoneKeeps
  <2> QED
    BY <2>2, <2>4, <2>5
<1> QED
  BY <1>5, <1>6, <1>7

LEMMA NextInv == VoiceInv /\ Hearing /\ [Next]_vars => VoiceInv'
<1> SUFFICES ASSUME VoiceInv, Hearing, [Next]_vars PROVE VoiceInv'
  OBVIOUS
<1>1. CASE SttStep
  BY <1>1, SttKeeps
<1>2. CASE PumpStep
  BY <1>2, HeardKeeps, UtteranceKeeps DEF PumpStep
<1>3. ASSUME NEW t \in Turns, TurnStep(t) \/ FillerStep(t) PROVE VoiceInv'
  BY <1>3, TurnKeeps, FillerStepKeeps
<1>4. CASE Raise
  BY <1>4, RaiseKeeps
<1>5. CASE BargeIn \/ Receive \/ Close
  BY <1>5, ClientKeeps
<1>6. CASE UNCHANGED vars
  <2>1. TypeOK'
    BY <1>6 DEF VoiceInv, TypeOK, vars
  <2> QED
    BY <1>6, <2>1, Untouched DEF vars
<1> QED
  BY <1>1, <1>2, <1>3, <1>4, <1>5, <1>6 DEF Next

LEMMA InvKept == Spec => []VoiceInv
<1>1. VoiceInv => TypeOK
  BY DEF VoiceInv
<1> QED
  BY <1>1, InitInv, NextInv, HearingKept, PTL DEF Spec

\* However the tasks of a session interleave, the turns reply in the order the resident
\* spoke, one at a time, and a turn's own audio follows its response_start.
THEOREM TurnsAlwaysInOrder == Spec => []TurnsInOrder
<1>1. VoiceInv => TurnsInOrder
  <2> SUFFICES ASSUME VoiceInv, NEW j \in 1..Len(sent)
               PROVE  /\ sent[j].kind = "start" =>
                           \A i \in 1..(j - 1) : sent[i].kind = "start" =>
                                                    sent[i].turn <= sent[j].turn
                      /\ sent[j].kind = "unit" =>
                           \E i \in 1..(j - 1) :
                             /\ sent[i] = [kind |-> "start", turn |-> sent[j].turn]
                             /\ \A k \in i..j : sent[k].kind = "filler" \/ sent[k].turn = sent[j].turn
    BY DEF TurnsInOrder
  <2>1. \A i \in 1..(j - 1) : i \in 1..Len(sent) /\ i <= j
    BY SentTyped DEF VoiceInv
  <2>2. sent[j].kind = "start" =>
          \A i \in 1..(j - 1) : sent[i].kind = "start" => sent[i].turn <= sent[j].turn
    BY <2>1 DEF VoiceInv, FramesOrdered
  <2>3. ASSUME sent[j].kind = "unit"
        PROVE  \E i \in 1..(j - 1) :
                 /\ sent[i] = [kind |-> "start", turn |-> sent[j].turn]
                 /\ \A k \in i..j : sent[k].kind = "filler" \/ sent[k].turn = sent[j].turn
    <3>1. PICK i \in 1..Len(sent) : i < j /\ Is(sent[i], "start", sent[j].turn)
      BY <2>3 DEF VoiceInv, FramesOrdered
    <3>2. /\ i \in 1..(j - 1) /\ Len(sent) \in Nat
          /\ \A k \in i..j : k \in 1..Len(sent) /\ i <= k /\ k <= j
      BY <3>1, SentTyped DEF VoiceInv
    <3>3. sent[i] = [kind |-> "start", turn |-> sent[j].turn]
      <4>1. sent[i] \in Frames
        BY <3>1 DEF VoiceInv, TypeOK
      <4> QED
        BY <3>1, <4>1 DEF Frames, Is
    <3>4. ASSUME NEW k \in i..j, sent[k].kind # "filler" PROVE sent[k].turn = sent[j].turn
      <4>1. sent[i].turn <= sent[k].turn /\ sent[k].turn <= sent[j].turn /\ sent[i].turn = sent[j].turn
        BY <2>3, <3>1, <3>2, <3>4 DEF VoiceInv, FramesOrdered, Is
      <4>2. sent[k].turn \in Nat /\ sent[j].turn \in Nat
        BY <3>2, SentTyped DEF VoiceInv
      <4> QED
        BY <4>1, <4>2
    <3> QED
      BY <3>2, <3>3, <3>4
  <2> QED
    BY <2>2, <2>3
<1> QED
  BY <1>1, InvKept, PTL

\* Frames of which any two are the same one are at most one.
LEMMA Few ==
  ASSUME NEW those, \A i, j \in those : i = j
  PROVE  Cardinality(those) <= 1
<1>1. CASE those = {}
  BY <1>1, FS_EmptySet
<1>2. CASE those # {}
  <2>1. PICK i : those = {i}
    BY <1>2
  <2> QED
    BY <2>1, FS_Singleton
<1> QED
  BY <1>1, <1>2

\* Once a turn's own audio has begun, or a barge-in that it is to notice has come,
\* it sends at most one unit, and one of its filler, more.
THEOREM AudioAlwaysYields == Spec => []AudioYields
<1>1. VoiceInv => AudioYields
  <2> SUFFICES ASSUME VoiceInv PROVE AudioYields
    OBVIOUS
  <2>1. ASSUME NEW kind, NEW t, NEW from \in Nat, NEW pending, 1 <= from,
               AtMostOne(sent, kind, t, from, pending)
        PROVE  Cardinality(frames(kind, t, from)) <= 1
    <3> DEFINE those == frames(kind, t, from)
    <3>1. \A i \in those : i \in 1..Len(sent) /\ from <= i /\ Is(sent[i], kind, t)
      BY <2>1, SentTyped DEF frames, Is, VoiceInv
    <3>2. \A i, j \in those : i = j
      BY <2>1, <3>1 DEF AtMostOne
    <3> HIDE DEF those
    <3>3. Cardinality(those) <= 1
      BY <3>2, Few
    <3> QED
      BY <3>3 DEF those
  <2>2. FillerYields
    <3> SUFFICES ASSUME NEW t \in Turns, NEW i \in frames("unit", t, 1)
                 PROVE  Cardinality(frames("filler", t, i)) <= 1
      BY DEF FillerYields
    <3>1. i \in 1..Len(sent) /\ Is(sent[i], "unit", t) /\ i \in Nat /\ 1 <= i
      BY DEF frames, Is
    <3>2. AtMostOne(sent, "filler", t, i, filler[t].phase = "sending")
      BY <3>1 DEF VoiceInv, AudioBounded
    <3> QED
      BY <2>1, <3>1, <3>2
  <2>3. BargeInStops
    <3> SUFFICES ASSUME NEW t \in Turns, turn[t].phase # "unspoken", is_raised_since(turn[t].generation)
                 PROVE  /\ Cardinality(frames("unit", t, BargedAt(t))) <= 1
                        /\ Cardinality(frames("filler", t, BargedAt(t))) <= 1
      BY DEF BargeInStops, BargedAt
    <3>1. /\ turn[t].generation \in Nat /\ generation \in Nat
          /\ raised_at \in Seq(Nat) /\ Len(raised_at) = generation
      BY DEF VoiceInv, TypeOK, Raises
    <3>2. turn[t].generation < generation
      BY <3>1 DEF is_raised_since
    <3>3. turn[t].generation + 1 \in 1..Len(raised_at)
      BY <3>1, <3>2
    <3>4. BargedAt(t) \in Nat /\ 1 <= BargedAt(t)
      <4>1. raised_at[turn[t].generation + 1] \in Nat
        BY <3>1, <3>3
      <4> QED
        BY <4>1 DEF BargedAt
    <3>5. /\ AtMostOne(sent, "unit", t, BargedAt(t), turn[t].phase = "sending")
          /\ AtMostOne(sent, "filler", t, BargedAt(t), filler[t].phase = "sending")
      BY <3>2 DEF VoiceInv, AudioBounded
    <3> QED
      BY <2>1, <3>4, <3>5
  <2> QED
    BY <2>2, <2>3 DEF VoiceInv, AudioYields
<1> QED
  BY <1>1, InvKept, PTL

\* The phone never drops audio of a turn queued after its last barge-in, also when
\* an earlier session left it suppressing.
THEOREM NextReplyAlwaysPlays == Spec => []NextReplyPlays
<1>1. VoiceInv => NextReplyPlays
  BY DEF VoiceInv, SuppressedOnly, NextReplyPlays
<1> QED
  BY <1>1, InvKept, PTL
=============================================================================
