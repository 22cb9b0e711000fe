----------------------------- MODULE VoiceSession -----------------------------
(***************************************************************************)
(* One voice session: ap-voice's transcription loop, utterance pump, turn  *)
(* worker and filler task (service.rs), the inbound pump that raises the   *)
(* barge-in signal (main.rs), and what the phone does with the frames it   *)
(* gets (audio-io.ts, voice-client.ts).                                    *)
(*                                                                         *)
(* The tasks run on several threads: they interleave between any two       *)
(* accesses to what they share, which are the barge-in generation, the     *)
(* first_audio flag and the sink.  JoinHandle::abort takes effect at the   *)
(* task's next await only.                                                 *)
(*                                                                         *)
(* Data abstraction: texts, sentences, reminders and transcripts carry no  *)
(* state the properties tell apart; a reply is the audio units that are    *)
(* sent for it.                                                            *)
(***************************************************************************)
EXTENDS Naturals, Sequences, FiniteSets

CONSTANTS MaxTurns,       \* bound: utterances spoken
          MaxUnits,       \* bound: audio units of replies
          MaxFiller,      \* bound: audio units of fillers
          MaxBargeIns,    \* bound: barge-ins of the resident
          MaxReconnect,   \* DEEPGRAM_MAX_RECONNECT
          EnableBargeIn   \* VoiceConfig.enable_barge_in

ASSUME VoiceAssumption ==
  /\ {MaxTurns, MaxUnits, MaxFiller, MaxBargeIns, MaxReconnect} \subseteq Nat
  /\ EnableBargeIn \in BOOLEAN

VARIABLES stt,          \* the transcription loop
          pump,         \* the utterance pump
          queue,        \* turns not taken yet
          turn,         \* per turn: what it is doing, and its generation
          first_audio,  \* turns whose own audio has begun
          filler,       \* per turn: its filler task
          generation,   \* the AbortSignal
          sent,         \* frames written to the client so far (history)
          raised_at,    \* length of sent at each raise (history)
          client        \* the phone

vars == <<stt, pump, queue, turn, first_audio, filler, generation, sent,
          raised_at, client>>
pumpVars == <<stt, pump>>
turnVars == <<queue, turn, first_audio, filler>>

Turns == 1..MaxTurns   \* in the order they are queued
Frames == [kind: {"start", "unit", "filler"}, turn: Turns]
Over == {"skipped", "done", "failed", "barged"}
Running == {"starting", "querying", "replying", "sending"}

Init == /\ stt \in [state: {"connecting", "over"}, attempts: {0}]
        /\ pump = [over |-> FALSE, buffered |-> FALSE, turns |-> 0]
        /\ queue = <<>>
        /\ turn = [t \in Turns |-> [phase |-> "unspoken", generation |-> 0]]
        /\ first_audio = {}
        /\ filler = [t \in Turns |-> [phase |-> "none", cancelled |-> FALSE]]
        /\ generation = 0
        /\ sent = <<>>
        /\ raised_at = <<>>
        /\ \E s \in BOOLEAN :   \* an earlier session may have left it raised
             client = [open |-> TRUE, suppressing |-> s, read |-> 0,
                       barge_ins |-> 0, dropped |-> {}]

-----------------------------------------------------------------------------
(* deepgram_loop *)

\* Faulty variant for mutation (bug_report.md:34): every connection counts as
\* recovery.
SttConnects_resets ==
  /\ stt.state = "connecting"
  /\ stt' = [state |-> "up", attempts |-> 0]
  /\ UNCHANGED <<pump, generation, sent, raised_at, client>> /\ UNCHANGED turnVars

SttConnects ==
  /\ stt.state = "connecting"
  /\ stt' = [stt EXCEPT !.state = "up"]
  /\ UNCHANGED <<pump, generation, sent, raised_at, client>> /\ UNCHANGED turnVars

\* A connect failure, or a connection dropped within ten seconds: reconnect
\* unless the budget is used up.
after_drop == IF stt.attempts >= MaxReconnect THEN [stt EXCEPT !.state = "over"]
              ELSE [state |-> "connecting", attempts |-> stt.attempts + 1]

SttDrops ==
  /\ stt.state \in {"connecting", "up"}
  /\ stt' = after_drop
  /\ UNCHANGED <<pump, generation, sent, raised_at, client>> /\ UNCHANGED turnVars

\* A connection that stayed up for ten seconds is dropped.
SttDropsLate ==
  /\ stt.state = "up"
  /\ stt' = [state |-> "connecting", attempts |-> 0]
  /\ UNCHANGED <<pump, generation, sent, raised_at, client>> /\ UNCHANGED turnVars

-----------------------------------------------------------------------------
(* VoiceSession.run: the pump.  Its sends to the client may fail unnoticed. *)

HearFinal ==
  /\ ~pump.buffered
  /\ stt.state = "up"
  /\ pump.turns < MaxTurns
  /\ pump' = [pump EXCEPT !.buffered = TRUE]
  /\ UNCHANGED <<stt, generation, sent, raised_at, client>> /\ UNCHANGED turnVars

\* Faulty variant for mutation: the worker takes the newest turn first.
queued_first(t) == <<t>> \o queue

queued(t) == Append(queue, t)

\* UtteranceEnd: the buffer is taken, the final transcript sent, and the turn
\* queued with the generation read after that.
EndUtterance ==
  LET t == pump.turns + 1 IN
  /\ pump.buffered
  /\ stt.state = "up"
  /\ pump' = [pump EXCEPT !.buffered = FALSE, !.turns = t]
  /\ turn' = [turn EXCEPT ![t].phase = "queued", ![t].generation = generation]
  /\ queue' = queued(t)
  /\ UNCHANGED <<stt, first_audio, filler, generation, sent, raised_at, client>>

\* No more transcripts: what is buffered is dropped, what is queued is not.
PumpEnds ==
  /\ stt.state = "over"
  /\ ~pump.over
  /\ pump' = [pump EXCEPT !.over = TRUE, !.buffered = FALSE]
  /\ UNCHANGED <<stt, generation, sent, raised_at, client>> /\ UNCHANGED turnVars

-----------------------------------------------------------------------------
(* The worker, and run_turn. *)

is_raised_since(g) == generation > g

\* A frame reaches the client's socket as long as that is open.
Send(kind, t) == sent' = IF client.open THEN Append(sent, [kind |-> kind, turn |-> t])
                         ELSE sent

count(kind) == Cardinality({i \in 1..Len(sent) : sent[i].kind = kind})

\* Faulty variant for mutation: a turn that fails ends the worker.
WorkerFree_until_failure == \A t \in Turns : turn[t].phase \notin Running \cup {"failed"}

WorkerFree == \A t \in Turns : turn[t].phase \notin Running

TakeTurn(t) ==
  /\ WorkerFree
  /\ queue # <<>> /\ t = Head(queue)
  /\ queue' = Tail(queue)
  /\ turn' = [turn EXCEPT ![t].phase = IF is_raised_since(turn[t].generation)
                                       THEN "skipped" ELSE "starting"]
  /\ UNCHANGED <<first_audio, filler, generation, sent, raised_at, client>>
  /\ UNCHANGED pumpVars

\* Faulty variant for mutation: no response_start.
SendStart_silent(t) ==
  /\ turn[t].phase = "starting"
  /\ turn' = [turn EXCEPT ![t].phase = "querying"]
  /\ UNCHANGED <<queue, first_audio, filler, generation, sent, raised_at, client>>
  /\ UNCHANGED pumpVars

SendStart(t) ==
  /\ turn[t].phase = "starting"
  /\ Send("start", t)
  /\ turn' = [turn EXCEPT ![t].phase = "querying"]
  /\ UNCHANGED <<queue, first_audio, filler, generation, raised_at, client>>
  /\ UNCHANGED pumpVars

\* The assistant accepts the query; the filler is spawned.
Query(t) ==
  /\ turn[t].phase = "querying"
  /\ turn' = [turn EXCEPT ![t].phase = "replying"]
  /\ filler' = [filler EXCEPT ![t].phase = "sleeping"]
  /\ UNCHANGED <<queue, first_audio, generation, sent, raised_at, client>>
  /\ UNCHANGED pumpVars

\* Every exit of the streaming body aborts the filler.
EndTurn(t, how) ==
  /\ turn' = [turn EXCEPT ![t].phase = how]
  /\ filler' = [filler EXCEPT ![t].cancelled = TRUE]
  /\ UNCHANGED <<queue, first_audio, generation, sent, raised_at, client>>
  /\ UNCHANGED pumpVars

MaySpeak(t) == ~is_raised_since(turn[t].generation)

\* The next unit of a sentence is there, and no barge-in is: it is sent next.
NextUnit(t) ==
  /\ turn[t].phase = "replying"
  /\ count("unit") < MaxUnits
  /\ MaySpeak(t)
  /\ turn' = [turn EXCEPT ![t].phase = "sending"]
  /\ first_audio' = first_audio \cup {t}
  /\ filler' = [filler EXCEPT ![t].cancelled = TRUE]
  /\ UNCHANGED <<queue, generation, sent, raised_at, client>> /\ UNCHANGED pumpVars

SendUnit(t) ==
  /\ turn[t].phase = "sending"
  /\ Send("unit", t)
  /\ turn' = [turn EXCEPT ![t].phase = "replying"]
  /\ UNCHANGED <<queue, first_audio, filler, generation, raised_at, client>>
  /\ UNCHANGED pumpVars

\* The next token or chunk finds that a barge-in has come.
BargedOut(t) ==
  /\ turn[t].phase = "replying"
  /\ is_raised_since(turn[t].generation)
  /\ EndTurn(t, "barged")

ReplyEnds(t) == turn[t].phase = "replying" /\ EndTurn(t, "done")

\* The assistant or the speech provider fails, or the client's socket is gone.
TurnFails(t) ==
  /\ \/ turn[t].phase \in {"querying", "replying"}
     \/ turn[t].phase \in {"starting", "sending"} /\ ~client.open
  /\ EndTurn(t, "failed")

-----------------------------------------------------------------------------
(* spawn_filler *)

FillerStops(t) ==
  /\ filler' = [filler EXCEPT ![t].phase = "over"]
  /\ UNCHANGED <<queue, turn, first_audio, generation, sent, raised_at, client>>
  /\ UNCHANGED pumpVars

Pointless(t) == t \in first_audio \/ is_raised_since(turn[t].generation)

FillerWakes(t) ==
  /\ filler[t].phase = "sleeping" /\ ~filler[t].cancelled
  /\ ~Pointless(t)
  /\ filler' = [filler EXCEPT ![t].phase = "waiting"]
  /\ UNCHANGED <<queue, turn, first_audio, generation, sent, raised_at, client>>
  /\ UNCHANGED pumpVars

\* Faulty variant for mutation: only a barge-in is looked at.
FillerMaySend_no_flag(t) == ~is_raised_since(turn[t].generation)

FillerMaySend(t) == ~Pointless(t)

\* A unit is there and the flags are looked at.  One that was left over from
\* the last chunk is not awaited, so that an abort does not stop it.
NextFiller(t) ==
  /\ \/ filler[t].phase = "waiting" /\ ~filler[t].cancelled
     \/ filler[t].phase = "sent"
  /\ count("filler") < MaxFiller
  /\ FillerMaySend(t)
  /\ filler' = [filler EXCEPT ![t].phase = "sending"]
  /\ UNCHANGED <<queue, turn, first_audio, generation, sent, raised_at, client>>
  /\ UNCHANGED pumpVars

SendFiller(t) ==
  /\ filler[t].phase = "sending"
  /\ Send("filler", t)
  /\ filler' = [filler EXCEPT ![t].phase = "sent"]
  /\ UNCHANGED <<queue, turn, first_audio, generation, raised_at, client>>
  /\ UNCHANGED pumpVars

\* It is aborted at an await, finds itself pointless, or has nothing (more)
\* to say.
FillerEnds(t) ==
  /\ filler[t].phase \in {"sleeping", "waiting", "sending", "sent"}
  /\ \/ filler[t].cancelled
     \/ Pointless(t) /\ filler[t].phase # "sending"
     \/ filler[t].phase \in {"waiting", "sent"}
  /\ FillerStops(t)

-----------------------------------------------------------------------------
(* The phone, and the inbound pump. *)

\* The resident speaks over what is being played (how long a unit stays
\* audible is left open).
BargeIn ==
  /\ client.open
  /\ client.barge_ins < MaxBargeIns
  /\ \E i \in 1..client.read : sent[i].kind # "start"
  /\ client' = [client EXCEPT !.suppressing = TRUE, !.barge_ins = @ + 1]
  /\ UNCHANGED <<generation, sent, raised_at>> /\ UNCHANGED pumpVars /\ UNCHANGED turnVars

\* The inbound pump reads a barge_in.
Raise ==
  /\ EnableBargeIn
  /\ generation < client.barge_ins
  /\ generation' = generation + 1
  /\ raised_at' = Append(raised_at, Len(sent))
  /\ UNCHANGED <<sent, client>> /\ UNCHANGED pumpVars /\ UNCHANGED turnVars

\* response_start lifts the suppression; audio is played, or dropped while it
\* lasts.
Receive ==
  LET frame == sent[client.read + 1] IN
  /\ client.open
  /\ client.read < Len(sent)
  /\ client' =
       IF frame.kind = "start"
       THEN [client EXCEPT !.read = @ + 1, !.suppressing = FALSE]
       ELSE [client EXCEPT !.read = @ + 1,
                           !.dropped = IF client.suppressing THEN @ \cup {frame.turn} ELSE @]
  /\ UNCHANGED <<generation, sent, raised_at>> /\ UNCHANGED pumpVars /\ UNCHANGED turnVars

Close ==
  /\ client.open
  /\ client' = [client EXCEPT !.open = FALSE]
  /\ UNCHANGED <<generation, sent, raised_at>> /\ UNCHANGED pumpVars /\ UNCHANGED turnVars

-----------------------------------------------------------------------------
SttStep == SttConnects \/ SttDrops \/ SttDropsLate
PumpStep == HearFinal \/ EndUtterance \/ PumpEnds
TurnStep(t) == \/ TakeTurn(t) \/ SendStart(t) \/ Query(t) \/ NextUnit(t)
               \/ SendUnit(t) \/ BargedOut(t) \/ ReplyEnds(t) \/ TurnFails(t)
FillerStep(t) == \/ FillerWakes(t) \/ NextFiller(t) \/ SendFiller(t)
                 \/ FillerEnds(t)

Next == \/ SttStep
        \/ PumpStep
        \/ \E t \in Turns : TurnStep(t) \/ FillerStep(t)
        \/ BargeIn \/ Raise \/ Receive \/ Close

Spec == Init /\ [][Next]_vars

\* Tasks that can run do; a connection attempt, a query and a reply each end,
\* by an answer or a failure (a reply is finite, and its providers time out).
\* Nobody has to speak, and no connection has to drop.
FairSpec ==
  /\ Spec
  /\ WF_vars(stt.state = "connecting" /\ SttStep)
  /\ WF_vars(PumpEnds)
  /\ \A t \in Turns : /\ WF_vars(TurnStep(t))
                      /\ SF_vars(BargedOut(t) \/ ReplyEnds(t) \/ TurnFails(t))

\* The transcription service drops every connection some time, as it does one
\* that gets no audio.
IdleSpec == FairSpec /\ WF_vars(stt.state = "up" /\ (SttDrops \/ SttDropsLate))

-----------------------------------------------------------------------------
TypeOK ==
  /\ stt \in [state: {"connecting", "up", "over"}, attempts: 0..MaxReconnect]
  /\ pump \in [over: BOOLEAN, buffered: BOOLEAN, turns: 0..MaxTurns]
  /\ queue \in Seq(Turns)
  /\ turn \in [Turns -> [phase: {"unspoken", "queued"} \cup Running \cup Over,
                         generation: Nat]]
  /\ first_audio \subseteq Turns
  /\ filler \in [Turns -> [phase: {"none", "sleeping", "waiting", "sending",
                                   "sent", "over"},
                           cancelled: BOOLEAN]]
  /\ generation \in Nat
  /\ sent \in Seq(Frames)
  /\ raised_at \in Seq(Nat)
  /\ client \in [open: BOOLEAN, suppressing: BOOLEAN, read: Nat,
                 barge_ins: Nat, dropped: SUBSET Turns]

frames(kind, t, from) ==
  {i \in from..Len(sent) : sent[i] = [kind |-> kind, turn |-> t]}

\* The turns reply in the order the resident spoke: none starts after a later one.
\* Nor do replies mix: a turn's own audio follows its response_start, with nothing
\* of another turn but filler in between (service.rs:463-485).
TurnsInOrder ==
  \A j \in 1..Len(sent) :
    /\ sent[j].kind = "start" =>
         \A i \in 1..(j - 1) : sent[i].kind = "start" => sent[i].turn <= sent[j].turn
    /\ sent[j].kind = "unit" =>
         \E i \in 1..(j - 1) :
           /\ sent[i] = [kind |-> "start", turn |-> sent[j].turn]
           /\ \A k \in i..j : sent[k].kind = "filler" \/ sent[k].turn = sent[j].turn

\* Once a turn's own audio has begun, at most the one filler unit that was
\* past the last look at the flag is still sent (service.rs:764-774).
FillerYields ==
  \A t \in Turns : \A i \in frames("unit", t, 1) :
    Cardinality(frames("filler", t, i)) <= 1

\* Once a barge-in has reached the server, a turn queued before it, whether
\* speaking or still waiting, sends at most the unit and the filler unit that
\* were past the last look at the signal.
BargeInStops ==
  \A t \in Turns : LET g == turn[t].generation IN
    (turn[t].phase # "unspoken" /\ is_raised_since(g)) =>
      \A kind \in {"unit", "filler"} :
        Cardinality(frames(kind, t, raised_at[g + 1] + 1)) <= 1

\* A filler and a barged-out reply give way within one unit (service.rs:702-719,
\* 763-772).
AudioYields == TypeOK /\ FillerYields /\ BargeInStops

\* The phone drops audio of turns it barged out of only: a reply to what the
\* resident said after the last barge-in is played from the top, also when an
\* earlier session left the phone suppressing (audio-io.ts:96-99).
NextReplyPlays ==
  \A t \in client.dropped : turn[t].generation < client.barge_ins

\* A queued utterance is answered, given up or skipped, whatever fails.
QueuedTurnsEnd ==
  \A t \in Turns : turn[t].phase = "queued" ~> turn[t].phase \in Over

SessionOver == /\ pump.over
               /\ queue = <<>>
               /\ WorkerFree

\* A flapping transcription service ends the session: unless its connections
\* stay up, now and then for ten seconds or one for good.
FlappingEnds ==
  (<>[][~SttDropsLate]_vars /\ []<>(stt.state # "up")) => <>SessionOver

\* Neither a failing provider nor a flapping one leaves a session hanging
\* (service.rs:221-233, 486-505).
SessionProgresses == QueuedTurnsEnd /\ FlappingEnds

-----------------------------------------------------------------------------
(* A statement of the code that the model refutes. *)

\* main.rs:206-207, the client's close ends the session.
CloseEndsSession == ~client.open ~> SessionOver
=============================================================================
