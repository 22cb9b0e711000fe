-------------------------------- MODULE Thread --------------------------------
(***************************************************************************)
(* The thread of the assistant's screen (useAssistantEngine.ts): replies   *)
(* streamed from the gateway's /assistant/query route (gateway.ts,         *)
(* chat-client.ts), retries of the ones that failed, and the bubbles of a  *)
(* voice session's transcripts.                                            *)
(*                                                                         *)
(* Data abstraction: of a turn, whether it is shown as being worked on, as *)
(* failed and with text; the resident's typed turns, never worked on, are  *)
(* left out.  A socket still delivers what had arrived when it is closed.  *)
(***************************************************************************)
EXTENDS Naturals

CONSTANTS MaxTurns, MaxEvents   \* bounds: turns of the thread, frames received

ASSUME ThreadAssumption == MaxTurns \in Nat

TurnIds == 1..MaxTurns
NoTurn == 0
Roles == {"user", "assistant"}

VARIABLES
  turns,           \* NoBubble where there is none
  turn_counter,
  sending,
  chat_stream,     \* the reply the open stream is for, or NoTurn
  stream_state,    \* "closed", "open", "ended" (by the gateway) or "cut", unnoticed
  voice_turn_ids,  \* the bubble each role's transcript goes to, or NoTurn
  listening,       \* "never", "on" or "over": voice sessions
  late,            \* history: bubbles written to since the last session was over
  events           \* frames received (bound)

thread_vars == <<turns, turn_counter, sending, chat_stream, stream_state, voice_turn_ids, listening, late, events>>

Bubbles == [pending : BOOLEAN, error : BOOLEAN, text : BOOLEAN]
NoBubble == <<>>
Working == [pending |-> TRUE, error |-> FALSE, text |-> FALSE]
Finished(b) == IF b = NoBubble THEN b ELSE [b EXCEPT !.pending = FALSE]
Failed(b) == [b EXCEPT !.pending = FALSE, !.error = TRUE]

ThreadInit ==
  /\ turns = [id \in TurnIds |-> NoBubble] /\ turn_counter = 0
  /\ sending = FALSE /\ chat_stream = NoTurn /\ stream_state = "closed"
  /\ voice_turn_ids = [r \in Roles |-> NoTurn] /\ listening = "never" /\ late = {} /\ events = 0

Received == events < MaxEvents /\ events' = events + 1

-----------------------------------------------------------------------------
(* Typed queries *)

\* A stream that is still open is closed and no more heard of.
open_stream(reply_id) == sending' = TRUE /\ chat_stream' = reply_id /\ stream_state' = "open"

submit ==
  /\ ~sending /\ turn_counter < MaxTurns
  /\ turn_counter' = turn_counter + 1
  /\ turns' = [turns EXCEPT ![turn_counter'] = Working]
  /\ open_stream(turn_counter')
  /\ UNCHANGED <<voice_turn_ids, listening, late, events>>

CanRetry(id) == turns[id] # NoBubble /\ turns[id].error /\ ~sending

retry_turn(id) ==
  /\ CanRetry(id)
  /\ turns' = [turns EXCEPT ![id] = Working]
  /\ open_stream(id)
  /\ UNCHANGED <<turn_counter, voice_turn_ids, listening, late, events>>

Streaming == stream_state = "open"

\* on_token; a reminder or a source leaves the turn as it is
on_token ==
  /\ Streaming /\ Received
  /\ turns' = [turns EXCEPT ![chat_stream] = [@ EXCEPT !.pending = TRUE, !.text = TRUE]]
  /\ UNCHANGED <<turn_counter, sending, chat_stream, stream_state, voice_turn_ids, listening, late>>

\* The stream goes on after it.
on_source_failure ==
  /\ Streaming /\ Received
  /\ turns' = [turns EXCEPT ![chat_stream] = Failed(@)]
  /\ UNCHANGED <<turn_counter, sending, chat_stream, stream_state, voice_turn_ids, listening, late>>

\* Faulty variant for mutation: the gateway ends the response of a turn that threw
\* without a frame that says so.
LastFrames_silent == {"done", "none"}

\* What the gateway writes last: the turn is through, or it threw.
LastFrames == {"done", "error"}

\* on_done, on_error; the latter also when the connection fails.
StreamEnds ==
  /\ Streaming
  /\ \E frame \in LastFrames :
       \/ /\ frame # "none"
          /\ turns' = [turns EXCEPT ![chat_stream] =
                         IF frame = "done" THEN Finished(@) ELSE Failed(@)]
          /\ sending' = FALSE /\ chat_stream' = NoTurn /\ stream_state' = "closed"
       \/ /\ frame = "none" /\ stream_state' = "ended"
          /\ UNCHANGED <<turns, sending, chat_stream>>
  /\ UNCHANGED <<turn_counter, voice_turn_ids, listening, late, events>>

\* The connection is gone and nothing says so: there is no timeout.
StreamIsCut ==
  /\ Streaming /\ stream_state' = "cut"
  /\ UNCHANGED <<turns, turn_counter, sending, chat_stream, voice_turn_ids, listening, late, events>>

-----------------------------------------------------------------------------
(* Voice *)

\* The bubble of a role's transcript, a new one if it has none.
Bubble(role) == IF voice_turn_ids[role] = NoTurn THEN turn_counter + 1 ELSE voice_turn_ids[role]

\* An interim transcript keeps its bubble; a final one ends it, and one of the
\* resident's seeds the bubble of the answer, unless there is one.
on_transcript(role, final) ==
  LET id == Bubble(role)
      used == IF id > turn_counter THEN id ELSE turn_counter
      seeds_answer == role = "user" /\ final /\ voice_turn_ids["assistant"] = NoTurn
      shown == [turns EXCEPT ![id] = [pending |-> ~final, error |-> FALSE, text |-> TRUE]]
  IN  /\ listening # "never" /\ Received
      /\ turn_counter' = IF seeds_answer THEN used + 1 ELSE used
      /\ turn_counter' <= MaxTurns
      /\ turns' = IF seeds_answer THEN [shown EXCEPT ![used + 1] = Working] ELSE shown
      /\ voice_turn_ids' = [r \in Roles |->
           IF r = role THEN (IF final THEN NoTurn ELSE id)
           ELSE IF seeds_answer THEN used + 1 ELSE voice_turn_ids[r]]
      /\ late' = IF listening = "on" THEN late
                 ELSE late \cup {id} \cup (IF seeds_answer THEN {used + 1} ELSE {})
      /\ UNCHANGED <<sending, chat_stream, stream_state, listening>>

\* What came late is the new session's to clear.
VoiceStarts ==
  /\ listening # "on" /\ listening' = "on" /\ late' = {}
  /\ UNCHANGED <<turns, turn_counter, sending, chat_stream, stream_state, voice_turn_ids, events>>

\* Faulty variant for mutation: the answer's bubble is left as it is.
Owned_user == {"user"}

Owned == Roles

\* stop_voice: a bubble with text is finished, one without is dropped.
VoiceStops ==
  /\ listening = "on" /\ listening' = "over"
  /\ turns' = [id \in TurnIds |->
       IF \E r \in Owned : voice_turn_ids[r] = id
       THEN (IF turns[id].text THEN Finished(turns[id]) ELSE NoBubble) ELSE turns[id]]
  /\ voice_turn_ids' = [r \in Roles |-> NoTurn]
  /\ UNCHANGED <<turn_counter, sending, chat_stream, stream_state, late, events>>

-----------------------------------------------------------------------------
ThreadNext ==
  \/ submit \/ (\E id \in TurnIds : retry_turn(id))
  \/ on_token \/ on_source_failure \/ StreamEnds \/ StreamIsCut
  \/ (\E role \in Roles, final \in BOOLEAN : on_transcript(role, final))
  \/ VoiceStarts \/ VoiceStops

\* The assistant's turn ends (or throws), and the gateway's response with it.
ThreadFairness == WF_thread_vars(StreamEnds)

-----------------------------------------------------------------------------
ThreadTypeOK ==
  /\ \A id \in TurnIds : turns[id] = NoBubble \/ turns[id] \in Bubbles
  /\ turn_counter \in 0..MaxTurns /\ sending \in BOOLEAN
  /\ chat_stream \in 0..turn_counter /\ stream_state \in {"closed", "open", "ended", "cut"}
  /\ voice_turn_ids \in [Roles -> 0..turn_counter] /\ listening \in {"never", "on", "over"}
  /\ late \subseteq TurnIds

\* A bubble that the session under way still writes to, or clears when it stops.
InSession(id) == listening = "on" /\ \E r \in Roles : id = voice_turn_ids[r]

WorkedOn(id) == turns[id] # NoBubble /\ turns[id].pending

\* A turn shown as being worked on is: it is the reply of the stream, or a bubble
\* of the voice session under way; however retries of old turns, failures in the
\* middle of a stream, transcripts of either role and the end of the session
\* follow one another.  And a stream is open exactly when the resident cannot
\* send.  The exception is a bubble of a transcript that came when the session was
\* over, which nothing ends before the next session does.
WorkedOnIsOwned ==
  /\ ThreadTypeOK
  /\ sending <=> chat_stream # NoTurn
  /\ \A id \in TurnIds : WorkedOn(id) => id = chat_stream \/ InSession(id) \/ id \in late

\* The resident can send again after each query, whichever way the turn ends on
\* the server, if the connection is not cut unnoticed.
CanSendAgain == sending ~> (~sending \/ stream_state = "cut")

-----------------------------------------------------------------------------
(* A statement of the code that the model refutes. *)

\* "A pending empty bubble is dropped, since the session ended without an assistant
\* transcript" (useAssistantEngine.ts:282-284): refuted by the resident's final
\* transcript coming after the stop, which seeds another.
SessionsLeaveNothing == \A id \in TurnIds : WorkedOn(id) => id = chat_stream \/ InSession(id)
=============================================================================
