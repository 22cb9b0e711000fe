-------------------------------- MODULE Engine --------------------------------
(***************************************************************************)
(* The phone's assistant engine (useAssistantEngine.ts): its voice         *)
(* sessions and their timers, the continuous microphone capture            *)
(* (audio-io.ts), and the wake word detector (wake-word.ts).  Sockets,     *)
(* timers, the permission prompt, the native audio engine and the          *)
(* inference each call back in their own time, and React applies an effect *)
(* some time after the state that asks for it changed.                     *)
(*                                                                         *)
(* Data abstraction: a timer may fire at any time after it was set; of a   *)
(* frame from the server, what it does to the timers.  React Native's      *)
(* sockets still deliver what had arrived when they are closed.            *)
(***************************************************************************)
EXTENDS Naturals

CONSTANTS MaxSessions, MaxToggles, MaxMessages, MaxFailures   \* bounds of the model

ASSUME EngineAssumption == MaxSessions \in Nat

Sessions == 1..MaxSessions
Nobody == 0

VARIABLES
  wake_enabled,
  voice_state,
  voice_ref,        \* the session that is on, or Nobody
  started,          \* how many there were
  sockets,           \* of each session
  silence_enabled,  \* the last session was a wake word's
  silence_timer,    \* "none", "short" or "long"
  watchdog,         \* playback_watchdog is set
  capture,          \* the capture effect is applied
  promise,          \* capture_promise: what the call awaits that it is of, or "none"
  abandoned,        \* what calls await that it is not of any more
  recording,        \* the microphone is on
  models,           \* sessions_ref, loading_ref: "none", "loaded" or "broken"
  detector,         \* "off", "loading", "listening" or "error"
  draining,         \* an inference outlives its detector
  toggles, messages, failures

voice == <<voice_state, voice_ref, started, sockets, silence_enabled, silence_timer, watchdog>>
mic == <<capture, promise, abandoned, recording>>
wake == <<wake_enabled, models, detector, draining>>
engine_spent == <<toggles, messages, failures>>
engine_vars == <<voice, mic, wake, engine_spent>>

EngineIdle ==
  /\ voice_state = "idle" /\ voice_ref = Nobody /\ started = 0
  /\ sockets = [s \in Sessions |-> "none"]
  /\ silence_enabled = FALSE /\ silence_timer = "none" /\ watchdog = FALSE
  /\ capture = FALSE /\ promise = "none" /\ abandoned = {} /\ recording = FALSE
  /\ models = "none" /\ detector = "off" /\ draining = FALSE
  /\ toggles = 0 /\ messages = 0 /\ failures = 0

EngineInit == wake_enabled \in BOOLEAN /\ EngineIdle

Fails == failures < MaxFailures /\ failures' = failures + 1

-----------------------------------------------------------------------------
(* Sessions *)

\* The socket that is closed before it was open may still report that it is.
Closing(state) ==
  CASE state = "connecting" -> "closing early" [] state = "open" -> "closing" [] OTHER -> state

\* stop_voice: the session that is on, whoever asks for it.
stop_voice ==
  /\ silence_timer' = "none" /\ watchdog' = FALSE
  /\ voice_ref' = Nobody /\ voice_state' = "idle"
  /\ sockets' = [s \in Sessions |-> IF s = voice_ref THEN Closing(sockets[s]) ELSE sockets[s]]
  /\ UNCHANGED <<started, silence_enabled>>

start_voice(silence_timeout) ==
  /\ voice_ref = Nobody /\ started < MaxSessions
  /\ started' = started + 1 /\ voice_ref' = started' /\ voice_state' = "connecting"
  /\ sockets' = [sockets EXCEPT ![started'] = "connecting"]
  /\ silence_enabled' = silence_timeout
  /\ UNCHANGED <<silence_timer, watchdog>>

\* bump_silence
Bumped == IF silence_enabled THEN "short" ELSE silence_timer

\* Faulty variant for mutation: nothing is set while the reply is awaited.
Held_none == "none"

\* hold_silence: the longer countdown takes the place of the short one.
Held == IF silence_enabled THEN "long" ELSE "none"

\* start_voice does nothing while a session is on: the toggle stops that one.
toggle_voice ==
  /\ IF voice_ref = Nobody THEN start_voice(FALSE) ELSE stop_voice
  /\ UNCHANGED <<mic, wake, engine_spent>>

\* onopen: live, whether or not the session has been stopped meanwhile.
SessionOpens(s) ==
  /\ sockets[s] \in {"connecting", "closing early"}
  /\ sockets' = [sockets EXCEPT ![s] = IF @ = "connecting" THEN "open" ELSE "closing"]
  /\ voice_state' = "live" /\ silence_timer' = Bumped
  /\ UNCHANGED <<voice_ref, started, silence_enabled, watchdog, mic, wake, engine_spent>>

\* Audio, response_start, a reminder, the assistant's transcript; or the final
\* transcript of the resident's utterance.
onmessage(s) ==
  /\ sockets[s] \in {"open", "closing"}
  /\ messages < MaxMessages /\ messages' = messages + 1
  /\ silence_timer' \in {Bumped, Held}
  /\ UNCHANGED <<voice_state, voice_ref, started, sockets, silence_enabled, watchdog>>
  /\ UNCHANGED <<mic, wake, toggles, failures>>

\* onerror, or an error frame: on_status tears down the session that is on.
onerror(s) ==
  /\ sockets[s] \notin {"none", "closed"} /\ Fails
  /\ silence_timer' = "none" /\ watchdog' = FALSE
  /\ voice_ref' = Nobody /\ voice_state' = "idle"
  /\ sockets' = [o \in Sessions |-> IF o = s THEN "closed"
                                   ELSE IF o = voice_ref THEN Closing(sockets[o]) ELSE sockets[o]]
  /\ UNCHANGED <<started, silence_enabled, mic, wake, toggles, messages>>

\* onclose: the other side closed a session that is on, or this one is through.
onclose(s) ==
  /\ \/ sockets[s] \in {"closing early", "closing"} /\ UNCHANGED failures
        /\ UNCHANGED <<voice_state, voice_ref, silence_timer, watchdog>>
     \/ sockets[s] \in {"connecting", "open"} /\ Fails
        /\ silence_timer' = "none" /\ watchdog' = FALSE
        /\ voice_ref' = Nobody /\ voice_state' = "idle"
  /\ sockets' = [sockets EXCEPT ![s] = "closed"]
  /\ UNCHANGED <<started, silence_enabled, mic, wake, toggles, messages>>

SilenceElapses ==
  /\ silence_timer # "none" /\ stop_voice
  /\ UNCHANGED <<mic, wake, engine_spent>>

\* The assistant is heard: the silence is held until the level events stop.
on_output_level ==
  /\ voice_ref # Nobody /\ sockets[voice_ref] = "open"
  /\ messages < MaxMessages /\ messages' = messages + 1
  /\ silence_timer' = Held /\ watchdog' = TRUE
  /\ UNCHANGED <<voice_state, voice_ref, started, sockets, silence_enabled>>
  /\ UNCHANGED <<mic, wake, toggles, failures>>

PlaybackSettles ==
  /\ watchdog /\ watchdog' = FALSE /\ silence_timer' = Bumped
  /\ UNCHANGED <<voice_state, voice_ref, started, sockets, silence_enabled>>
  /\ UNCHANGED <<mic, wake, engine_spent>>

-----------------------------------------------------------------------------
(* The microphone *)

capture_needed == wake_enabled \/ voice_state # "idle"

\* The effect asks for capture; a call that is under way is shared.
start_capture ==
  /\ ~capture /\ capture_needed /\ capture' = TRUE
  /\ promise' = IF promise = "none" THEN "permission" ELSE promise
  /\ UNCHANGED <<abandoned, recording, voice, wake, engine_spent>>

\* A call that is under way is abandoned: it finds another promise, or none, when
\* its await is over.
stop_capture ==
  /\ capture /\ ~capture_needed /\ capture' = FALSE
  /\ promise' = "none" /\ recording' = FALSE
  /\ abandoned' = abandoned \cup ({promise} \cap {"permission", "init"})
  /\ UNCHANGED <<voice, wake, engine_spent>>

\* Denied, or the native engine does not start: nothing is cached, and nothing
\* tries again before capture is asked for anew.
CaptureFails ==
  /\ promise \in {"permission", "init"} /\ Fails
  /\ promise' = "none"
  /\ UNCHANGED <<capture, abandoned, recording, voice, wake, toggles, messages>>

CaptureGoesOn ==
  /\ \/ promise = "permission" /\ promise' = "init" /\ UNCHANGED recording
     \/ promise = "init" /\ promise' = "done" /\ recording' = TRUE
  /\ UNCHANGED <<capture, abandoned, voice, wake, engine_spent>>

\* Faulty variant for mutation: no look at the promise after the last await.
Resumed_unchecked(stage) == stage = "init"

\* Whether an abandoned call goes on to record.
Resumed(stage) == FALSE

AbandonedEnds ==
  /\ \E stage \in abandoned :
       /\ abandoned' = abandoned \ {stage}
       /\ recording' = (recording \/ Resumed(stage))
  /\ UNCHANGED <<capture, promise, voice, wake, engine_spent>>

-----------------------------------------------------------------------------
(* The wake word *)

ToggleWake ==
  /\ toggles < MaxToggles /\ toggles' = toggles + 1
  /\ wake_enabled' = ~wake_enabled
  /\ UNCHANGED <<models, detector, draining, voice, mic, messages, failures>>

wake_active == wake_enabled /\ voice_state = "idle"

\* ensure_sessions, once the detector is wanted: a load that failed is kept as the
\* models are, and fails each time after it.
ModelsLoad ==
  /\ detector = "loading" /\ wake_active
  /\ \/ models # "broken" /\ models' = "loaded" /\ detector' = "listening" /\ UNCHANGED failures
     \/ models = "none" /\ Fails /\ models' = "broken" /\ detector' = "error"
     \/ models = "broken" /\ detector' = "error" /\ UNCHANGED <<models, failures>>
  /\ UNCHANGED <<wake_enabled, draining, voice, mic, toggles, messages>>

DetectorEffect ==
  /\ \/ detector = "off" /\ wake_active /\ detector' = "loading" /\ UNCHANGED draining
     \/ /\ detector # "off" /\ ~wake_active /\ detector' = "off"
        /\ draining' \in {draining, detector = "listening"}
  /\ UNCHANGED <<wake_enabled, models, voice, mic, engine_spent>>

\* An inference that was under way when the detector stopped may detect as well.
handle_wake_detected ==
  /\ \/ detector = "listening" /\ UNCHANGED draining
     \/ draining /\ draining' = FALSE
  /\ IF voice_ref = Nobody THEN start_voice(TRUE) ELSE UNCHANGED voice
  /\ UNCHANGED <<wake_enabled, models, detector, mic, engine_spent>>

DrainEnds ==
  /\ draining /\ draining' = FALSE
  /\ UNCHANGED <<wake_enabled, models, detector, voice, mic, engine_spent>>

-----------------------------------------------------------------------------
Effects == start_capture \/ stop_capture \/ DetectorEffect

EngineNext ==
  \/ toggle_voice \/ ToggleWake \/ handle_wake_detected \/ DrainEnds
  \/ \E s \in Sessions : SessionOpens(s) \/ onmessage(s) \/ onerror(s) \/ onclose(s)
  \/ SilenceElapses \/ on_output_level \/ PlaybackSettles
  \/ CaptureFails \/ CaptureGoesOn \/ AbandonedEnds \/ ModelsLoad \/ Effects

\* Timers fire, effects are applied, and a connection is made or fails.
EngineFairness ==
  /\ WF_engine_vars(SilenceElapses) /\ WF_engine_vars(Effects)
  /\ \A s \in Sessions : WF_engine_vars(SessionOpens(s) \/ onclose(s))

-----------------------------------------------------------------------------
EngineTypeOK ==
  /\ wake_enabled \in BOOLEAN /\ models \in {"none", "loaded", "broken"}
  /\ detector \in {"off", "loading", "listening", "error"}
  /\ voice_state \in {"idle", "connecting", "live"} /\ voice_ref \in 0..started
  /\ started \in 0..MaxSessions
  /\ sockets \in [Sessions ->
       {"none", "connecting", "open", "closing early", "closing", "closed"}]
  /\ silence_timer \in {"none", "short", "long"}
  /\ promise \in {"none", "permission", "init", "done"}
  /\ abandoned \subseteq {"permission", "init"}

\* "Abandon the start instead of leaving the mic recording with no owner"
\* (audio-io.ts:154-156): however the prompt, the native engine and the toggles
\* interleave, the microphone records for a call that nobody has abandoned, and
\* only while the engine asks for capture.
MicIsOwned == EngineTypeOK /\ (recording => promise = "done" /\ capture)

\* A session the wake word opened ends: with no one speaking, one countdown or the
\* other is always running or its connection still to be made, and the phone is
\* back to listening for the wake word.
WakeSessionEnds ==
  (voice_ref # Nobody /\ silence_enabled) ~> (voice_state = "idle" /\ voice_ref = Nobody)

\* "A manual toggle (silence_timeout false) stays open until toggled off"
\* (useAssistantEngine.ts:347-348), or until its own connection ends: nothing an
\* earlier session has left behind stops it.
ManualStaysOpen ==
  [][voice_ref # Nobody /\ ~silence_enabled /\ voice_ref' # voice_ref =>
       toggle_voice \/ onerror(voice_ref) \/ onclose(voice_ref)]_engine_vars
=============================================================================
