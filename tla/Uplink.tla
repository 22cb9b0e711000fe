-------------------------------- MODULE Uplink --------------------------------
(***************************************************************************)
(* What the resident says on its way to ap-voice: the phone's voice stream *)
(* (voice-client.ts), which opens a socket while the microphone is already *)
(* on, and ap-server's bridge (voice-bridge.ts), which verifies the token  *)
(* of the first frame before it opens a connection of its own.  Both queue *)
(* what comes before they can pass it on.                                  *)
(*                                                                         *)
(* Data abstraction: an audio frame is its number, of which those before   *)
(* the stream was opened are the pre-roll.  The socket becomes OPEN before *)
(* its onopen handler runs, and microphone events come in between.         *)
(***************************************************************************)
EXTENDS Naturals, Sequences

CONSTANTS MaxFrames   \* bound: audio frames captured

ASSUME UplinkAssumption == MaxFrames \in Nat

Handshake == 0
Frames == Handshake..MaxFrames

VARIABLES
  captured,   \* audio frames so far
  first,      \* the first of them that is the stream's to send
  socket,     \* "none", "connecting", "opening" (OPEN, onopen not yet run), "open", "closed"
  flushed,
  pending,    \* the phone's queue
  wire,       \* sent by the phone, not at the bridge yet
  auth_state, \* the bridge's: "pending", "authorizing", "authorized",
              \* "failed" (the token), "rejected" (no handshake)
  gone,       \* the bridge has handled the client's close
  queued,     \* the bridge's queue
  upstream,   \* its connection to ap-voice
  heard       \* what ap-voice got

phone_vars == <<captured, first, socket, flushed, pending>>
bridge_vars == <<auth_state, gone, queued, upstream>>
uplink_vars == <<phone_vars, wire, bridge_vars, heard>>

UplinkInit ==
  /\ captured = 0 /\ first = 1 /\ socket = "none"
  /\ flushed = FALSE /\ pending = <<>> /\ wire = <<>>
  /\ auth_state = "pending" /\ gone = FALSE /\ queued = <<>> /\ upstream = "none"
  /\ heard = <<>>

-----------------------------------------------------------------------------
(* The phone *)

\* The pre-roll is the last second or two: some of the frames so far.
open_voice_stream ==
  /\ socket = "none" /\ socket' = "connecting"
  /\ \E n \in 0..captured :
       /\ first' = captured - n + 1
       /\ pending' = [i \in 1..n |-> captured - n + i]
  /\ UNCHANGED <<captured, flushed, wire, bridge_vars, heard>>

SocketOpens ==
  /\ socket = "connecting" /\ socket' = "opening"
  /\ UNCHANGED <<captured, first, flushed, pending, wire, bridge_vars, heard>>

onopen ==
  /\ socket = "opening" /\ socket' = "open"
  /\ flushed' = TRUE /\ pending' = <<>>
  /\ wire' = wire \o <<Handshake>> \o pending
  /\ UNCHANGED <<captured, first, bridge_vars, heard>>

\* Faulty variant for mutation: the queue is left only while it is flushed.
SendsLive_opening == flushed /\ socket = "opening"

\* Not before the queue was flushed.
SendsLive == flushed /\ socket \in {"opening", "open"}

on_input_frame ==
  /\ captured < MaxFrames /\ captured' = captured + 1
  /\ \/ socket \in {"none", "closed"} /\ UNCHANGED <<pending, wire>>
     \/ socket \notin {"none", "closed"} /\ SendsLive
        /\ wire' = Append(wire, captured') /\ UNCHANGED pending
     \/ socket \notin {"none", "closed"} /\ ~SendsLive
        /\ pending' = Append(pending, captured') /\ UNCHANGED wire
  /\ UNCHANGED <<first, socket, flushed, bridge_vars, heard>>

\* The session is stopped, or the connection drops: what is on its way is lost.
teardown ==
  /\ socket \notin {"none", "closed"} /\ socket' = "closed"
  /\ wire' = <<>>
  /\ UNCHANGED <<captured, first, flushed, pending, bridge_vars, heard>>

-----------------------------------------------------------------------------
(* The bridge *)

IsFirst == auth_state = "pending"

\* A first frame that is no handshake fails as a bad token does.
client_message ==
  /\ wire # <<>> /\ wire' = Tail(wire)
  /\ \/ /\ IsFirst
        /\ auth_state' = IF Head(wire) = Handshake THEN "authorizing" ELSE "rejected"
        /\ socket' = IF Head(wire) = Handshake THEN socket ELSE "closed"
        /\ UNCHANGED <<queued, heard>>
     \/ /\ ~IsFirst /\ UNCHANGED <<auth_state, socket>>
        /\ IF upstream = "open" THEN heard' = Append(heard, Head(wire)) /\ UNCHANGED queued
                                ELSE queued' = Append(queued, Head(wire)) /\ UNCHANGED heard
  /\ UNCHANGED <<captured, first, flushed, pending, gone, upstream>>

\* Nothing is opened for a bad token; for a good one it is even when the client
\* has gone meanwhile.
Verified ==
  /\ auth_state = "authorizing"
  /\ \/ auth_state' = "authorized" /\ upstream' = "connecting" /\ UNCHANGED <<socket, wire>>
     \/ auth_state' = "failed" /\ socket' = "closed" /\ wire' = <<>> /\ UNCHANGED upstream
  /\ UNCHANGED <<captured, first, flushed, pending, gone, queued, heard>>

\* The original handshake, then what was queued.
Flushed == <<Handshake>> \o queued

UpstreamOpens ==
  /\ upstream = "connecting" /\ upstream' = "open"
  /\ heard' = heard \o Flushed /\ queued' = <<>>
  /\ UNCHANGED <<phone_vars, wire, auth_state, gone>>

\* close_both, when ap-voice closes or cannot be reached.
UpstreamCloses ==
  /\ upstream \in {"connecting", "open"} /\ upstream' = "closed"
  /\ socket' = "closed" /\ wire' = <<>>
  /\ UNCHANGED <<captured, first, flushed, pending, auth_state, gone, queued, heard>>

\* close_both, when the client closes; what is opened later stays open.
ClientCloses ==
  /\ socket = "closed" /\ ~gone /\ gone' = TRUE
  /\ upstream' = IF upstream = "none" THEN "none" ELSE "closed"
  /\ UNCHANGED <<phone_vars, wire, auth_state, queued, heard>>

BridgeStep == client_message \/ Verified \/ UpstreamOpens

UplinkNext ==
  \/ open_voice_stream \/ SocketOpens \/ onopen \/ on_input_frame \/ teardown
  \/ BridgeStep \/ UpstreamCloses \/ ClientCloses

UplinkFairness ==
  /\ WF_uplink_vars(SocketOpens) /\ WF_uplink_vars(onopen) /\ WF_uplink_vars(BridgeStep)

-----------------------------------------------------------------------------
\* "They are sent first, in order, the moment the socket opens, so the resident's
\* whole prompt reaches the backend" (voice-client.ts:93-95): ap-voice hears the
\* handshake and then the frames from the first of the pre-roll on, none missing
\* and none out of order, whichever of the two connections opens when; and the bridge never
\* takes a frame for a handshake.
HeardInOrder ==
  /\ auth_state # "rejected"
  /\ heard # <<>> =>
       /\ heard[1] = Handshake
       /\ \A i \in 2..Len(heard) : heard[i] = first + i - 2

\* Frames the resident spoke into the stream that ap-voice has not got.
Unheard == {f \in first..captured : \A i \in DOMAIN heard : heard[i] # f}

\* The frames captured for a stream are heard, and in their order, unless one side
\* closes it: neither queue keeps anything for ever or lets anything overtake.
FramesAreHeard ==
  /\ []HeardInOrder
  /\ (socket # "none" /\ Unheard # {}) ~> (socket = "closed" \/ Unheard = {})
=============================================================================
