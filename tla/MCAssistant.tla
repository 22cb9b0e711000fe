----------------------------- MODULE MCAssistant -----------------------------
(* Assistant for TLC: which session and which channel each turn belongs to. *)
EXTENDS Assistant

CONSTANTS t1, t2, alice, k1, k2

\* Two turns of one resident, on a voice socket and in a chat request.
TwoChannels == t1 :> k1 @@ t2 :> k2
OneSession == t1 :> alice @@ t2 :> alice

\* The turns of one resident, all on one socket.
SameChannel == [t \in Turns |-> k1]
SameSession == [t \in Turns |-> alice]
=============================================================================
