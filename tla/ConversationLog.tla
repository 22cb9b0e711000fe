-------------------------- MODULE ConversationLog ---------------------------
(***************************************************************************)
(* What the stored conversation of a session promises: turns enter it one  *)
(* at a time and whole, after everything already stored, and only the      *)
(* oldest messages are ever forgotten.  The assistant implements this when *)
(* the turns of a session do not overlap (Assistant.tla).                  *)
(***************************************************************************)
EXTENDS History

CONSTANT Sessions

VARIABLE log   \* per session, the stored messages

Init == log = [s \in Sessions |-> <<>>]

Record(s, t) == /\ t \notin TurnsOf(log[s])
                /\ log' = [log EXCEPT ![s] = appended(log[s], t)]

Next == \E s \in Sessions, t \in Turns : Record(s, t)

Spec == Init /\ [][Next]_log
=============================================================================
