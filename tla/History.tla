------------------------------ MODULE History -------------------------------
(***************************************************************************)
(* A session's stored conversation and the pure part of append_history in  *)
(* ap-assistant/src/core.ts: push the pair, keep the most recent messages, *)
(* drop a leading assistant message.                                       *)
(*                                                                         *)
(* A message is its role and the turn it belongs to; what the assistant    *)
(* said in a turn is kept by the turn itself (Assistant.tla).              *)
(***************************************************************************)
EXTENDS Integers, Sequences

CONSTANTS Turns,       \* turn identifiers
          MaxHistory   \* core_deps.max_message_history

ASSUME HistoryAssumption == MaxHistory \in Nat \ {0}

Messages == [role: {"user", "assistant"}, turn: Turns]

message_pair(t) == <<[role |-> "user", turn |-> t],
                     [role |-> "assistant", turn |-> t]>>

\* history.slice(history.length - max), when there are more than max.
most_recent(h) ==
  IF Len(h) > MaxHistory THEN SubSeq(h, Len(h) - MaxHistory + 1, Len(h))
  ELSE h

\* Faulty variant for mutation: trimming may leave an answer in front.
from_any_message(h) == h

\* while (trimmed[0]?.role === "assistant") trimmed = trimmed.slice(1)
from_first_user(h) ==
  LET first == CHOOSE i \in 1..(Len(h) + 1) :
                 /\ \A j \in 1..(i - 1) : h[j].role = "assistant"
                 /\ i <= Len(h) => h[i].role # "assistant"
  IN  SubSeq(h, first, Len(h))

appended(h, t) == from_first_user(most_recent(h \o message_pair(t)))

TurnsOf(h) == {h[i].turn : i \in 1..Len(h)}

\* Roles alternate from a user message to an assistant message, and each
\* answer stands next to the message it answers.
Paired(h) ==
  /\ Len(h) % 2 = 0
  /\ \A i \in 1..Len(h) :
       /\ h[i].role = IF i % 2 = 1 THEN "user" ELSE "assistant"
       /\ i % 2 = 1 => h[i].turn = h[i + 1].turn
=============================================================================
