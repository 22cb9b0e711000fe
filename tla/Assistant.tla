------------------------------ MODULE Assistant ------------------------------
(***************************************************************************)
(* ap-assistant: the turns of a conversation (core.ts), the dispatcher and *)
(* registry they use, and the per-socket queue of the handler (handler.ts).*)
(*                                                                         *)
(* Node runs one step at a time and switches turns only where the code     *)
(* awaits or yields, so a step here is the code between two such points.   *)
(* Turns of one session overlap: a resident types and talks to the same    *)
(* session, ap-voice dials a new socket for every query, and only the      *)
(* turns of one socket are serialized.                                     *)
(*                                                                         *)
(* Data abstraction: the text a model stream yields is one piece, named    *)
(* for the stream's position in the turn; reminder and source chunks,      *)
(* prompts and tool arguments carry no state and are left out.             *)
(***************************************************************************)
EXTENDS History, FiniteSets, SequencesExt

CONSTANTS Sessions,       \* residents: a session id is the token's sub
          Channels,       \* voice sockets, and one per chat request
          Sockets,        \* the former
          SessionOf,      \* turn -> session
          ChannelOf,      \* turn -> channel
          Tools,          \* tool names the model may select
          SeedTools,      \* the ones in the registry at start
          Gated,          \* the ones with requires_confirmation
          MaxToolUses,    \* tool selections in one model reply
          MaxToolHops,    \* max_tool_hops
          MaxRetries,     \* retry_options.max_retries
          Threshold,      \* circuit_breaker_options.failure_threshold
          HasApiKey,      \* core_deps.has_api_key
          Volatile        \* tools registered or deregistered at run time

ASSUME AssistantAssumption ==
  /\ SessionOf \in [Turns -> Sessions]
  /\ ChannelOf \in [Turns -> Channels]
  /\ Sockets \subseteq Channels
  /\ SeedTools \subseteq Tools
  /\ Gated \subseteq Tools
  /\ Volatile \subseteq Tools
  /\ MaxToolUses \in Nat \ {0}
  /\ MaxToolHops \in Nat \ {0}
  /\ MaxRetries \in Nat
  /\ Threshold \in Nat \ {0}
  /\ HasApiKey \in BOOLEAN

None == <<>>   \* no pending confirmation

VARIABLES breaker, call,   \* see CircuitBreaker
          registered,      \* tool names in the registry
          pending,         \* per session: None, or <<the gated tool>>
          history,         \* per session: the stored messages
          queue,           \* per channel: turns waiting, the running one first
          closed,          \* the channels whose socket has closed
          turn             \* per turn: its local variables

vars == <<breaker, call, registered, pending, history, queue, closed, turn>>

CB == INSTANCE CircuitBreaker WITH Calls <- Turns

-----------------------------------------------------------------------------
(* A turn's locals.  "shown" is what the resident has been sent; "reply"   *)
(* what append_history is given; "request" the roles of the messages of    *)
(* the model call; "loaded" what append_history read back.                 *)

Phases == {"idle", "queued", "loading", "ready", "streaming", "dispatching",
           "executing", "appending", "saving", "done", "failed", "dropped"}
Over == {"done", "failed", "dropped"}
Running == Phases \ (Over \cup {"idle", "queued"})

Model(n) == [kind |-> "model", n |-> n]
Canned   == [kind |-> "canned", n |-> 0]
Degraded == [kind |-> "degraded", n |-> 0]
Confirm  == [kind |-> "confirm", n |-> 0]
Refusal  == [kind |-> "refusal", n |-> 0]
Pieces == {Model(n) : n \in 0..MaxToolHops} \cup
          {Canned, Degraded, Confirm, Refusal}

Locals == [phase: Phases,
           shown: Seq(Pieces),
           reply: Seq(Pieces),
           tools: Seq(Tools),          \* selected and not yet dispatched
           round: 0..MaxToolHops,      \* model streams before this one
           attempt: 0..MaxRetries,     \* retries of this stream
           yielded: BOOLEAN,           \* this stream has reached the caller
           request: Seq({"user", "assistant"}),
           loaded: Seq(Messages)]

Fresh == [phase |-> "idle", shown |-> <<>>, reply |-> <<>>, tools |-> <<>>,
          round |-> 0, attempt |-> 0, yielded |-> FALSE, request |-> <<>>,
          loaded |-> <<>>]

Init == /\ CB!Init
        /\ registered = SeedTools
        /\ pending = [s \in Sessions |-> None]
        /\ history = [s \in Sessions |-> <<>>]
        /\ queue = [c \in Channels |-> <<>>]
        /\ closed = {}
        /\ turn = [t \in Turns |-> Fresh]

phase(t) == turn[t].phase
session(t) == SessionOf[t]
channel(t) == ChannelOf[t]

roles_of(h) == [i \in 1..Len(h) |-> h[i].role]

\* Faulty variant for mutation: a turn that throws keeps its queue's head.
Finish_holds_queue(t, how) ==
  /\ turn' = [turn EXCEPT ![t] = [Fresh EXCEPT !.phase = how,
                                               !.shown = turn[t].shown,
                                               !.reply = turn[t].reply]]
  /\ queue' = IF how = "failed" THEN queue
              ELSE [queue EXCEPT ![channel(t)] = Tail(@)]

\* Locals go out of scope when a turn is over; what it showed and what it
\* gave to append_history are remembered for the properties.
Finish(t, how) ==
  /\ turn' = [turn EXCEPT ![t] = [Fresh EXCEPT !.phase = how,
                                               !.shown = turn[t].shown,
                                               !.reply = turn[t].reply]]
  /\ queue' = [queue EXCEPT ![channel(t)] = Tail(@)]

\* append_history(reply) is all that is left of the turn.
StartAppend(t, shown, reply) ==
  turn' = [turn EXCEPT ![t] = [Fresh EXCEPT !.phase = "appending",
                                            !.shown = shown,
                                            !.reply = reply]]

\* Yields a last piece of text before append_history(reply).
ShowAndAppend(t, piece, reply) ==
  StartAppend(t, Append(turn[t].shown, piece), reply)

\* Faulty variant for mutation (bug_report.md:6): what was streamed before the
\* failure is not stored.
Degrade_drops_partial(t) == ShowAndAppend(t, Degraded, <<Degraded>>)

\* The turn answers with the degraded text after what it has shown so far.
Degrade(t) == ShowAndAppend(t, Degraded, Append(turn[t].shown, Degraded))

-----------------------------------------------------------------------------
(* handler.ts: the queue of one socket, and the entry to run_turn. *)

Arrive(t) == /\ phase(t) = "idle"
             /\ channel(t) \notin closed
             /\ turn' = [turn EXCEPT ![t].phase = "queued"]
             /\ queue' = [queue EXCEPT ![channel(t)] = Append(@, t)]
             /\ UNCHANGED <<breaker, call, registered, pending, history, closed>>

Close(c) == /\ c \notin closed
            /\ closed' = closed \cup {c}
            /\ UNCHANGED <<breaker, call, registered, pending, history, queue, turn>>

\* Faulty variant for mutation (bug_report.md:12): messages of one socket are
\* handled as they arrive, side by side.
IsNext_unserialized(t) == phase(t) = "queued"

IsNext(t) == /\ phase(t) = "queued"
             /\ t = Head(queue[channel(t)])

\* A message whose turn comes after the socket closed is skipped.
Drop(t) == /\ IsNext(t)
           /\ channel(t) \in closed
           /\ Finish(t, "dropped")
           /\ UNCHANGED <<breaker, call, registered, pending, history, closed>>

Starts(t) == IsNext(t) /\ channel(t) \notin closed

\* The message does not parse or its token does not verify: an error frame.
Reject(t) == /\ Starts(t)
             /\ Finish(t, "failed")
             /\ UNCHANGED <<breaker, call, registered, pending, history, closed>>

-----------------------------------------------------------------------------
(* run_turn, up to its first await: one action per way it can go. *)

\* Faulty variant for mutation: the confirmation outlives its answer.
DropPending_forgets(t) == UNCHANGED pending

DropPending(t) == pending' = [pending EXCEPT ![session(t)] = None]

\* An affirmative answers the pending confirmation, which is gone before the
\* tool runs.  The stream that follows is already a grounded follow-up.
ConfirmTool(t) ==
  /\ Starts(t)
  /\ pending[session(t)] # None
  /\ DropPending(t)
  /\ IF pending[session(t)][1] \in registered
     THEN turn' = [turn EXCEPT ![t] =
            [@ EXCEPT !.tools = pending[session(t)], !.round = 1,
                      !.phase = "executing"]]
     ELSE ShowAndAppend(t, Refusal, <<Refusal>>)
  /\ UNCHANGED <<breaker, call, registered, history, queue, closed>>

\* Filler gets no answer; a pending confirmation stays.
SuppressFiller(t) ==
  /\ Starts(t)
  /\ Finish(t, "done")
  /\ UNCHANGED <<breaker, call, registered, pending, history, closed>>

AnswerFaq(t) ==
  /\ Starts(t)
  /\ DropPending(t)
  /\ ShowAndAppend(t, Canned, <<Canned>>)
  /\ UNCHANGED <<breaker, call, registered, history, queue, closed>>

AnswerDegraded(t) ==
  /\ Starts(t)
  /\ ~HasApiKey \/ CB!is_open(breaker)
  /\ DropPending(t)
  /\ Degrade(t)
  /\ UNCHANGED <<breaker, call, registered, history, queue, closed>>

RunLlmTurn(t) ==
  /\ Starts(t)
  /\ HasApiKey /\ ~CB!is_open(breaker)
  /\ DropPending(t)
  /\ turn' = [turn EXCEPT ![t].phase = "loading"]
  /\ UNCHANGED <<breaker, call, registered, history, queue, closed>>

\* The stored messages and the resident's, then, after a confirmed tool, the
\* grounding message.
LoadHistory(t) ==
  /\ phase(t) = "loading"
  /\ turn' = [turn EXCEPT ![t] =
       [@ EXCEPT !.request = roles_of(history[session(t)]) \o
                   (IF turn[t].round = 0 THEN <<"user">> ELSE <<"user", "user">>),
                 !.phase = "ready"]]
  /\ UNCHANGED <<breaker, call, registered, pending, history, queue, closed>>

-----------------------------------------------------------------------------
(* stream_with_reliability, and what its two callers do with its outcome. *)

\* Faulty variant for mutation: the stream starts without asking the breaker.
AskModel_unguarded(t) ==
  /\ phase(t) = "ready"
  /\ call' = [call EXCEPT ![t] = "normal"]
  /\ turn' = [turn EXCEPT ![t].phase = "streaming"]
  /\ UNCHANGED <<breaker, registered, pending, history, queue, closed>>

AskModel(t) ==
  /\ phase(t) = "ready"
  /\ CB!Admit(t)
  /\ turn' = [turn EXCEPT ![t].phase = "streaming"]
  /\ UNCHANGED <<registered, pending, history, queue, closed>>

\* circuit_open: degraded, and not a failure of the model.
ModelRefused(t) ==
  /\ phase(t) = "ready"
  /\ CB!Refuse(t)
  /\ Degrade(t)
  /\ UNCHANGED <<registered, pending, history, queue, closed>>

StreamText(t) ==
  /\ phase(t) = "streaming"
  /\ ~turn[t].yielded
  /\ turn' = [turn EXCEPT ![t] =
       [@ EXCEPT !.yielded = TRUE,
                 !.shown = Append(turn[t].shown, Model(turn[t].round))]]
  /\ UNCHANGED <<breaker, call, registered, pending, history, queue, closed>>

MayRetry(t) == ~turn[t].yielded /\ turn[t].attempt < MaxRetries

RetryModel(t) ==
  /\ phase(t) = "streaming"
  /\ MayRetry(t)
  /\ turn' = [turn EXCEPT ![t] =
       [@ EXCEPT !.attempt = turn[t].attempt + 1, !.yielded = FALSE]]
  /\ UNCHANGED <<breaker, call, registered, pending, history, queue, closed>>

ModelAnswers(t) ==
  /\ phase(t) = "streaming"
  /\ CB!Succeed(t)
  /\ StartAppend(t, turn[t].shown, turn[t].shown)
  /\ UNCHANGED <<registered, pending, history, queue, closed>>

\* hops + 1 < max_tool_hops in the follow-up numbered hops = round - 1; the
\* first stream of a turn always dispatches.
MayDispatch(t) == turn[t].round < MaxToolHops

ModelSelectsTools(t) ==
  /\ phase(t) = "streaming"
  /\ MayDispatch(t)
  /\ CB!Succeed(t)
  /\ \E tools \in BoundedSeq(Tools, MaxToolUses) \ {<<>>} :
       turn' = [turn EXCEPT ![t] =
         [@ EXCEPT !.tools = tools, !.phase = "dispatching",
                   !.attempt = 0, !.yielded = FALSE]]
  /\ UNCHANGED <<registered, pending, history, queue, closed>>

HopBudgetExhausted(t) ==
  /\ phase(t) = "streaming"
  /\ ~MayDispatch(t)
  /\ CB!Succeed(t)
  /\ IF turn[t].yielded
     THEN StartAppend(t, turn[t].shown, turn[t].shown)
     ELSE ShowAndAppend(t, Refusal, Append(turn[t].shown, Refusal))
  /\ UNCHANGED <<registered, pending, history, queue, closed>>

ModelFailsTransiently(t) ==
  /\ phase(t) = "streaming"
  /\ ~MayRetry(t)
  /\ CB!FailTransient(t)
  /\ Degrade(t)
  /\ UNCHANGED <<registered, pending, history, queue, closed>>

ModelFailsOtherwise(t) ==
  /\ phase(t) = "streaming"
  /\ CB!FailOther(t)
  /\ Degrade(t)
  /\ UNCHANGED <<registered, pending, history, queue, closed>>

-----------------------------------------------------------------------------
(* dispatch_tools and the dispatcher: the selected tools in order. *)

Selected(t) == Head(turn[t].tools)

\* The turn ends here; only the refusal is stored.
DispatchUnknown(t) ==
  /\ phase(t) = "dispatching"
  /\ Selected(t) \notin registered
  /\ ShowAndAppend(t, Refusal, <<Refusal>>)
  /\ UNCHANGED <<breaker, call, registered, pending, history, queue, closed>>

\* The turn ends here with the question; only the question is stored.
AskConfirmation(t) ==
  /\ phase(t) = "dispatching"
  /\ Selected(t) \in registered \cap Gated
  /\ pending' = [pending EXCEPT ![session(t)] = <<Selected(t)>>]
  /\ ShowAndAppend(t, Confirm, <<Confirm>>)
  /\ UNCHANGED <<breaker, call, registered, history, queue, closed>>

RunTool(t) ==
  /\ phase(t) = "dispatching"
  /\ Selected(t) \in registered \ Gated
  /\ turn' = [turn EXCEPT ![t].phase = "executing"]
  /\ UNCHANGED <<breaker, call, registered, pending, history, queue, closed>>

\* A tool's result or error comes back: the next tool, the load of a
\* confirmed turn, or a follow-up stream on one more user message.
tool_returned(r) ==
  IF Len(r.tools) > 1
  THEN [r EXCEPT !.tools = Tail(r.tools), !.phase = "dispatching"]
  ELSE IF r.request = <<>>
  THEN [r EXCEPT !.tools = <<>>, !.phase = "loading"]
  ELSE [r EXCEPT !.tools = <<>>, !.round = r.round + 1,
                 !.request = Append(r.request, "user"), !.phase = "ready"]

ToolReturns(t) ==
  /\ phase(t) = "executing"
  /\ turn' = [turn EXCEPT ![t] = tool_returned(turn[t])]
  /\ UNCHANGED <<breaker, call, registered, pending, history, queue, closed>>

-----------------------------------------------------------------------------
(* append_history: load, then save; each is a round trip to the store. *)

SkipEmptyReply(t) ==
  /\ phase(t) = "appending"
  /\ turn[t].reply = <<>>
  /\ Finish(t, "done")
  /\ UNCHANGED <<breaker, call, registered, pending, history, closed>>

LoadForAppend(t) ==
  /\ phase(t) = "appending"
  /\ turn[t].reply # <<>>
  /\ turn' = [turn EXCEPT ![t] =
       [@ EXCEPT !.loaded = history[session(t)], !.phase = "saving"]]
  /\ UNCHANGED <<breaker, call, registered, pending, history, queue, closed>>

SavePair(t) ==
  history' = [history EXCEPT ![session(t)] = appended(turn[t].loaded, t)]

Save(t) ==
  /\ phase(t) = "saving"
  /\ SavePair(t)
  /\ Finish(t, "done")
  /\ UNCHANGED <<breaker, call, registered, pending, closed>>

\* The store is unreachable, or its answer to a save is lost: the turn throws.
StoreFails(t) ==
  /\ \/ phase(t) \in {"loading", "saving"}
     \/ phase(t) = "appending" /\ turn[t].reply # <<>>
  /\ \/ UNCHANGED history
     \/ phase(t) = "saving" /\ SavePair(t)
  /\ Finish(t, "failed")
  /\ UNCHANGED <<breaker, call, registered, pending, closed>>

-----------------------------------------------------------------------------
Register(tool) ==
  /\ registered' = registered \cup {tool}
  /\ UNCHANGED <<breaker, call, pending, history, queue, closed, turn>>

Deregister(tool) ==
  /\ registered' = registered \ {tool}
  /\ UNCHANGED <<breaker, call, pending, history, queue, closed, turn>>

RecoveryWindowElapses ==
  /\ CB!RecoveryWindowElapses
  /\ UNCHANGED <<registered, pending, history, queue, closed, turn>>

\* What a turn does once its message has arrived.
Step(t) ==
  \/ Drop(t)
  \/ Reject(t)
  \/ ConfirmTool(t)
  \/ SuppressFiller(t)
  \/ AnswerFaq(t)
  \/ AnswerDegraded(t)
  \/ RunLlmTurn(t)
  \/ LoadHistory(t)
  \/ AskModel(t)
  \/ ModelRefused(t)
  \/ StreamText(t)
  \/ RetryModel(t)
  \/ ModelAnswers(t)
  \/ ModelSelectsTools(t)
  \/ HopBudgetExhausted(t)
  \/ ModelFailsTransiently(t)
  \/ ModelFailsOtherwise(t)
  \/ DispatchUnknown(t)
  \/ AskConfirmation(t)
  \/ RunTool(t)
  \/ ToolReturns(t)
  \/ SkipEmptyReply(t)
  \/ LoadForAppend(t)
  \/ Save(t)
  \/ StoreFails(t)

Next ==
  \/ \E t \in Turns : Arrive(t) \/ Step(t)
  \/ \E c \in Sockets : Close(c)
  \/ \E tool \in Volatile : Register(tool) \/ Deregister(tool)
  \/ RecoveryWindowElapses

Spec == Init /\ [][Next]_vars

\* A turn under way goes on: the model's client and the store's time out, and
\* a tool port answers or throws.  Nobody has to speak, close or register.
FairSpec == Spec /\ \A t \in Turns : WF_vars(Step(t))

-----------------------------------------------------------------------------
TypeOK ==
  /\ CB!TypeOK
  /\ registered \subseteq Tools
  /\ pending \in [Sessions -> {None} \cup {<<g>> : g \in Gated}]
  /\ history \in [Sessions -> Seq(Messages)]
  /\ queue \in [Channels -> Seq(Turns)]
  /\ closed \subseteq Channels
  /\ turn \in [Turns -> Locals]

\* However turns of one session overlap, and whichever load or save fails,
\* what the store holds alternates user and assistant, starts with a user,
\* pairs each answer with its own question and stays within the limit
\* (append_history, core.ts:593-607: "a lone user message would break role
\* alternation on later LLM calls").
HistorySound ==
  \A s \in Sessions : Paired(history[s]) /\ Len(history[s]) <= MaxHistory

\* A turn's text is stored at most once, in its own session only.
StoredOnce ==
  \A s \in Sessions :
    /\ \A t \in TurnsOf(history[s]) : SessionOf[t] = s
    /\ \A i, j \in 1..Len(history[s]) :
         (history[s][i] = history[s][j]) => i = j

\* What a turn stores is what the resident saw, all of it, except that a turn
\* which ends in a confirmation question or a refused tool stores that last
\* piece alone.
ReplyIsWhatWasShown ==
  \A t \in Turns :
    turn[t].reply # <<>> =>
      \/ turn[t].reply = turn[t].shown
      \/ /\ Last(turn[t].shown) \in {Confirm, Refusal}
         /\ turn[t].reply = <<Last(turn[t].shown)>>

\* No piece reaches the resident twice: a retried stream is not replayed.
NothingReplayed ==
  \A t \in Turns : IsInjective(turn[t].shown)

\* The first model call of a turn sends alternating roles ending in a user
\* message, whatever other turns stored since the session began.
FirstRequestAlternates ==
  \A t \in Turns : (phase(t) = "streaming" /\ turn[t].round = 0) =>
    LET roles == turn[t].request IN
    /\ roles[Len(roles)] = "user"
    /\ \A i \in 1..Len(roles) :
         roles[i] = IF i % 2 = 1 THEN "user" ELSE "assistant"

\* What the model is asked, the resident is shown and the history keeps of a turn
\* agree, whatever is retried, degraded, refused or stored around it.
ExchangeSound == ReplyIsWhatWasShown /\ NothingReplayed /\ FirstRequestAlternates

\* A gated tool starts only in the step that takes the session's pending
\* confirmation for exactly that tool, so one confirmation runs it once, even
\* when two turns answer it at the same time.
OneRunPerConfirmation ==
  [][\A t \in Turns :
       (phase(t) # "executing" /\ phase(t)' = "executing"
          /\ Head(turn'[t].tools) \in Gated) =>
       /\ pending[session(t)] = <<Head(turn'[t].tools)>>
       /\ pending'[session(t)] = None]_vars

\* A socket has one turn under way at a time, the head of its queue, and a
\* turn that is over has left the queue for good (handler.ts:56-66).
OneTurnPerSocket ==
  \A t \in Turns :
    /\ phase(t) \in Running =>
         queue[channel(t)] # <<>> /\ Head(queue[channel(t)]) = t
    /\ phase(t) \in Over \cup {"idle"} => \A c \in Channels : ~Contains(queue[c], t)

\* A message that reached its socket's queue is eventually answered, skipped
\* or failed, behind any failing turn and whatever the model does.
EveryTurnEnds == \A t \in Turns : phase(t) = "queued" ~> phase(t) \in Over

\* The breaker of core.ts, as this module drives it, is CircuitBreaker.
BreakerSpec == CB!Spec

\* Turns of one session that share a socket add to its history one after the
\* other, and no stored pair is lost except by trimming.
Log == INSTANCE ConversationLog WITH log <- history
LogSpec == Log!Spec

-----------------------------------------------------------------------------
(* Statements the code makes of itself that the model refutes. *)

\* handler.ts:56-58, turns never "race append_history on the same session":
\* what one turn stores is not overwritten by another.
NoStoredPairLost ==
  [][\A s \in Sessions :
       history'[s] # history[s] =>
         \E t \in Turns : history'[s] = appended(history[s], t)]_vars

\* core.ts:290-291 and 409-411: history records what the resident saw.
HistoryMatchesShown ==
  \A t \in Turns : turn[t].reply # <<>> => turn[t].reply = turn[t].shown

\* core.ts:594-595 and bug_report.md item 3: consecutive user roles are
\* rejected by the model's API, so no call sends them.
RequestsAlternate ==
  \A t \in Turns : phase(t) = "streaming" =>
    \A i \in 1..(Len(turn[t].request) - 1) :
      turn[t].request[i] # turn[t].request[i + 1]
=============================================================================
