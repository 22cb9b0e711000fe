------------------------------- MODULE Requests -------------------------------
(***************************************************************************)
(* The way of one request through ap-server: the gateway's routes, the     *)
(* handler of the module that owns the route and, when the request is a    *)
(* question to the assistant, typed or from ap-voice, the tools its turn   *)
(* calls.  The token is looked at more than once on the way, and may       *)
(* expire between two looks.                                               *)
(*                                                                         *)
(* Requests share the stores, which have modules of their own, and nothing *)
(* else, so that a behaviour is one request.  What a service does to a     *)
(* store is one act here; a conversation's turn is its calls of tools.     *)
(***************************************************************************)
EXTENDS Naturals

CONSTANTS Residents,   \* who tokens are issued to
          MaxTools     \* bound: tools a turn calls

ASSUME RequestsAssumption == MaxTools \in Nat

\* What a request carries instead of a resident's token.
NotTokens == {"none", "unverifiable"}

civic == {"/civic", "/civic/dismiss", "/civic/refresh"}
utility == {"/utility/site-script", "/utility/catalog", "/utility/bill-push", "/utility/read",
            "/utility/profile", "/utility/profile/read", "/utility/accounts",
            "/utility/accounts/read", "/utility/accounts/unlink"}
reminders == {"/reminders/set", "/reminders/list", "/reminders/dismiss"}
notifications == {"/notifications/registrations", "/notifications/registrations/read",
                  "/notifications/pending"}

\* The routes of the gateway, and the sockets ap-voice opens.
query == "/assistant/query"
voice == "/assistant"
health == "/health"
Paths == civic \cup utility \cup reminders \cup notifications \cup {query, voice, health}

\* Answered from what the process holds; the site of a script may be unknown.
Held == {"/utility/site-script", "/utility/catalog"}

\* Answered without content.
NoContent == {"/civic/dismiss", "/civic/refresh", "/utility/bill-push", "/utility/profile",
              "/utility/accounts", "/utility/accounts/unlink", "/reminders/dismiss",
              "/notifications/registrations"}

\* The routes that take nothing from the body but the token.
Bodiless == {"/civic/refresh", "/utility/catalog", "/utility/profile/read",
             "/utility/accounts/read", "/reminders/list", "/notifications/registrations/read",
             "/notifications/pending", health}

\* The services that turn down what is asked before they touch a store: no saved
\* address or no kind; a site that is not linked.
Refusing == {"/civic", "/utility/bill-push", "my_area", "check_collection_schedule"}

-----------------------------------------------------------------------------
(* The tools of the assistant, and the ports that carry their calls. *)

\* The operations of the tools, by the module behind them.
seed_tools == [check_collection_schedule |-> "ap-civic", check_city_alerts |-> "ap-civic",
               check_city_events |-> "ap-civic", my_area |-> "ap-civic",
               check_power_status |-> "ap-utility", read_utility_bill |-> "ap-utility",
               set_reminder |-> "ap-reminders", list_reminders |-> "ap-reminders"]

civic_op_to_resource ==
  [check_collection_schedule |-> "collection_schedule", check_city_alerts |-> "alerts",
   check_city_events |-> "events", my_area |-> "my_area"]
utility_op_to_resource == [check_power_status |-> "outage", read_utility_bill |-> "bills"]

\* The reminders' port knows listing; what else it is sent is a setting.
Known(op) ==
  \/ seed_tools[op] = "ap-civic" /\ op \in DOMAIN civic_op_to_resource
  \/ seed_tools[op] = "ap-utility" /\ op \in DOMAIN utility_op_to_resource
  \/ seed_tools[op] = "ap-reminders"

\* A result without an error counts as the data of its source.
Cites(op) == seed_tools[op] # "ap-reminders"
Provenance(op, result) ==
  IF ~Cites(op) THEN {} ELSE {IF result = "data" THEN "source" ELSE "source_failure"}

\* The entry that was stored has a time, and is shown as a card.
Card(op, result) == IF op = "set_reminder" /\ result = "data" THEN {"reminder"} ELSE {}

-----------------------------------------------------------------------------

VARIABLES path, token,
          body,      \* whether the request has a JSON body (the token may be in a header)
          expired,   \* whether the token has
          stage,     \* where the request is
          tool,      \* the tool a turn is calling
          calls,     \* how many it called
          acts,      \* history: what was done to a store, and for whom
          cited,     \* history: the tools whose data was given as a source
          shown,     \* the chunks besides text
          trouble,   \* history: why the request failed
          answer     \* a status, or how a stream ended

request_vars ==
  <<path, token, body, expired, stage, tool, calls, acts, cited, shown, trouble, answer>>
asked == <<path, token, body>>
turn_vars == <<tool, calls, cited, shown>>

RequestsInit ==
  /\ path \in Paths /\ token \in Residents \cup NotTokens /\ body \in BOOLEAN
  /\ expired = FALSE /\ stage = "arrived" /\ tool = "none" /\ calls = 0
  /\ acts = {} /\ cited = {} /\ shown = {} /\ trouble = "none" /\ answer = "none"

\* jwtVerify looks at the signature and the clock; decodeJwt at neither.
Verifies == token \in Residents /\ ~expired
TokenExpires == ~expired /\ expired' = TRUE
                /\ UNCHANGED <<asked, stage, turn_vars, acts, trouble, answer>>

Goes(to) == stage' = to /\ UNCHANGED <<asked, expired, acts, trouble, answer>>
Answers(with, cause) ==
  /\ stage' = "answered" /\ answer' = with /\ trouble' = cause
  /\ UNCHANGED <<asked, expired>>
Acted(on) == acts' = acts \cup {[on |-> on, for |-> token]}

-----------------------------------------------------------------------------
(* gateway.ts *)

\* express.json does not take the body: malformed, or above the limit.
BodyRejected ==
  /\ stage = "arrived" /\ path \notin {voice, health} /\ body
  /\ Answers("400", "body") /\ UNCHANGED <<acts, turn_vars>>

Health == /\ stage = "arrived" /\ path = health
          /\ Answers("200", "none") /\ UNCHANGED <<acts, turn_vars>>

authenticate ==
  /\ stage = "arrived" /\ path \notin {voice, health} /\ UNCHANGED turn_vars
  /\ \/ Verifies /\ Goes("verified")
     \/ ~Verifies /\ Answers("401", "token") /\ UNCHANGED acts

\* A body that is not there cannot be taken apart; the assistant's route takes it
\* apart after it opened the stream and outside its try.
Misread ==
  /\ stage = "verified" /\ ~body /\ path \notin Bodiless
  /\ Answers(IF path = query THEN "cut" ELSE "500", "body") /\ UNCHANGED <<acts, turn_vars>>

\* The claims the gateway verified are handed on, or the token is decoded again:
\* neither fails for a token that expired meanwhile.
Forwarded_verified == IF path \in notifications /\ ~Verifies
                      THEN Answers("500", "token") /\ UNCHANGED acts ELSE Goes("serving")
Forwarded == Goes("serving")

route ==
  /\ stage = "verified" /\ (body \/ path \in Bodiless) /\ UNCHANGED turn_vars
  /\ \/ path = query /\ Goes("streaming")
     \/ /\ path \in Held
        /\ UNCHANGED acts
        /\ \/ Answers("200", "none")
           \/ path = "/utility/site-script" /\ Answers("404", "site")
     \/ path \notin Held \cup {query} /\ Forwarded

\* A module that throws is answered by fail; a store that fails may have done it.
Fail_silent(cause) == stage' = "dropped" /\ UNCHANGED <<asked, expired, trouble, answer>>
Fail(cause) == Answers("500", cause)

serve ==
  /\ stage = "serving" /\ UNCHANGED turn_vars
  /\ \/ Acted(path) /\ Answers(IF path \in NoContent THEN "204" ELSE "200", "none")
     \/ path \in Refusing /\ UNCHANGED acts /\ Fail("service")
     \/ (UNCHANGED acts \/ Acted(path)) /\ Fail("store")

-----------------------------------------------------------------------------
(* The assistant *)

\* A message that is no query: what it holds is looked at before the token.
InvalidQuery ==
  /\ stage = "arrived" /\ path = voice /\ ~body
  /\ Answers("error", "body") /\ UNCHANGED <<acts, turn_vars>>

\* assistant_query verifies what the gateway verified, in a stream that is open.
QueryVerified ==
  /\ stage = "streaming" \/ (stage = "arrived" /\ path = voice /\ body)
  /\ UNCHANGED turn_vars
  /\ \/ Verifies /\ Goes("turn")
     \/ ~Verifies /\ Answers("error", "token") /\ UNCHANGED acts

\* The model selects a tool.
dispatch ==
  /\ stage = "turn" /\ calls < MaxTools
  /\ Goes("tool") /\ calls' = calls + 1 /\ tool' \in DOMAIN seed_tools
  /\ UNCHANGED <<cited, shown>>

\* Whatever the port returns or throws becomes the result, and the turn goes on.
Returns(result) ==
  /\ stage' = "turn" /\ tool' = "none"
  /\ shown' = shown \cup Card(tool, result) \cup Provenance(tool, result)
  /\ cited' = IF "source" \in Provenance(tool, result) THEN cited \cup {tool} ELSE cited
  /\ UNCHANGED <<asked, expired, calls, trouble, answer>>

\* The module verifies the forwarded token by itself: never bare claims.
AgentVerifies == Verifies

\* Without an operation it knows, or a time for a reminder, the port answers in
\* the module's place.
send ==
  /\ stage = "tool"
  /\ \/ /\ ~Known(tool) \/ tool = "set_reminder" \/ ~AgentVerifies
        /\ UNCHANGED acts /\ Returns("error")
     \/ /\ Known(tool) /\ AgentVerifies
        /\ Goes("agent_request") /\ UNCHANGED turn_vars

agent_request ==
  /\ stage = "agent_request"
  /\ \/ Acted(tool) /\ Returns("data")
     \/ tool \in Refusing /\ UNCHANGED acts /\ Returns("error")
     \/ (UNCHANGED acts \/ Acted(tool)) /\ Returns("error")

\* The turn ends, or its session store or what else is not caught throws.
TurnEnds ==
  /\ stage = "turn" /\ UNCHANGED <<acts, turn_vars>>
  /\ (Answers("done", "none") \/ Answers("error", "store"))

-----------------------------------------------------------------------------

RequestStep == BodyRejected \/ Health \/ authenticate \/ Misread \/ route \/ serve
               \/ InvalidQuery \/ QueryVerified \/ dispatch \/ send \/ agent_request \/ TurnEnds
RequestsNext == TokenExpires \/ RequestStep

\* Stores, keys and the model answer, or fail.
RequestsFairness == WF_request_vars(RequestStep)

-----------------------------------------------------------------------------
(* Properties *)

\* Failures of a token are told from failures of the work (gateway.ts:59-61),
\* also when it expires on the way: with 401 and nothing done, or by the error
\* frame of a stream that is open.
TokenFailuresAreTold ==
  /\ trouble = "token" =>
       acts = {} /\ (answer = "401" \/ (answer = "error" /\ path \in {query, voice}))
  /\ answer = "401" => trouble = "token" /\ path # voice

\* What is done is done for the resident of the token (handler.ts), and an
\* answer without error says what was done; a card stands for a reminder that is
\* stored, a source for data that was read.
WorkIsAccountedFor ==
  /\ \A a \in acts : a.for = token /\ token \in Residents
  /\ answer \in {"200", "204"} /\ path \notin Held \cup {health}
     => [on |-> path, for |-> token] \in acts
  /\ \A t \in cited : [on |-> t, for |-> token] \in acts
  /\ "reminder" \in shown => [on |-> "set_reminder", for |-> token] \in acts

\* Every tool of the assistant has an operation behind its port (tool_ports.ts).
ToolsAreKnown == \A op \in DOMAIN seed_tools : Known(op)

AnswersAgree == TokenFailuresAreTold /\ WorkIsAccountedFor /\ ToolsAreKnown

\* Every request is answered, whatever throws on its way.
EveryRequestEnds == path \in Paths ~> answer # "none"
=============================================================================
