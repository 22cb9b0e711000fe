------------------------------ MODULE Reminders ------------------------------
(***************************************************************************)
(* How a stored reminder reaches the resident's phone: ap-reminders        *)
(* (service.ts) fires due rows on a timer of ap-server's scheduler.ts, the *)
(* notifier adapter of index.ts queues a delivery in ap-notifications, and *)
(* the phone drains its queue with a poll (useNotifications.ts).           *)
(*                                                                         *)
(* Every call to the Postgres stores is a round trip, so an evaluation is  *)
(* one step per call; nothing keeps the next timer tick from starting one  *)
(* while the last is still under way.  A call may throw with or without    *)
(* its effect, and the process may restart between any two.                *)
(*                                                                         *)
(* Data abstraction: a scheduled instant is past or not, or it is text in  *)
(* which postgres finds no time, which nobody looks at when a reminder is  *)
(* set; titles and bodies are left out.  A result set has no order.        *)
(***************************************************************************)
EXTENDS Naturals, FiniteSets, Sequences

CONSTANTS Reminders,    \* reminder ids, each set at most once
          Residents,
          Tenants,      \* cities, a database schema each
          OwnerOf,      \* reminder -> resident
          CityOf,       \* resident -> tenant
          Ticks         \* evaluations that may be under way at once

ASSUME RemindersAssumption ==
  /\ OwnerOf \in [Reminders -> Residents]
  /\ CityOf \in [Residents -> Tenants]
  /\ IsFiniteSet(Ticks)

VARIABLES row,       \* per reminder, its row's status; "unset" before
          past,      \* reminders whose scheduled_at has passed
          unreadable, \* reminders whose scheduled_at is not a time
          known,     \* tenants whose schema this process has bootstrapped, in order
          tick,      \* per evaluation, its local variables
          pending,   \* per reminder, its rows in notifications_pending
          answer,    \* per reminder, its deliveries in an answered poll
          polled,    \* residents whose phone has an answer to go through
          sent,      \* per reminder, how often it was queued (history)
          raised     \* reminders the phone has shown (history)

vars == <<row, past, unreadable, known, tick, pending, answer, polled, sent, raised>>
queueVars == <<answer, polled, raised>>

None == {}   \* an evaluation between two reminders

Idle == [now |-> {}, tenants |-> <<>>, due |-> {}, firing |-> None]

Evaluations == [now: SUBSET Reminders,      \* past when it began
                tenants: Seq(Tenants),      \* not yet listed
                due: SUBSET Reminders,      \* listed, not yet fired
                firing: {None} \cup {{r} : r \in Reminders}]

tenant(r) == CityOf[OwnerOf[r]]
owned(c) == {r \in Reminders : OwnerOf[r] = c}

Init == /\ row = [r \in Reminders |-> "unset"]
        /\ past = {}
        /\ unreadable = {}
        /\ known = <<>>
        /\ tick = [k \in Ticks |-> Idle]
        /\ pending = [r \in Reminders |-> 0]
        /\ answer = [r \in Reminders |-> 0]
        /\ polled = {}
        /\ sent = [r \in Reminders |-> 0]
        /\ raised = {}

-----------------------------------------------------------------------------
(* Requests of the resident.  Each touches the tenant's schema, which      *)
(* bootstraps it in this process.                                          *)

scoped(t) == IF \E i \in 1..Len(known) : known[i] = t THEN known ELSE Append(known, t)

SetReminder(r) ==
  /\ row[r] = "unset"
  /\ row' = [row EXCEPT ![r] = "upcoming"]
  /\ unreadable' \in {unreadable, unreadable \cup ({r} \ past)}
  /\ known' = scoped(tenant(r))
  /\ UNCHANGED <<past, tick, pending, sent>> /\ UNCHANGED queueVars

DismissReminder(r) ==
  /\ row[r] \in {"upcoming", "fired"}
  /\ row' = [row EXCEPT ![r] = "deleted"]
  /\ known' = scoped(tenant(r))
  /\ UNCHANGED <<past, unreadable, tick, pending, sent>> /\ UNCHANGED queueVars

TimePasses(r) ==
  /\ r \notin past \cup unreadable
  /\ past' = past \cup {r}
  /\ UNCHANGED <<row, unreadable, known, tick, pending, sent>> /\ UNCHANGED queueVars

-----------------------------------------------------------------------------
(* run_reminder_evaluation *)

\* The timer fires: now and the list of tenants are read before any await.
StartTick(k) ==
  /\ tick[k] = Idle
  /\ tick' = [tick EXCEPT ![k] = IF known = <<>> THEN Idle
                                 ELSE [Idle EXCEPT !.now = past, !.tenants = known]]
  /\ UNCHANGED <<row, past, unreadable, known, pending, sent>> /\ UNCHANGED queueVars

\* What is left of an evaluation; nothing left ends it.
rest(e) == IF e.tenants = <<>> /\ e.due = {} /\ e.firing = None THEN Idle ELSE e

BetweenReminders(k) == tick[k] # Idle /\ tick[k].firing = None

\* Faulty variant for mutation: fired rows are listed with the upcoming ones.
listed_any_status(k, t) ==
  {r \in tick[k].now : row[r] \in {"upcoming", "fired"} /\ tenant(r) = t}

\* WHERE status = 'upcoming' AND scheduled_at <= now
listed(k, t) == {r \in tick[k].now : row[r] = "upcoming" /\ tenant(r) = t}

\* list_due casts scheduled_at of the upcoming rows, and throws at one that is no time.
stuck(t) == \E r \in unreadable : row[r] = "upcoming" /\ tenant(r) = t

AtNextTenant(k, t) ==
  BetweenReminders(k) /\ tick[k].due = {} /\ tick[k].tenants # <<>> /\ t = Head(tick[k].tenants)

ListDue(k, t) ==
  /\ AtNextTenant(k, t) /\ ~stuck(t)
  /\ tick' = [tick EXCEPT ![k] =
       rest([tick[k] EXCEPT !.tenants = Tail(tick[k].tenants), !.due = listed(k, t)])]
  /\ UNCHANGED <<row, past, unreadable, known, pending, sent>> /\ UNCHANGED queueVars

\* The evaluation ends there, and with it that of the tenants behind.
ListThrows(k, t) ==
  /\ AtNextTenant(k, t) /\ stuck(t)
  /\ tick' = [tick EXCEPT ![k] = Idle]
  /\ UNCHANGED <<row, past, unreadable, known, pending, sent>> /\ UNCHANGED queueVars

\* An UPDATE: a row dismissed since the listing stays away.
set_fired(r) ==
  row' = IF row[r] = "deleted" THEN row ELSE [row EXCEPT ![r] = "fired"]

Fire(k, r) ==
  /\ BetweenReminders(k)
  /\ r \in tick[k].due
  /\ set_fired(r)
  /\ tick' = [tick EXCEPT ![k] = [tick[k] EXCEPT !.due = tick[k].due \ {r},
                                                  !.firing = {r}]]
  /\ UNCHANGED <<past, unreadable, known, pending, sent>> /\ UNCHANGED queueVars

\* notify_scheduled: a reminder has no opt-in, so it is queued at once.
enqueue(r) == /\ pending' = [pending EXCEPT ![r] = @ + 1]
              /\ sent' = [sent EXCEPT ![r] = @ + 1]

Notify(k, r) ==
  /\ tick[k].firing = {r}
  /\ enqueue(r)
  /\ tick' = [tick EXCEPT ![k] = rest([tick[k] EXCEPT !.firing = None])]
  /\ UNCHANGED <<row, past, unreadable, known>> /\ UNCHANGED queueVars

\* The call under way throws, its effect done or not, and the evaluation ends
\* there; run_on_interval logs it.
TickFails(k) ==
  /\ tick[k] # Idle
  /\ \/ UNCHANGED <<row, pending, sent>>
     \/ \E r \in tick[k].due : /\ BetweenReminders(k)
                               /\ set_fired(r)
                               /\ UNCHANGED <<pending, sent>>
     \/ \E r \in tick[k].firing : enqueue(r) /\ UNCHANGED row
  /\ tick' = [tick EXCEPT ![k] = Idle]
  /\ UNCHANGED <<past, unreadable, known>> /\ UNCHANGED queueVars

\* The process dies and starts again; the tables survive.
Restart ==
  /\ tick' = [k \in Ticks |-> Idle]
  /\ known' = <<>>
  /\ UNCHANGED <<row, past, unreadable, pending, sent>> /\ UNCHANGED queueVars

-----------------------------------------------------------------------------
(* The phone's poll: DELETE ... RETURNING, then one notification per item. *)

\* Faulty variant for mutation: the rows are read, not deleted.
Poll_keeps_rows(c) ==
  /\ c \notin polled
  /\ polled' = polled \cup {c}
  /\ answer' = [r \in Reminders |-> IF r \in owned(c) THEN pending[r] ELSE answer[r]]
  /\ known' = scoped(CityOf[c])
  /\ UNCHANGED <<row, past, unreadable, tick, pending, sent, raised>>

\* Faulty variant for mutation: the queue's store does not go through scoped.
Poll_unscoped(c) ==
  /\ c \notin polled
  /\ polled' = polled \cup {c}
  /\ answer' = [r \in Reminders |-> IF r \in owned(c) THEN pending[r] ELSE answer[r]]
  /\ pending' = [r \in Reminders |-> IF r \in owned(c) THEN 0 ELSE pending[r]]
  /\ UNCHANGED <<row, past, unreadable, known, tick, sent, raised>>

Poll(c) ==
  /\ c \notin polled
  /\ polled' = polled \cup {c}
  /\ answer' = [r \in Reminders |-> IF r \in owned(c) THEN pending[r] ELSE answer[r]]
  /\ pending' = [r \in Reminders |-> IF r \in owned(c) THEN 0 ELSE pending[r]]
  /\ known' = scoped(CityOf[c])
  /\ UNCHANGED <<row, past, unreadable, tick, sent, raised>>

Raise(r) ==
  /\ answer[r] > 0
  /\ answer' = [answer EXCEPT ![r] = @ - 1]
  /\ raised' = raised \cup {r}
  /\ UNCHANGED <<row, past, unreadable, known, tick, pending, polled, sent>>

PollDone(c) ==
  /\ c \in polled
  /\ \A r \in owned(c) : answer[r] = 0
  /\ polled' = polled \ {c}
  /\ UNCHANGED <<row, past, unreadable, known, tick, pending, answer, sent, raised>>

\* The answer is lost on the way, or the app goes while it is shown.
PollLost(c) ==
  /\ c \in polled
  /\ polled' = polled \ {c}
  /\ answer' = [r \in Reminders |-> IF r \in owned(c) THEN 0 ELSE answer[r]]
  /\ UNCHANGED <<row, past, unreadable, known, tick, pending, sent, raised>>

-----------------------------------------------------------------------------
TickStep(k) == \/ StartTick(k)
               \/ \E t \in Tenants : ListDue(k, t) \/ ListThrows(k, t)
               \/ \E r \in Reminders : Fire(k, r) \/ Notify(k, r)
               \/ TickFails(k)

Next == \/ \E r \in Reminders : \/ SetReminder(r)
                                \/ DismissReminder(r)
                                \/ TimePasses(r)
                                \/ Raise(r)
        \/ \E k \in Ticks : TickStep(k)
        \/ Restart
        \/ \E c \in Residents : Poll(c) \/ PollDone(c) \/ PollLost(c)

Spec == Init /\ [][Next]_vars

\* The timer ticks, calls answer and phones poll; the process does not restart for
\* ever; no call fails every time it is made, but list_due when it must (ListThrows).
FairSpec ==
  /\ Spec
  /\ <>[][~Restart]_vars
  /\ \A k \in Ticks :
       /\ WF_vars(StartTick(k))
       /\ \A t \in Tenants : SF_vars(ListDue(k, t)) /\ WF_vars(ListThrows(k, t))
       /\ \A r \in Reminders : SF_vars(Fire(k, r)) /\ SF_vars(Notify(k, r))
  /\ \A c \in Residents : WF_vars(Poll(c)) /\ WF_vars(PollDone(c))
  /\ \A r \in Reminders : WF_vars(Raise(r))

-----------------------------------------------------------------------------
TypeOK ==
  /\ row \in [Reminders -> {"unset", "upcoming", "fired", "deleted"}]
  /\ past \subseteq Reminders
  /\ unreadable \subseteq Reminders \ past
  /\ known \in Seq(Tenants)
  /\ tick \in [Ticks -> Evaluations]
  /\ pending \in [Reminders -> Nat]
  /\ answer \in [Reminders -> Nat]
  /\ polled \subseteq Residents
  /\ sent \in [Reminders -> Nat]
  /\ raised \subseteq Reminders

\* The phone is told of a reminder only after its instant, and only of one
\* that was taken out of the upcoming rows first.
NotEarly ==
  \A r \in Reminders :
    sent[r] > 0 => r \in past /\ row[r] \in {"fired", "deleted"}

\* Failing calls and restarts never queue a reminder again: it is queued at
\* most once by each of the evaluations that overlap, so once if none do
\* (service.ts:67 sets the status before it notifies).
OncePerEvaluation == \A r \in Reminders : sent[r] <= Cardinality(Ticks)

\* No delivery is duplicated on its way from the queue to the phone.
NothingDuplicated ==
  \A r \in Reminders :
    pending[r] + answer[r] + (IF r \in raised THEN 1 ELSE 0) <= sent[r]

\* A row only moves on, also when an evaluation fires a reminder that was
\* dismissed after it was listed: no dismissed or fired reminder comes back.
RowsMoveOn ==
  [][\A r \in Reminders : row[r]' # row[r] =>
       <<row[r], row[r]'>> \in {<<"unset", "upcoming">>, <<"upcoming", "fired">>,
                                <<"upcoming", "deleted">>, <<"fired", "deleted">>}]_vars

\* Evaluations do not get to a reminder: its city is known after one that has an
\* unreadable reminder waiting, or has one itself.
OutOfReach(r) ==
  \E i \in 1..Len(known) :
    stuck(known[i]) /\ \A j \in 1..(i - 1) : known[j] # tenant(r)

\* A reminder whose instant has passed stops waiting, whatever calls fail now and then
\* and however often the process restarts, as long as a phone of its city goes on
\* polling; unless and until a reminder that is set for no time at all stands before it.
DueFires ==
  \A r \in Reminders :
    (row[r] = "upcoming" /\ r \in past) ~> (row[r] # "upcoming" \/ OutOfReach(r))

-----------------------------------------------------------------------------
(* Statements of the code that the model refutes. *)

\* index.ts:213: a reminder the resident set is always delivered, so one that
\* has fired is queued, or about to be.
FiredIsQueued ==
  \A r \in Reminders : row[r] = "fired" =>
    \/ sent[r] > 0
    \/ \E k \in Ticks : tick[k].firing = {r}

\* service.ts:58: every upcoming reminder whose scheduled_at has passed is fired; one
\* that holds no time (gateway.ts:321 takes any text) keeps its city's and those of
\* the cities behind waiting, until it is deleted.
EveryDueFires ==
  \A r \in Reminders : (row[r] = "upcoming" /\ r \in past) ~> row[r] # "upcoming"

\* postgres.ts:619: each queued notification is delivered once.
QueuedIsDelivered == \A r \in Reminders : pending[r] > 0 ~> r \in raised
=============================================================================
