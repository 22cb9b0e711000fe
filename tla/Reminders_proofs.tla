-------------------------- MODULE Reminders_proofs --------------------------
(* Invariance proofs for Reminders, for any reminders, residents, cities    *)
(* and any finite number of overlapping evaluations.                        *)
EXTENDS Reminders, FiniteSetTheorems, TLAPS

\* The residents and tenants the constants name are in their sets.
LEMMA Owners ==
  ASSUME NEW r \in Reminders
  PROVE  OwnerOf[r] \in Residents /\ tenant(r) \in Tenants
BY RemindersAssumption DEF tenant

\* An evaluation with its parts replaced is an evaluation, whether or not
\* that was the last of it.
LEMMA RestTyped ==
  ASSUME NEW e \in Evaluations
  PROVE  rest(e) \in Evaluations
BY DEF rest, Idle, None, Evaluations

\* What an evaluation has in its locals are reminders.
LEMMA Parts ==
  /\ Idle \in Evaluations
  /\ \A e \in Evaluations : e.due \subseteq Reminders /\ e.firing \subseteq Reminders
<1>1. <<>> \in Seq(Tenants)
  OBVIOUS
<1>2. Idle \in Evaluations
  BY <1>1 DEF Idle, None, Evaluations
<1>3. ASSUME NEW e \in Evaluations PROVE e.due \subseteq Reminders /\ e.firing \subseteq Reminders
  <2>1. e.due \in SUBSET Reminders /\ e.firing \in {None} \cup {{r} : r \in Reminders}
    BY DEF Evaluations
  <2> QED
    BY <2>1 DEF None
<1> QED
  BY <1>2, <1>3

\* A schema more is one more in the list.
LEMMA ScopedTyped ==
  ASSUME NEW t \in Tenants, known \in Seq(Tenants)
  PROVE  scoped(t) \in Seq(Tenants)
BY DEF scoped

\* The variables keep their types.
THEOREM TypesKept == Spec => []TypeOK
<1>1. Init => TypeOK
  BY DEF Init, TypeOK, Idle, None, Evaluations
<1>2. TypeOK /\ [Next]_vars => TypeOK'
  <2> SUFFICES ASSUME TypeOK, [Next]_vars
               PROVE  TypeOK'
    OBVIOUS
  <2> USE DEF TypeOK, queueVars
  <2>1. ASSUME NEW r \in Reminders, SetReminder(r)
        PROVE  TypeOK'
    BY <2>1, Owners, ScopedTyped DEF SetReminder
  <2>2. ASSUME NEW r \in Reminders, DismissReminder(r)
        PROVE  TypeOK'
    BY <2>2, Owners, ScopedTyped DEF DismissReminder
  <2>3. ASSUME NEW r \in Reminders, TimePasses(r)
        PROVE  TypeOK'
    BY <2>3 DEF TimePasses
  <2>4. ASSUME NEW r \in Reminders, Raise(r)
        PROVE  TypeOK'
    <3>1. answer[r] - 1 \in Nat
      BY <2>4 DEF Raise
    <3> QED
      BY <2>4, <3>1 DEF Raise
  <2>5. ASSUME NEW k \in Ticks, StartTick(k)
        PROVE  TypeOK'
    BY <2>5 DEF StartTick, Idle, None, Evaluations
  <2>6. ASSUME NEW k \in Ticks, NEW t \in Tenants, ListDue(k, t)
        PROVE  TypeOK'
    <3> DEFINE e == [tick[k] EXCEPT !.tenants = Tail(tick[k].tenants),
                            !.due = listed(k, t)]
    <3>0. Tail(tick[k].tenants) \in Seq(Tenants)
      BY <2>6 DEF ListDue, AtNextTenant, Evaluations
    <3>1. e \in Evaluations
      BY <3>0 DEF Evaluations, listed
    <3>2. tick' = [tick EXCEPT ![k] = rest(e)]
      BY <2>6 DEF ListDue
    <3>3. tick' \in [Ticks -> Evaluations]
      BY <3>1, <3>2, RestTyped
    <3> QED
      BY <2>6, <3>3 DEF ListDue
  <2>7. ASSUME NEW k \in Ticks, NEW r \in Reminders, Fire(k, r)
        PROVE  TypeOK'
    <3>1. row' \in [Reminders -> {"unset", "upcoming", "fired", "deleted"}]
      BY <2>7 DEF Fire, set_fired
    <3>2. tick' \in [Ticks -> Evaluations]
      BY <2>7 DEF Fire, Evaluations
    <3> QED
      BY <2>7, <3>1, <3>2 DEF Fire
  <2>8. ASSUME NEW k \in Ticks, NEW r \in Reminders, Notify(k, r)
        PROVE  TypeOK'
    <3> DEFINE e == [tick[k] EXCEPT !.firing = None]
    <3>1. e \in Evaluations
      BY DEF Evaluations, None
    <3>2. tick' = [tick EXCEPT ![k] = rest(e)]
      BY <2>8 DEF Notify
    <3>3. tick' \in [Ticks -> Evaluations]
      BY <3>1, <3>2, RestTyped
    <3> QED
      BY <2>8, <3>3 DEF Notify, enqueue
  <2>9. ASSUME NEW k \in Ticks, TickFails(k)
        PROVE  TypeOK'
    <3>1. tick' \in [Ticks -> Evaluations]
      BY <2>9, Parts DEF TickFails
    <3>2. tick[k].due \subseteq Reminders /\ tick[k].firing \subseteq Reminders
      BY Parts
    <3>3. UNCHANGED <<past, unreadable, known, answer, polled, raised>>
      BY <2>9 DEF TickFails
    <3>4. CASE UNCHANGED <<row, pending, sent>>
      BY <3>1, <3>3, <3>4
    <3>5. ASSUME NEW r \in tick[k].due, set_fired(r), UNCHANGED <<pending, sent>>
          PROVE  TypeOK'
      BY <3>1, <3>2, <3>3, <3>5 DEF set_fired
    <3>6. ASSUME NEW r \in tick[k].firing, enqueue(r), UNCHANGED row
          PROVE  TypeOK'
      BY <3>1, <3>2, <3>3, <3>6 DEF enqueue
    <3> QED
      BY <2>9, <3>4, <3>5, <3>6 DEF TickFails
  <2>10. CASE Restart
    BY <2>10, Parts DEF Restart
  <2>11. ASSUME NEW c \in Residents, Poll(c)
         PROVE  TypeOK'
    BY <2>11, RemindersAssumption, ScopedTyped DEF Poll, owned
  <2>12. ASSUME NEW c \in Residents, PollDone(c)
         PROVE  TypeOK'
    BY <2>12 DEF PollDone
  <2>13. ASSUME NEW c \in Residents, PollLost(c)
         PROVE  TypeOK'
    BY <2>13 DEF PollLost, owned
  <2>14. CASE UNCHANGED vars
    BY <2>14 DEF vars
  <2>15. ASSUME NEW k \in Ticks, NEW t \in Tenants, ListThrows(k, t)
         PROVE  TypeOK'
    BY <2>15, Parts DEF ListThrows
  <2> QED
    BY <2>1, <2>2, <2>3, <2>4, <2>5, <2>6, <2>7, <2>8, <2>9, <2>10, <2>11,
       <2>12, <2>13, <2>14, <2>15 DEF Next, TickStep
<1> QED
  BY <1>1, <1>2, PTL DEF Spec

-----------------------------------------------------------------------------
(* What an evaluation may have in its locals: rows that were upcoming and   *)
(* past when it listed them, and have not gone back; the one being notified *)
(* has left the list and the upcoming rows.                                 *)

Listed(k) ==
  /\ tick[k].now \subseteq past
  /\ \A r \in tick[k].due : r \in past /\ row[r] # "unset"
  /\ \A r \in tick[k].firing : /\ r \in past \ tick[k].due
                              /\ row[r] \in {"fired", "deleted"}

Sane == TypeOK /\ NotEarly /\ \A k \in Ticks : Listed(k)

\* How a step may treat the rows: none goes back, and instants stay past.
Onward ==
  /\ past \subseteq past'
  /\ \A r \in Reminders :
       \/ row'[r] = row[r]
       \/ row[r] = "unset" /\ row'[r] = "upcoming"
       \/ row[r] = "upcoming" /\ row'[r] \in {"fired", "deleted"}
       \/ row[r] = "fired" /\ row'[r] = "deleted"

\* Onward steps keep what an evaluation that does not move has in its locals.
LEMMA ListedStays ==
  ASSUME TypeOK, NEW k \in Ticks, Listed(k), Onward, tick'[k] = tick[k]
  PROVE  Listed(k)'
<1>1. tick[k].due \subseteq Reminders /\ tick[k].firing \subseteq Reminders
  BY Parts DEF TypeOK
<1> QED
  BY <1>1 DEF Listed, Onward

\* So do they keep NotEarly while nothing is queued.
LEMMA NotEarlyStays ==
  ASSUME TypeOK, NotEarly, Onward, sent' = sent
  PROVE  NotEarly'
BY DEF TypeOK, NotEarly, Onward

\* An idle evaluation, or one that has nothing left, has nothing in its locals.
LEMMA RestListed ==
  ASSUME NEW e
  PROVE  /\ rest(e) = e \/ rest(e) = Idle
         /\ Idle.now = {} /\ Idle.due = {} /\ Idle.firing = {}
BY DEF rest, Idle, None

\* Every step is onward; the rows a step sets are upcoming or listed ones.
LEMMA StepsOnward ==
  ASSUME Sane, [Next]_vars
  PROVE  Onward
<1> USE DEF Sane, TypeOK, queueVars, Onward
<1>1. ASSUME NEW r \in Reminders, SetReminder(r) \/ DismissReminder(r) \/ TimePasses(r)
      PROVE  Onward
  BY <1>1 DEF SetReminder, DismissReminder, TimePasses
<1>2. ASSUME NEW k \in Ticks, NEW r \in tick[k].due, set_fired(r), UNCHANGED past
      PROVE  Onward
  <2>1. r \in Reminders /\ row[r] # "unset"
    BY DEF Listed, Evaluations
  <2> QED
    BY <1>2, <2>1 DEF set_fired
<1>3. ASSUME NEW k \in Ticks, TickFails(k)
      PROVE  Onward
  BY <1>2, <1>3 DEF TickFails, enqueue
<1>4. ASSUME NEW k \in Ticks, NEW r \in Reminders, Fire(k, r)
      PROVE  Onward
  BY <1>2, <1>4 DEF Fire
<1>5. ASSUME UNCHANGED <<row, past>>
      PROVE  Onward
  BY <1>5
<1>6. ASSUME NEW k \in Ticks, StartTick(k)
      PROVE  UNCHANGED <<row, past>>
  BY <1>6 DEF StartTick
<1>8. ASSUME NEW k \in Ticks, NEW t \in Tenants, ListDue(k, t) \/ ListThrows(k, t)
      PROVE  UNCHANGED <<row, past>>
  BY <1>8 DEF ListDue, ListThrows
<1>9. ASSUME NEW k \in Ticks, NEW r \in Reminders, Notify(k, r)
      PROVE  UNCHANGED <<row, past>>
  BY <1>9 DEF Notify
<1>10. ASSUME NEW r \in Reminders, Raise(r)
       PROVE  UNCHANGED <<row, past>>
  BY <1>10 DEF Raise
<1>11. ASSUME NEW c \in Residents, Poll(c) \/ PollDone(c) \/ PollLost(c)
       PROVE  UNCHANGED <<row, past>>
  BY <1>11 DEF Poll, PollDone, PollLost
<1>12. Restart \/ UNCHANGED vars => UNCHANGED <<row, past>>
  BY DEF Restart, vars
<1> HIDE DEF Onward
<1> QED
  BY <1>1, <1>3, <1>4, <1>5, <1>6, <1>8, <1>9, <1>10, <1>11, <1>12
  DEF Next, TickStep

\* A step moves one evaluation at most, and keeps what it has in its locals.
LEMMA StepsListed ==
  ASSUME Sane, [Next]_vars, TypeOK', NEW k \in Ticks
  PROVE  Listed(k)'
<1> USE DEF Sane
<1>1. Onward
  BY StepsOnward
<1>2. CASE tick'[k] = tick[k]
  BY <1>1, <1>2, ListedStays
<1>3. CASE tick'[k] = Idle
  BY <1>3, RestListed DEF Listed, Idle, None
<1>4. ASSUME StartTick(k)
      PROVE  Listed(k)'
  <2>1. CASE known = <<>>
    BY <1>3, <1>4, <2>1 DEF StartTick, TypeOK
  <2>2. CASE known # <<>>
    <3>1. tick'[k].now = past /\ tick'[k].due = {} /\ tick'[k].firing = {}
      BY <1>4, <2>2 DEF StartTick, TypeOK, Idle, None
    <3> QED
      BY <1>1, <3>1 DEF Listed, Onward
  <2> QED
    BY <2>1, <2>2
<1>5. ASSUME NEW t \in Tenants, ListDue(k, t)
      PROVE  Listed(k)'
  <2> DEFINE e == [tick[k] EXCEPT !.tenants = Tail(tick[k].tenants),
                                  !.due = listed(k, t)]
  <2>1. tick'[k] = rest(e)
    BY <1>5 DEF ListDue, TypeOK
  <2>2. e.now = tick[k].now /\ e.due = listed(k, t) /\ e.firing = {}
    BY <1>5 DEF ListDue, AtNextTenant, BetweenReminders, TypeOK, Evaluations, None
  <2>3. CASE tick'[k] = e
    <3>1. tick'[k].now = tick[k].now /\ tick'[k].due = listed(k, t)
             /\ tick'[k].firing = {}
      BY <2>2, <2>3
    <3>2. UNCHANGED <<row, past>>
      BY <1>5 DEF ListDue
    <3> QED
      BY <3>1, <3>2 DEF Listed, listed
  <2> QED
    BY <1>3, <2>1, <2>3, RestListed
<1>6. ASSUME NEW r \in Reminders, Fire(k, r)
      PROVE  Listed(k)'
  <2>1. /\ tick'[k].now = tick[k].now
        /\ tick'[k].due = tick[k].due \ {r}
        /\ tick'[k].firing = {r}
    BY <1>6 DEF Fire, TypeOK, Evaluations
  <2>2. r \in past /\ row[r] # "unset" /\ UNCHANGED past
    BY <1>6 DEF Fire, Listed
  <2>3. row'[r] \in {"fired", "deleted"}
    BY <1>6, <2>2 DEF Fire, set_fired, TypeOK
  <2>4. \A q \in tick[k].due : row'[q] # "unset"
    BY <1>1 DEF Onward, Listed, TypeOK, Evaluations
  <2> QED
    BY <2>1, <2>2, <2>3, <2>4 DEF Listed
<1>7. ASSUME NEW r \in Reminders, Notify(k, r)
      PROVE  Listed(k)'
  <2> DEFINE e == [tick[k] EXCEPT !.firing = None]
  <2>1. tick'[k] = rest(e)
    BY <1>7 DEF Notify, TypeOK
  <2>2. e.now = tick[k].now /\ e.due = tick[k].due /\ e.firing = {}
    BY DEF TypeOK, Evaluations, None
  <2>3. CASE tick'[k] = e
    <3>1. UNCHANGED <<row, past>>
      BY <1>7 DEF Notify
    <3> QED
      BY <2>2, <2>3, <3>1 DEF Listed
  <2> QED
    BY <1>3, <2>1, <2>3, RestListed
<1>8. ASSUME NEW j \in Ticks \ {k}, TickStep(j)
      PROVE  tick'[k] = tick[k]
  BY <1>8 DEF TickStep, StartTick, ListDue, ListThrows, Fire, Notify, TickFails, TypeOK
<1>9. TickFails(k) \/ Restart \/ (\E t \in Tenants : ListThrows(k, t)) => tick'[k] = Idle
  BY DEF TickFails, Restart, ListThrows, TypeOK
<1>10. ASSUME NEW r \in Reminders,
              SetReminder(r) \/ DismissReminder(r) \/ TimePasses(r) \/ Raise(r)
       PROVE  tick'[k] = tick[k]
  BY <1>10 DEF SetReminder, DismissReminder, TimePasses, Raise
<1>11. ASSUME NEW c \in Residents, Poll(c) \/ PollDone(c) \/ PollLost(c)
       PROVE  tick'[k] = tick[k]
  BY <1>11 DEF Poll, PollDone, PollLost
<1>12. UNCHANGED vars => tick'[k] = tick[k]
  BY DEF vars
<1>13. TickStep(k) => Listed(k)'
  BY <1>3, <1>4, <1>5, <1>6, <1>7, <1>9 DEF TickStep
<1> QED
  BY <1>2, <1>3, <1>8, <1>9, <1>10, <1>11, <1>12, <1>13 DEF Next

\* A step either queues the one reminder an evaluation is notifying, or none.
LEMMA StepsQueue ==
  ASSUME TypeOK, [Next]_vars
  PROVE  \/ UNCHANGED sent
         \/ \E k \in Ticks : \E r \in tick[k].firing : enqueue(r) /\ UNCHANGED row
<1>1. ASSUME NEW k \in Ticks, TickStep(k)
      PROVE  \/ UNCHANGED sent
             \/ \E r \in tick[k].firing : enqueue(r) /\ UNCHANGED row
  BY <1>1 DEF TickStep, StartTick, ListDue, ListThrows, Fire, Notify, TickFails
<1>2. ASSUME NEW r \in Reminders,
             SetReminder(r) \/ DismissReminder(r) \/ TimePasses(r) \/ Raise(r)
      PROVE  UNCHANGED sent
  BY <1>2 DEF SetReminder, DismissReminder, TimePasses, Raise
<1>3. ASSUME NEW c \in Residents, Poll(c) \/ PollDone(c) \/ PollLost(c)
      PROVE  UNCHANGED sent
  BY <1>3 DEF Poll, PollDone, PollLost
<1>4. Restart \/ UNCHANGED vars => UNCHANGED sent
  BY DEF Restart, vars
<1> QED
  BY <1>1, <1>2, <1>3, <1>4 DEF Next

LEMMA StepsNotEarly ==
  ASSUME Sane, [Next]_vars
  PROVE  NotEarly'
<1> USE DEF Sane
<1>1. Onward
  BY StepsOnward
<1>2. CASE UNCHANGED sent
  BY <1>1, <1>2, NotEarlyStays
<1>3. ASSUME NEW k \in Ticks, NEW r \in tick[k].firing, enqueue(r), UNCHANGED row
      PROVE  NotEarly'
  <2>1. r \in past /\ row[r] \in {"fired", "deleted"}
    BY DEF Listed
  <2>2. \A q \in Reminders : q # r => sent'[q] = sent[q]
    BY <1>3 DEF enqueue, TypeOK
  <2> QED
    BY <1>1, <1>3, <2>1, <2>2 DEF NotEarly, Onward
<1> QED
  BY <1>2, <1>3, StepsQueue

LEMMA AlwaysSane == Spec => []Sane
<1>1. Init => NotEarly /\ \A k \in Ticks : Listed(k)
  BY RestListed DEF Init, NotEarly, Listed
<1>2. Sane /\ TypeOK' /\ [Next]_vars => NotEarly' /\ \A k \in Ticks : Listed(k)'
  BY StepsListed, StepsNotEarly
<1>3. Sane /\ TypeOK' /\ [Next]_vars => Sane'
  BY <1>2 DEF Sane
<1>4. Init /\ TypeOK => Sane
  BY <1>1 DEF Sane
<1> QED
  BY <1>3, <1>4, TypesKept, PTL DEF Spec

\* A reminder is queued only after its instant and after its row was fired or
\* dismissed, whatever fails, restarts or overlaps.
THEOREM NeverEarly == Spec => []NotEarly
BY AlwaysSane, PTL DEF Sane

\* Rows only move on.
THEOREM RowsNeverReturn == Spec => RowsMoveOn
<1>1. Sane /\ [Next]_vars =>
        [\A r \in Reminders : row[r]' # row[r] =>
           <<row[r], row[r]'>> \in {<<"unset", "upcoming">>, <<"upcoming", "fired">>,
                                    <<"upcoming", "deleted">>, <<"fired", "deleted">>}]_vars
  BY StepsOnward DEF Onward
<1> QED
  BY <1>1, AlwaysSane, PTL DEF Spec, RowsMoveOn

-----------------------------------------------------------------------------
(* From the queue to the phone. *)

\* What a step does to the deliveries of one reminder, wherever they are.
Queues(q) == /\ pending'[q] = pending[q] + 1 /\ sent'[q] = sent[q] + 1
             /\ answer'[q] = answer[q] /\ (q \in raised') = (q \in raised)
Moves(q) == /\ \/ pending'[q] = 0 /\ answer'[q] = pending[q]
               \/ pending'[q] = pending[q] /\ answer'[q] \in {0, answer[q]}
            /\ sent'[q] = sent[q] /\ (q \in raised') = (q \in raised)
Shows(q) == /\ answer[q] > 0 /\ answer'[q] = answer[q] - 1 /\ q \in raised'
            /\ pending'[q] = pending[q] /\ sent'[q] = sent[q]

LEMMA StepsDeliver ==
  ASSUME TypeOK, [Next]_vars, NEW q \in Reminders
  PROVE  Queues(q) \/ Moves(q) \/ Shows(q)
<1> USE DEF TypeOK, queueVars
<1>1. ASSUME UNCHANGED <<pending, answer, raised, sent>>
      PROVE  Moves(q)
  BY <1>1 DEF Moves
<1>2. ASSUME NEW r \in Reminders, enqueue(r), UNCHANGED <<answer, raised>>
      PROVE  Queues(q) \/ Moves(q)
  BY <1>2 DEF enqueue, Queues, Moves
<1>3. ASSUME NEW k \in Ticks, TickStep(k)
      PROVE  \/ UNCHANGED <<pending, answer, raised, sent>>
             \/ \E r \in Reminders : enqueue(r) /\ UNCHANGED <<answer, raised>>
  <2>1. tick[k].firing \subseteq Reminders
    BY Parts
  <2>2. TickFails(k) => \/ UNCHANGED <<pending, answer, raised, sent>>
                        \/ \E r \in Reminders : enqueue(r) /\ UNCHANGED <<answer, raised>>
    BY <2>1 DEF TickFails
  <2> QED
    BY <1>3, <2>2 DEF TickStep, StartTick, ListDue, ListThrows, Fire, Notify
<1>4. ASSUME NEW r \in Reminders, SetReminder(r) \/ DismissReminder(r) \/ TimePasses(r)
      PROVE  UNCHANGED <<pending, answer, raised, sent>>
  BY <1>4 DEF SetReminder, DismissReminder, TimePasses
<1>5. ASSUME NEW r \in Reminders, Raise(r)
      PROVE  Shows(q) \/ Moves(q)
  <2>1. CASE q = r
    BY <1>5, <2>1 DEF Raise, Shows
  <2>2. CASE q # r
    BY <1>5, <2>2 DEF Raise, Moves
  <2> QED
    BY <2>1, <2>2
<1>6. ASSUME NEW c \in Residents, Poll(c) \/ PollLost(c)
      PROVE  Moves(q)
  BY <1>6 DEF Poll, PollLost, Moves
<1>7. ASSUME NEW c \in Residents, PollDone(c)
      PROVE  UNCHANGED <<pending, answer, raised, sent>>
  BY <1>7 DEF PollDone
<1>8. Restart \/ UNCHANGED vars => UNCHANGED <<pending, answer, raised, sent>>
  BY DEF Restart, vars
<1> QED
  BY <1>1, <1>2, <1>3, <1>4, <1>5, <1>6, <1>7, <1>8 DEF Next

\* No delivery is duplicated between the queue and the phone: polls move or
\* lose deliveries, they never copy them.
THEOREM DeliveriesNotCopied == Spec => []NothingDuplicated
<1>1. Init => NothingDuplicated
  BY DEF Init, NothingDuplicated
<1>2. ASSUME TypeOK, TypeOK', NothingDuplicated, [Next]_vars
      PROVE  NothingDuplicated'
  <2> SUFFICES ASSUME NEW q \in Reminders
               PROVE  pending'[q] + answer'[q] + (IF q \in raised' THEN 1 ELSE 0)
                        <= sent'[q]
    BY DEF NothingDuplicated
  <2>1. /\ pending[q] \in Nat /\ answer[q] \in Nat /\ sent[q] \in Nat
        /\ pending'[q] \in Nat /\ answer'[q] \in Nat /\ sent'[q] \in Nat
        /\ pending[q] + answer[q] + (IF q \in raised THEN 1 ELSE 0) <= sent[q]
    BY <1>2 DEF TypeOK, NothingDuplicated
  <2>2. CASE Queues(q)
    BY <2>1, <2>2 DEF Queues
  <2>3. CASE Moves(q)
    BY <2>1, <2>3 DEF Moves
  <2>4. CASE Shows(q)
    BY <2>1, <2>4 DEF Shows
  <2> QED
    BY <1>2, <2>2, <2>3, <2>4, StepsDeliver
<1> QED
  BY <1>1, <1>2, TypesKept, PTL DEF Spec

-----------------------------------------------------------------------------
(* How often a reminder is queued.  An evaluation that has listed it and    *)
(* not yet queued it holds it; only upcoming rows are listed, and those     *)
(* were never queued, so what was queued and what may still be together     *)
(* never exceed the evaluations there can be.                               *)

holds(k, q) == q \in tick[k].due \cup tick[k].firing
holders(q) == {k \in Ticks : holds(k, q)}

Bounded == \A q \in Reminders : sent[q] + Cardinality(holders(q)) <= Cardinality(Ticks)

\* Which evaluations hold a reminder after a step of one of them.
LEMMA TickHolds ==
  ASSUME Sane, NEW j \in Ticks, TickStep(j), NEW q \in Reminders
  PROVE  \/ sent'[q] = sent[q] /\ (holds(j, q)' => holds(j, q))
         \/ sent'[q] = sent[q] /\ row[q] = "upcoming"
         \/ holds(j, q) /\ sent'[q] = sent[q] + 1 /\ ~holds(j, q)'
<1> USE DEF Sane, TypeOK, holds
<1>1. ASSUME StartTick(j)
      PROVE  sent'[q] = sent[q] /\ ~holds(j, q)'
  <2>1. tick'[j].due = {} /\ tick'[j].firing = {}
    BY <1>1 DEF StartTick, Idle, None
  <2> QED
    BY <1>1, <2>1 DEF StartTick
<1>2. ASSUME NEW t \in Tenants, ListDue(j, t)
      PROVE  sent'[q] = sent[q] /\ (holds(j, q)' => row[q] = "upcoming")
  <2> DEFINE e == [tick[j] EXCEPT !.tenants = Tail(tick[j].tenants),
                                  !.due = listed(j, t)]
  <2>1. tick'[j] = e \/ tick'[j] = Idle
    BY <1>2, RestListed DEF ListDue
  <2>2. e.due = listed(j, t) /\ e.firing = {}
    BY <1>2 DEF ListDue, AtNextTenant, BetweenReminders, Evaluations, None
  <2> HIDE DEF e
  <2>3. holds(j, q)' => q \in listed(j, t)
    BY <2>1, <2>2, RestListed
  <2> QED
    BY <1>2, <2>3 DEF ListDue, listed
<1>3. ASSUME NEW r \in Reminders, Fire(j, r)
      PROVE  sent'[q] = sent[q] /\ (holds(j, q)' => holds(j, q))
  <2>1. tick'[j].due = tick[j].due \ {r} /\ tick'[j].firing = {r}
    BY <1>3 DEF Fire, Evaluations
  <2> QED
    BY <1>3, <2>1 DEF Fire
<1>4. ASSUME NEW r \in Reminders, Notify(j, r)
      PROVE  \/ sent'[q] = sent[q] /\ (holds(j, q)' => holds(j, q))
             \/ holds(j, q) /\ sent'[q] = sent[q] + 1 /\ ~holds(j, q)'
  <2> DEFINE e == [tick[j] EXCEPT !.firing = None]
  <2>1. tick'[j] = e \/ tick'[j] = Idle
    BY <1>4, RestListed DEF Notify
  <2>2. e.due = tick[j].due /\ e.firing = {}
    BY DEF Evaluations, None
  <2> HIDE DEF e
  <2>3. holds(j, q)' => q \in tick[j].due
    BY <2>1, <2>2, RestListed
  <2>4. CASE q = r
    <3>1. q \in tick[j].firing /\ q \notin tick[j].due
      BY <1>4, <2>4 DEF Notify, Listed
    <3>2. sent'[q] = sent[q] + 1
      BY <1>4, <2>4 DEF Notify, enqueue
    <3> QED
      BY <2>3, <3>1, <3>2
  <2>5. CASE q # r
    BY <1>4, <2>3, <2>5 DEF Notify, enqueue
  <2> QED
    BY <2>4, <2>5
<1>5. ASSUME TickFails(j)
      PROVE  \/ sent'[q] = sent[q] /\ (holds(j, q)' => holds(j, q))
             \/ holds(j, q) /\ sent'[q] = sent[q] + 1 /\ ~holds(j, q)'
  <2>1. ~holds(j, q)'
    BY <1>5, RestListed DEF TickFails
  <2>2. UNCHANGED sent \/ \E r \in tick[j].firing : enqueue(r)
    BY <1>5 DEF TickFails
  <2>3. ASSUME NEW r \in tick[j].firing, enqueue(r)
        PROVE  sent'[q] = sent[q] \/ (q = r /\ sent'[q] = sent[q] + 1)
    BY <2>3 DEF enqueue
  <2> QED
    BY <2>1, <2>2, <2>3
<1>6. ASSUME NEW t \in Tenants, ListThrows(j, t)
      PROVE  sent'[q] = sent[q] /\ ~holds(j, q)'
  BY <1>6, RestListed DEF ListThrows
<1> HIDE DEF holds
<1> QED
  BY <1>1, <1>2, <1>3, <1>4, <1>5, <1>6 DEF TickStep

\* What a reminder was queued and may still be queued, before and after.
LEMMA NoRoomTaken ==
  ASSUME NEW n \in Nat, NEW s \in Nat, NEW s1 \in Nat, NEW h \in Nat, NEW h1 \in Nat,
         s + h <= n,
         \/ s1 = s /\ h1 <= h
         \/ s1 = s + 1 /\ h1 <= h - 1
  PROVE  s1 + h1 <= n
  OBVIOUS

LEMMA StepsBounded ==
  ASSUME Sane, TypeOK', Bounded, [Next]_vars
  PROVE  Bounded'
<1> SUFFICES ASSUME NEW q \in Reminders
             PROVE  sent'[q] + Cardinality(holders(q)') <= Cardinality(Ticks)
  BY DEF Bounded
<1> DEFINE H == holders(q)
           H1 == holders(q)'
           N == Cardinality(Ticks)
<1>1. IsFiniteSet(Ticks) /\ N \in Nat
  BY RemindersAssumption, FS_CardinalityType
<1>2. H \subseteq Ticks /\ H1 \subseteq Ticks
  BY DEF holders
<1>3. /\ IsFiniteSet(H) /\ Cardinality(H) \in Nat
      /\ IsFiniteSet(H1) /\ Cardinality(H1) \in Nat /\ Cardinality(H1) <= N
  BY <1>1, <1>2, FS_Subset, FS_CardinalityType
<1>4. sent[q] \in Nat /\ sent'[q] \in Nat /\ sent[q] + Cardinality(H) <= N
  BY DEF Sane, TypeOK, Bounded
<1>5. ASSUME sent'[q] = sent[q], H1 \subseteq H
      PROVE  sent'[q] + Cardinality(H1) <= N
  <2>1. Cardinality(H1) <= Cardinality(H)
    BY <1>3, <1>5, FS_Subset
  <2> HIDE DEF H, H1
  <2> QED
    BY <1>1, <1>3, <1>4, <1>5, <2>1, NoRoomTaken
<1>6. CASE sent'[q] = sent[q] /\ row[q] = "upcoming"
  <2>1. sent[q] = 0
    BY <1>4, <1>6 DEF Sane, NotEarly
  <2> QED
    BY <1>3, <1>6, <2>1
<1>7. ASSUME NEW k \in H, sent'[q] = sent[q] + 1, H1 \subseteq H \ {k}
      PROVE  sent'[q] + Cardinality(H1) <= N
  <2>1. Cardinality(H1) <= Cardinality(H) - 1
    <3>1. IsFiniteSet(H \ {k}) /\ Cardinality(H \ {k}) = Cardinality(H) - 1
      BY <1>3, FS_RemoveElement
    <3> QED
      BY <1>7, <3>1, FS_Subset
  <2> HIDE DEF H, H1
  <2> QED
    BY <1>1, <1>3, <1>4, <1>7, <2>1, NoRoomTaken
<1>8. ASSUME NEW j \in Ticks, TickStep(j)
      PROVE  sent'[q] + Cardinality(H1) <= N
  <2>1. \A k \in Ticks \ {j} : tick'[k] = tick[k]
    BY <1>8 DEF TickStep, StartTick, ListDue, ListThrows, Fire, Notify, TickFails, Sane, TypeOK
  <2>2. \A k \in Ticks \ {j} : k \in H1 <=> k \in H
    BY <2>1 DEF holders, holds
  <2>3. (j \in H <=> holds(j, q)) /\ (j \in H1 <=> holds(j, q)')
    BY DEF holders
  <2> QED
    BY <1>2, <1>5, <1>6, <1>7, <1>8, <2>2, <2>3, TickHolds
<1>9. ASSUME UNCHANGED sent, tick' = tick \/ \A k \in Ticks : tick'[k] = Idle
      PROVE  sent'[q] + Cardinality(H1) <= N
  <2>1. H1 \subseteq H
    BY <1>9, RestListed DEF holders, holds
  <2> QED
    BY <1>5, <1>9, <2>1
<1>10. ASSUME NEW r \in Reminders,
              SetReminder(r) \/ DismissReminder(r) \/ TimePasses(r) \/ Raise(r)
       PROVE  UNCHANGED <<sent, tick>>
  BY <1>10 DEF SetReminder, DismissReminder, TimePasses, Raise
<1>11. ASSUME NEW c \in Residents, Poll(c) \/ PollDone(c) \/ PollLost(c)
       PROVE  UNCHANGED <<sent, tick>>
  BY <1>11 DEF Poll, PollDone, PollLost
<1>12. Restart => UNCHANGED sent /\ \A k \in Ticks : tick'[k] = Idle
  BY DEF Restart
<1>13. UNCHANGED vars => UNCHANGED <<sent, tick>>
  BY DEF vars
<1> QED
  BY <1>8, <1>9, <1>10, <1>11, <1>12, <1>13 DEF Next

\* A reminder is queued at most as often as evaluations can overlap: once,
\* when the timer never starts one while another is under way.
THEOREM QueuedOncePerEvaluation == Spec => []OncePerEvaluation
<1>1. Init => Bounded
  <2> SUFFICES ASSUME Init, NEW q \in Reminders
               PROVE  sent[q] + Cardinality(holders(q)) <= Cardinality(Ticks)
    BY DEF Bounded
  <2>1. sent[q] = 0 /\ holders(q) = {}
    BY RestListed DEF Init, holders, holds
  <2>2. Cardinality(holders(q)) = 0 /\ Cardinality(Ticks) \in Nat
    BY <2>1, RemindersAssumption, FS_EmptySet, FS_CardinalityType
  <2> QED
    BY <2>1, <2>2
<1>2. Sane /\ TypeOK' /\ Bounded /\ [Next]_vars => Bounded'
  BY StepsBounded
<1>3. Sane /\ Bounded => OncePerEvaluation
  <2> SUFFICES ASSUME Sane, Bounded, NEW q \in Reminders
               PROVE  sent[q] <= Cardinality(Ticks)
    BY DEF OncePerEvaluation
  <2>1. holders(q) \subseteq Ticks
    BY DEF holders
  <2>2. Cardinality(holders(q)) \in Nat /\ Cardinality(Ticks) \in Nat
    BY <2>1, RemindersAssumption, FS_Subset, FS_CardinalityType
  <2>3. sent[q] \in Nat /\ sent[q] + Cardinality(holders(q)) <= Cardinality(Ticks)
    BY DEF Sane, TypeOK, Bounded
  <2> QED
    BY <2>2, <2>3
<1> QED
  BY <1>1, <1>2, <1>3, TypesKept, AlwaysSane, PTL DEF Spec
=============================================================================
