----------------------------- MODULE ReminderFeed -----------------------------
(***************************************************************************)
(* The reminders of the phone (useReminders.ts): a query over the rows of  *)
(* ap-reminders, entries dismissed and restored in its cache before the    *)
(* server has heard of it, the timer that fires them on the device, and    *)
(* the undo of the feed (feed.tsx).  A dismissal deletes the row, and its  *)
(* undo creates another.  The assistant's tool sets new ones.              *)
(*                                                                         *)
(* Requests are independent: the server may handle them in any order, and  *)
(* each may fail before or after it was handled.  The timer's clock is not *)
(* the wall clock: a timer may elapse a tick before its time.              *)
(*                                                                         *)
(* Data abstraction: of a reminder's content, the time it is for.  React   *)
(* renders, and the effect sets the timer anew, within the step that       *)
(* changes the cache.                                                      *)
(***************************************************************************)
EXTENDS Naturals, Sequences, SequencesExt, FiniteSetsExt

CONSTANTS Times,           \* when the reminders are for, one of each
          MaxDelay,        \* the longest delay a timer takes
          MaxRows,         \* bound: rows created
          MaxRereads       \* bound: reads of the list

ASSUME RemindersAssumption ==
  /\ IsFiniteSet(Times) /\ Times # {} /\ Times \subseteq Nat \ {0}
  /\ MaxDelay \in Nat \ {0} /\ MaxRows \in Nat /\ MaxRereads \in Nat

RowIds == 1..MaxRows
Rows == [id : RowIds, at : Times, status : {"upcoming", "fired"}]
Statuses == {"upcoming", "fired", "dismissed"}
NotStored == 0
Off == 0          \* no timer is set

VARIABLES
  clock,
  rows,             \* the resident's
  created,          \* how many were, ever
  reminders,        \* list_query.data
  prior_status,     \* of dismissed entries
  reminder_undo,    \* undo_batch.reminders while it is offered
  batch,            \* history: the times these are for
  saves,            \* requests to /reminders/set: the entry restored, its new row
  deletions,        \* ids of the requests to /reminders/dismiss
  reminder_read,    \* "none", "asked" or "answered"
  answer,           \* of the read
  rereads,
  timer,            \* when it elapses, or Off
  capped,           \* its delay was cut to MaxDelay
  asked_for,        \* history: "never", "kept" or "dismissed", of each time
  dropped,          \* history: times taken back when the list had lost the entry
  reminder_slips    \* history: "failed", "outdated"

server_vars == <<rows, created>>
undo_vars == <<prior_status, reminder_undo, batch>>
read_vars == <<reminder_read, answer, rereads>>
timer_vars == <<timer, capped>>
history_vars == <<asked_for, dropped, reminder_slips>>
reminder_vars == <<clock, server_vars, reminders, undo_vars, saves, deletions,
                   read_vars, timer_vars, history_vars>>

RemindersInit ==
  /\ clock = 0 /\ rows = {} /\ created = 0 /\ reminders = <<>>
  /\ prior_status = [id \in RowIds |-> "upcoming"] /\ reminder_undo = {} /\ batch = {}
  /\ saves = <<>> /\ deletions = {}
  /\ reminder_read = "none" /\ answer = {} /\ rereads = 0
  /\ timer = Off /\ capped = FALSE
  /\ asked_for = [t \in Times |-> "never"] /\ dropped = {} /\ reminder_slips = {}

-----------------------------------------------------------------------------
(* The timer *)

Deadlines(list) == {e.at : e \in {e \in ToSet(list) : e.status = "upcoming"}}

\* Faulty variant for mutation: a capped timer is taken for the deadline's.
Armed_once(list) ==
  IF Deadlines(list) = {} \/ capped THEN timer' = Off /\ capped' = FALSE
  ELSE LET delay == Min({MaxDelay, Max({0, Min(Deadlines(list)) - clock})})
       IN  timer' = clock + delay /\ capped' = (delay = MaxDelay)

\* The effect: one timer for the earliest deadline.
Armed(list) ==
  IF Deadlines(list) = {} THEN timer' = Off /\ capped' = FALSE
  ELSE LET delay == Min({MaxDelay, Max({0, Min(Deadlines(list)) - clock})})
       IN  timer' = clock + delay /\ capped' = (delay = MaxDelay)

\* set_reminders
Listed(list) == reminders' = list /\ Armed(list)

Due(e) == e.status = "upcoming" /\ e.at <= clock

\* Entries that are due are fired.  A tick early there may be none, and a capped
\* timer is not looked at: the effect runs again.
TimerElapses ==
  /\ timer # Off /\ timer - 1 <= clock
  /\ Listed([i \in DOMAIN reminders |->
       IF Due(reminders[i]) /\ ~capped THEN [reminders[i] EXCEPT !.status = "fired"]
       ELSE reminders[i]])
  /\ UNCHANGED <<clock, server_vars, undo_vars, saves, deletions, read_vars, history_vars>>

TimePasses ==
  /\ clock < Max(Times) /\ clock' = clock + 1
  /\ UNCHANGED <<server_vars, reminders, undo_vars, saves, deletions, read_vars, timer_vars, history_vars>>

-----------------------------------------------------------------------------
(* The server's rows, and the list read from them *)

Inserted(id, t) ==
  /\ created < MaxRows /\ created' = created + 1
  /\ rows' = rows \cup {[id |-> id, at |-> t, status |-> "upcoming"]}

\* The assistant's tool; each time is asked for once.
ToolSets(t) ==
  /\ t > clock /\ asked_for[t] = "never"
  /\ Inserted(created + 1, t) /\ asked_for' = [asked_for EXCEPT ![t] = "kept"]
  /\ UNCHANGED <<clock, reminders, undo_vars, saves, deletions, read_vars, timer_vars, dropped,
                 reminder_slips>>

\* run_reminder_evaluation of ap-reminders
ServerFires ==
  /\ \E r \in rows : /\ r.status = "upcoming" /\ r.at <= clock
                     /\ rows' = (rows \ {r}) \cup {[r EXCEPT !.status = "fired"]}
  /\ UNCHANGED <<clock, created, reminders, undo_vars, saves, deletions, read_vars, timer_vars, history_vars>>

\* After the tool, on the app's return and on reconnecting.
refresh ==
  /\ rereads < MaxRereads /\ rereads' = rereads + 1
  /\ reminder_read' = "asked" /\ answer' = {}
  /\ UNCHANGED <<clock, server_vars, reminders, undo_vars, saves, deletions, timer_vars, history_vars>>

ListAnswered ==
  /\ reminder_read = "asked" /\ reminder_read' = "answered" /\ answer' = rows
  /\ UNCHANGED <<clock, server_vars, reminders, undo_vars, saves, deletions, rereads, timer_vars, history_vars>>

\* The earliest first; rows of one time come in any order.
InOrder(list) == \A i, j \in DOMAIN list : i < j => list[i].at <= list[j].at

ListArrives ==
  /\ reminder_read = "answered" /\ reminder_read' = "none" /\ answer' = {}
  /\ \E list \in SetToSeqs(answer) : InOrder(list) /\ Listed(list)
  /\ UNCHANGED <<clock, server_vars, undo_vars, saves, deletions, rereads, history_vars>>

-----------------------------------------------------------------------------
(* Dismissing one, or all of a lane, and the undo offered for a while *)

\* The row to go is not the one that holds the reminder, or not the only one,
\* or the list still shows the reminder twice and both entries go.
Outdated(e, entries) ==
  \/ \E i \in DOMAIN saves : saves[i].at = e.at /\ saves[i].row = NotStored
  \/ \E r \in rows : r.at = e.at /\ r.id # e.id /\ r.id \notin deletions
  \/ \E f \in entries : f.at = e.at /\ f.id # e.id

Marked(times, mark) == [t \in Times |-> IF t \in times THEN mark ELSE asked_for[t]]

dismiss(entries) ==
  LET ids == {e.id : e \in entries}
  IN  /\ entries # {}
      /\ prior_status' = [id \in RowIds |->
           IF \E e \in entries : e.id = id
           THEN (CHOOSE e \in entries : e.id = id).status ELSE prior_status[id]]
      /\ Listed([i \in DOMAIN reminders |->
           IF reminders[i].id \in ids THEN [reminders[i] EXCEPT !.status = "dismissed"]
           ELSE reminders[i]])
      /\ deletions' = deletions \cup ids
      /\ reminder_undo' = ids /\ batch' = {e.at : e \in entries}
      /\ asked_for' = Marked({e.at : e \in entries}, "dismissed")
      /\ reminder_slips' = reminder_slips \cup {s \in {"outdated"} : \E e \in entries : Outdated(e, entries)}
      /\ UNCHANGED <<clock, server_vars, saves, read_vars, dropped>>

Lane(status) == {e \in ToSet(reminders) : e.status = status}

DismissReminder == \E e \in Lane("upcoming") \cup Lane("fired") : dismiss({e})

ClearReminders == \E status \in {"upcoming", "fired"} : dismiss(Lane(status))

\* restore(), of each of the batch: of what the list has lost meanwhile there is
\* nothing to create anew.
UndoReminders ==
  LET found == {e \in ToSet(reminders) : e.id \in reminder_undo}
      back == {e.at : e \in found}
  IN  /\ reminder_undo # {} /\ reminder_undo' = {} /\ batch' = {}
      /\ created + Len(SelectSeq(saves, LAMBDA s : s.row = NotStored)) + Cardinality(found) <= MaxRows
      /\ prior_status' = [id \in RowIds |->
           IF id \in reminder_undo THEN "upcoming" ELSE prior_status[id]]
      /\ Listed([i \in DOMAIN reminders |->
           IF reminders[i].id \in reminder_undo
           THEN [reminders[i] EXCEPT !.status = prior_status[reminders[i].id]]
           ELSE reminders[i]])
      /\ saves' = saves \o SetToSeq({[target |-> e.id, at |-> e.at, row |-> NotStored] : e \in found})
      /\ asked_for' = Marked(batch, "kept") /\ dropped' = (dropped \cup batch) \ back
      /\ UNCHANGED <<clock, server_vars, deletions, read_vars, reminder_slips>>

\* Its five seconds are over, or something else was dismissed.
UndoRemindersExpires ==
  /\ reminder_undo # {} /\ reminder_undo' = {} /\ batch' = {}
  /\ UNCHANGED <<clock, server_vars, reminders, prior_status, saves, deletions, read_vars, timer_vars, history_vars>>

-----------------------------------------------------------------------------
(* The requests behind them *)

\* Faulty variant for mutation: a restored reminder gets its old id back.
RowOf_old(save) == save.target

RowOf(save) == created + 1

SaveStored(i) ==
  /\ saves[i].row = NotStored
  /\ Inserted(RowOf(saves[i]), saves[i].at)
  /\ saves' = [saves EXCEPT ![i].row = RowOf(saves[i])]
  /\ UNCHANGED <<clock, reminders, undo_vars, deletions, read_vars, timer_vars, history_vars>>

\* The entry becomes the row that was saved, which is an upcoming one.
SaveAnswered(i) ==
  /\ saves[i].row # NotStored
  /\ saves' = RemoveAt(saves, i)
  /\ Listed([j \in DOMAIN reminders |->
       IF reminders[j].id = saves[i].target
       THEN [id |-> saves[i].row, at |-> saves[i].at, status |-> "upcoming"]
       ELSE reminders[j]])
  /\ UNCHANGED <<clock, server_vars, undo_vars, deletions, read_vars, history_vars>>

\* The local entry is kept.
SaveFails(i) ==
  /\ saves' = RemoveAt(saves, i)
  /\ "failed" \notin reminder_slips /\ reminder_slips' = reminder_slips \cup {"failed"}
  /\ UNCHANGED <<clock, server_vars, reminders, undo_vars, deletions, read_vars, timer_vars, asked_for,
                 dropped>>

DeletionHandled(id) ==
  /\ deletions' = deletions \ {id} /\ rows' = {r \in rows : r.id # id}
  /\ UNCHANGED <<clock, created, reminders, undo_vars, saves, read_vars, timer_vars, history_vars>>

DeletionFails(id) ==
  /\ deletions' = deletions \ {id}
  /\ "failed" \notin reminder_slips /\ reminder_slips' = reminder_slips \cup {"failed"}
  /\ UNCHANGED <<clock, server_vars, reminders, undo_vars, saves, read_vars, timer_vars, asked_for,
                 dropped>>

-----------------------------------------------------------------------------
RemindersNext ==
  \/ TimerElapses \/ TimePasses
  \/ (\E t \in Times : ToolSets(t)) \/ ServerFires
  \/ refresh \/ ListAnswered \/ ListArrives
  \/ DismissReminder \/ ClearReminders \/ UndoReminders \/ UndoRemindersExpires
  \/ \E i \in DOMAIN saves : SaveStored(i) \/ SaveAnswered(i) \/ SaveFails(i)
  \/ \E id \in deletions : DeletionHandled(id) \/ DeletionFails(id)

\* Timers elapse.
RemindersFairness == WF_reminder_vars(TimerElapses)

-----------------------------------------------------------------------------
RemindersTypeOK ==
  /\ clock \in 0..Max(Times) /\ rows \subseteq Rows /\ created \in 0..MaxRows
  /\ reminders \in Seq([id : RowIds, at : Times, status : Statuses])
  /\ prior_status \in [RowIds -> Statuses] /\ reminder_undo \subseteq RowIds
  /\ saves \in Seq([target : RowIds, at : Times, row : 0..MaxRows])
  /\ deletions \subseteq RowIds /\ answer \subseteq Rows
  /\ timer \in Nat /\ asked_for \in [Times -> {"never", "kept", "dismissed"}]
  /\ batch \cup dropped \subseteq {t \in Times : asked_for[t] # "never"}
  /\ reminder_slips \subseteq {"failed", "outdated"}

AllAnswered == saves = <<>> /\ deletions = {} /\ reminder_slips = {}

RowsOf(t) == {r \in rows : r.at = t}

\* "re-create the reminder so the undo persists" (useReminders.ts:230): once the
\* requests are through, each reminder the resident has not dismissed, or took
\* back, has one row, and a dismissed one has none, in whichever order deletions
\* and re-creations reached the server and whatever stale lists came in between;
\* unless a request failed, or a dismissal was of an entry the list was behind
\* with, or of one of two entries that showed the reminder.  And one taken back
\* when a refetch had already dropped the entry is lost (useReminders.ts:234-237):
\* it has none.
UndoPersists ==
  /\ RemindersTypeOK
  /\ AllAnswered => \A t \in Times :
       Cardinality(RowsOf(t)) = IF asked_for[t] = "kept" /\ t \notin dropped THEN 1 ELSE 0

\* "Sleep until then, the way an OS timer does" (useReminders.ts:114-115): an entry that comes due
\* on the phone is fired, or is dismissed or replaced, however far off it was when
\* the timer was set, however early the timer elapses, and whatever changes the list.
DueIsFired ==
  \A t \in Times :
    (\E i \in DOMAIN reminders : reminders[i].at = t /\ Due(reminders[i])) ~>
      (\A i \in DOMAIN reminders : reminders[i].at = t => ~Due(reminders[i]))

-----------------------------------------------------------------------------
(* Statements of the code that the model refutes. *)

\* useReminders.ts:230, without the last exception: refuted by a refetch between the
\* dismissal and its undo, which the feed still offers.
TakenBackIsBack ==
  AllAnswered => \A t \in Times : asked_for[t] = "kept" => RowsOf(t) # {}

\* "restore() returns it to its prior status rather than guessing"
\* (useReminders.ts:99-100): a reminder that had gone off is not set to go off again.
RestoreKeepsStatus ==
  [][\A i \in DOMAIN saves, j \in DOMAIN reminders :
       (SaveAnswered(i) /\ reminders[j].id = saves[i].target /\ reminders[j].status = "fired")
         => reminders'[j].status = "fired"]_reminder_vars
=============================================================================
