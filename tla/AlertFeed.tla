------------------------------- MODULE AlertFeed -------------------------------
(***************************************************************************)
(* The alerts of the feed: which ones the phone shows (Portal.tsx), the    *)
(* query and the two mutations behind it (useCivic.ts), the undo of the    *)
(* last dismissal (feed.tsx), and the dismissals ap-civic keeps for the    *)
(* resident and leaves out of what it lists (service.ts).                  *)
(*                                                                         *)
(* Requests are independent: the server may handle them in another order   *)
(* than they were made, and each may fail before or after it was handled.  *)
(*                                                                         *)
(* Data abstraction: an alert is its feed id, its entry id and its row at  *)
(* once; the city's alerts stay as they are.                               *)
(***************************************************************************)
EXTENDS Naturals, Sequences, FiniteSets, SequencesExt

CONSTANTS Alerts,         \* the city's alerts
          Critical,       \* those that are only dismissed one by one, as read
          MaxDismissals   \* bound: dismissals and restores made

ASSUME AlertsAssumption ==
  IsFiniteSet(Alerts) /\ Critical \subseteq Alerts /\ MaxDismissals \in Nat

NoRead == [state |-> "none", data |-> {}]
Waiting == [state |-> "asked", data |-> {}]
Answer(data) == [state |-> "answered", data |-> data]

VARIABLES
  dismissals,        \* the resident's rows in civic_alert_dismissal
  alert_data,        \* alerts_query.data
  alert_read,        \* NoRead, Waiting or the answer on its way
  dismissed_alerts,  \* hidden by the portal
  alert_undo,        \* undo_batch.alerts while it is offered
  mutations,         \* requests, in the order they were made
  made,              \* how many there were (bound)
  alert_slips        \* history: "reordered", "restore_failed", "read_failed"

alert_vars == <<dismissals, alert_data, alert_read, dismissed_alerts, alert_undo,
                mutations, made, alert_slips>>

Mutations == [entry: Alerts, action: {"dismiss", "restore"}, handled: BOOLEAN]

AlertsInit ==
  /\ dismissals \in SUBSET Alerts
  /\ alert_data = {} /\ alert_read = Waiting
  /\ dismissed_alerts = {} /\ alert_undo = {}
  /\ mutations = <<>> /\ made = 0 /\ alert_slips = {}

-----------------------------------------------------------------------------
(* The query *)

\* read("alerts") of ap-civic
list_alerts == Alerts \ dismissals

AlertsRead ==
  /\ alert_read = Waiting /\ alert_read' = Answer(list_alerts)
  /\ UNCHANGED <<dismissals, alert_data, dismissed_alerts, alert_undo, mutations, made, alert_slips>>

AlertsArrive ==
  /\ alert_read.state = "answered"
  /\ alert_data' = alert_read.data /\ alert_read' = NoRead
  /\ alert_slips' = alert_slips \ {"read_failed"}
  /\ UNCHANGED <<dismissals, dismissed_alerts, alert_undo, mutations, made>>

\* After the query's retries; the list stays as it was.
AlertsReadFails ==
  /\ alert_read # NoRead /\ alert_read' = NoRead
  /\ alert_slips' = alert_slips \cup {"read_failed"}
  /\ UNCHANGED <<dismissals, alert_data, dismissed_alerts, alert_undo, mutations, made>>

-----------------------------------------------------------------------------
(* Dismissing one, all at once, and the undo that is offered for a while *)

Shown == alert_data \ dismissed_alerts

\* "Clear all never touches critical items."
Dismissible == Shown \ Critical

Requested(entries, action) ==
  mutations \o SetToSeq({[entry |-> a, action |-> action, handled |-> FALSE] : a \in entries})

Counted(entries) ==
  /\ made + Len(SetToSeq(entries)) <= MaxDismissals
  /\ made' = made + Len(SetToSeq(entries))

on_dismiss_alerts(entries) ==
  /\ entries # {} /\ Counted(entries)
  /\ dismissed_alerts' = dismissed_alerts \cup entries
  /\ mutations' = Requested(entries, "dismiss")
  /\ alert_undo' = entries
  /\ UNCHANGED <<dismissals, alert_data, alert_read, alert_slips>>

\* Of a critical one, "I've read this".
DismissAlert == \E a \in Shown : on_dismiss_alerts({a})

ClearAll == on_dismiss_alerts(Dismissible)

UndoAlerts ==
  /\ alert_undo # {} /\ Counted(alert_undo)
  /\ dismissed_alerts' = dismissed_alerts \ alert_undo
  /\ mutations' = Requested(alert_undo, "restore")
  /\ alert_undo' = {}
  /\ UNCHANGED <<dismissals, alert_data, alert_read, alert_slips>>

\* Its five seconds are over, or something else was dismissed.
UndoAlertsExpires ==
  /\ alert_undo # {} /\ alert_undo' = {}
  /\ UNCHANGED <<dismissals, alert_data, alert_read, dismissed_alerts, mutations, made, alert_slips>>

-----------------------------------------------------------------------------
(* The mutations *)

\* ap-civic's dismiss
Handled(m) ==
  IF m.action = "dismiss" THEN dismissals \cup {m.entry} ELSE dismissals \ {m.entry}

MutationHandled(i) ==
  LET m == mutations[i]
      overtakes == \E j \in 1..i - 1 : mutations[j].entry = m.entry /\ ~mutations[j].handled
  IN  /\ ~m.handled
      /\ mutations' = [mutations EXCEPT ![i].handled = TRUE]
      /\ dismissals' = Handled(m)
      /\ alert_slips' = IF overtakes THEN alert_slips \cup {"reordered"} ELSE alert_slips
      /\ UNCHANGED <<alert_data, alert_read, dismissed_alerts, alert_undo, made>>

MutationAnswered(i) ==
  /\ mutations[i].handled
  /\ mutations' = RemoveAt(mutations, i)
  /\ alert_read' = Waiting
  /\ UNCHANGED <<dismissals, alert_data, dismissed_alerts, alert_undo, made, alert_slips>>

\* Faulty variant for mutation: a dismissal that failed stays hidden.
RolledBack_not(m) == dismissed_alerts

\* The catch handlers of the portal.
RolledBack(m) ==
  IF m.action = "dismiss" THEN dismissed_alerts \ {m.entry} ELSE dismissed_alerts \cup {m.entry}

\* Not handled, or its answer was lost.  The list is read again as well.
MutationFails(i) ==
  /\ mutations' = RemoveAt(mutations, i)
  /\ dismissed_alerts' = RolledBack(mutations[i])
  /\ alert_read' = Waiting
  /\ alert_slips' = IF mutations[i].action = "restore"
                    THEN alert_slips \cup {"restore_failed"} ELSE alert_slips
  /\ UNCHANGED <<dismissals, alert_data, alert_undo, made>>

-----------------------------------------------------------------------------
AlertsNext ==
  \/ AlertsRead \/ AlertsArrive \/ AlertsReadFails
  \/ DismissAlert \/ ClearAll \/ UndoAlerts \/ UndoAlertsExpires
  \/ \E i \in DOMAIN mutations :
       MutationHandled(i) \/ MutationAnswered(i) \/ MutationFails(i)

-----------------------------------------------------------------------------
AlertsTypeOK ==
  /\ dismissals \subseteq Alerts /\ alert_data \subseteq Alerts
  /\ alert_read \in {NoRead, Waiting} \cup {Answer(d) : d \in SUBSET Alerts}
  /\ dismissed_alerts \subseteq Alerts /\ alert_undo \subseteq Alerts
  /\ mutations \in Seq(Mutations) /\ made \in 0..MaxDismissals
  /\ alert_slips \subseteq {"reordered", "restore_failed", "read_failed"}

AlertsAtRest == mutations = <<>> /\ alert_read = NoRead

\* "On a backend failure, roll the id back into view so the list reflects what
\* the server actually stored" (Portal.tsx:292-293): once nothing is under way, the feed and its badge
\* show what ap-civic lists, critical alerts included, whichever dismissals failed,
\* before or after they were stored, one by one or some of a batch, with undos in
\* between; unless a restore failed, the server took requests in another order, or
\* the last read failed.
FeedAgrees ==
  /\ AlertsTypeOK
  /\ AlertsAtRest /\ alert_slips = {} => Shown = Alerts \ dismissals

-----------------------------------------------------------------------------
(* A statement of the code that the model refutes. *)

\* The same, for a failed restore as well: the roll-back of an undo hides an alert
\* whose dismissal had failed too, until the app is started again.
FailuresAreRolledBack ==
  AlertsAtRest /\ alert_slips \subseteq {"restore_failed"} => Shown = Alerts \ dismissals
=============================================================================
