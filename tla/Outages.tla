------------------------------- MODULE Outages -------------------------------
(***************************************************************************)
(* ap-utility's outage checks: the scheduler's pass over every resident    *)
(* with an address, and the check a saved profile starts at once.  A check *)
(* reads the outage source, compares with what is stored, stores what      *)
(* changed, notifies the resident of it and prunes; every step awaits, and *)
(* checks overlap: setInterval does not wait for a pass, nor does a        *)
(* request.  What throws ends the whole pass, which the scheduler logs and *)
(* forgets.  The stores are those of postgres.ts.                          *)
(*                                                                         *)
(* Data abstraction: an address is the ZIP the source is asked for, or     *)
(* names none; a status is the number of times the source changed it; time *)
(* counts retention windows: a row of an earlier one is pruned.            *)
(***************************************************************************)
EXTENDS Naturals, FiniteSets

CONSTANTS Residents, NoOne, Areas, Ids,
          UndatedIds,         \* those that name neither a start nor a restoration time
          Passes, Requests,   \* the checks there may be at once, of either kind
          OptedIn,   \* residents registered with utility_alert_enabled
          MaxWindow, MaxChanges, MaxSaves, MaxFaults   \* bounds of the model

\* A street without five digits in a row, and none.
NoZip == "no_zip"
NoStreet == ""
Addresses == Areas \cup {NoZip, NoStreet}

Checks == Passes \cup Requests

Statuses == 1..MaxChanges
Outage == [id: Ids, status: Statuses]
Dated == {o \in Outage : o.id \notin UndatedIds}

ASSUME ResidentsAssumption == NoOne \notin Residents /\ OptedIn \subseteq Residents
ASSUME WindowAssumption == MaxWindow \in Nat

Idle == [phase |-> "idle", todo |-> {}, resident |-> NoOne, now |-> 0,
         fetched |-> {}, fresh |-> {}, left |-> {}]

VARIABLES
  today,
  source,     \* the outages the provider reports in each area
  address,    \* resident_profile.street
  stored,     \* utility_outage, by resident
  check,      \* the checks under way
  told,       \* history: what was queued for each resident
  lost,       \* history: what a failed check had stored and not told
  overlapped, \* history: residents whom two checks worked on at once
  changes, saves, faults

data == <<source, address, stored>>
history == <<told, lost, overlapped>>
budget == <<today, changes, saves, faults>>
vars == <<data, check, history, budget>>

Init ==
  /\ today = 0
  /\ source = [a \in Areas |-> {}]
  /\ address \in [Residents -> Areas]   \* from earlier saves
  /\ stored = [r \in Residents |-> {}]
  /\ check = [c \in Checks |-> Idle]
  /\ told = [r \in Residents |-> {}]
  /\ lost = [r \in Residents |-> {}]
  /\ overlapped = {}
  /\ changes = 0 /\ saves = 0 /\ faults = 0

-----------------------------------------------------------------------------
(* Around the checks. *)

\* The provider updates an outage, drops it or reports it (again).  An outage_id
\* names the thematic area it is reported for.
SourceChanges ==
  /\ changes < MaxChanges
  /\ changes' = changes + 1
  /\ \E a \in Areas, o \in Outage :
       /\ o.status = changes + 1
       /\ \A b \in Areas \ {a} : \A p \in source[b] : p.id # o.id
       /\ \E kept \in {{}, {o}} :
            source' = [source EXCEPT ![a] = {p \in @ : p.id # o.id} \cup kept]
       /\ source' # source
  /\ UNCHANGED <<address, stored, check, history, today, saves, faults>>

WindowPasses ==
  /\ today < MaxWindow
  /\ today' = today + 1
  /\ UNCHANGED <<data, check, history, changes, saves, faults>>

-----------------------------------------------------------------------------
(* The checks. *)

Works(c, r) == check[c].phase \notin {"idle", "next"} /\ check[c].resident = r

\* A check that has the residents and addresses of todo to do yet.
Over(todo, now) ==
  IF todo = {} THEN Idle ELSE [Idle EXCEPT !.phase = "next", !.todo = todo, !.now = now]

\* run_outage_fetch: list_resident_addresses, the rows with a street.
Tick(c) ==
  /\ check[c].phase = "idle"
  /\ LET listed == {r \in Residents : address[r] # NoStreet}
     IN  check' = [check EXCEPT ![c] = Over({<<r, address[r]>> : r \in listed}, today)]
  /\ UNCHANGED <<data, history, budget>>

\* The profile is stored first; a street then has its outages fetched.
save_profile(c) ==
  /\ check[c].phase = "idle"
  /\ saves < MaxSaves /\ saves' = saves + 1
  /\ \E r \in Residents, a \in Addresses :
       /\ address' = [address EXCEPT ![r] = a]
       /\ check' = [check EXCEPT ![c] =
            Over(IF a = NoStreet THEN {} ELSE {<<r, a>>}, today)]
  /\ UNCHANGED <<source, stored, history, today, changes, faults>>

Reported(a) == IF a \in Areas THEN source[a] ELSE {}

\* The next resident's fetch_outages, as the source answers it.  A refusal is
\* an empty list; a broken connection throws.
fetch_outages(c) ==
  /\ check[c].phase = "next"
  /\ \E t \in check[c].todo :
       LET asked == [check[c] EXCEPT !.todo = @ \ {t}, !.resident = t[1], !.phase = "read"]
       IN  /\ overlapped' = IF \E d \in Checks \ {c} : Works(d, t[1])
                            THEN overlapped \cup {t[1]} ELSE overlapped
           /\ \/ /\ check' = [check EXCEPT ![c] = [asked EXCEPT !.fetched = Reported(t[2])]]
                 /\ UNCHANGED faults
              \/ /\ faults < MaxFaults /\ faults' = faults + 1
                 /\ check' \in {[check EXCEPT ![c] = [asked EXCEPT !.fetched = {}]],
                                [check EXCEPT ![c] = Idle]}
  /\ UNCHANGED <<data, told, lost, today, changes, saves>>

\* Faulty variant for mutation: only the id is looked up.
Fresh_new_ids(fetched, known) ==
  {o \in fetched : ~\E k \in known : k.id = o.id}

\* Faulty variant for mutation: what is stored is not looked at.
Fresh_all(fetched, known) == fetched

\* Entries not already stored, or stored with a different status.
Fresh(fetched, known) ==
  {o \in fetched : ~\E k \in known : k.id = o.id /\ k.status = o.status}

read_outages(c) ==
  /\ check[c].phase = "read"
  /\ LET new == Fresh(check[c].fetched, stored[check[c].resident])
     IN  check' = [check EXCEPT ![c].fetched = {}, ![c].fresh = new, ![c].left = new,
                     ![c].phase = IF new = {} THEN "prune" ELSE "store"]
  /\ UNCHANGED <<data, history, budget>>

\* '' is no timestamp: the INSERT of an undated outage throws.
Storable(left) == left \cap Dated

\* One INSERT of store_outages.
store_outage(c) ==
  /\ check[c].phase = "store"
  /\ LET r == check[c].resident IN
     \E o \in Storable(check[c].left) :
       LET rest == check[c].left \ {o} IN
       /\ stored' = [stored EXCEPT ![r] = {k \in @ : k.id # o.id} \cup {o}]
       /\ check' = [check EXCEPT
            ![c].left = IF rest = {} THEN check[c].fresh ELSE rest,
            ![c].phase = IF rest = {} THEN "gate" ELSE "store"]
  /\ UNCHANGED <<source, address, history, budget>>

After(left) == IF left = {} THEN "prune" ELSE "gate"

\* Faulty variant for mutation: the flag is read the wrong way round.
Delivers_inverted(r) == r \notin OptedIn

\* The resident's registration decides.
Delivers(r) == r \in OptedIn

\* notifyRequest: get_registration ...
notify_gate(c) ==
  /\ check[c].phase = "gate"
  /\ IF Delivers(check[c].resident)
     THEN check' = [check EXCEPT ![c].phase = "enqueue"]
     ELSE \E o \in check[c].left :
            check' = [check EXCEPT ![c].left = @ \ {o},
                                   ![c].phase = After(check[c].left \ {o})]
  /\ UNCHANGED <<data, history, budget>>

\* ... and it is queued for the resident's device.
notify_enqueue(c) ==
  /\ check[c].phase = "enqueue"
  /\ \E o \in check[c].left :
       /\ told' = [told EXCEPT ![check[c].resident] = @ \cup {o}]
       /\ check' = [check EXCEPT ![c].left = @ \ {o},
                                 ![c].phase = After(check[c].left \ {o})]
  /\ UNCHANGED <<data, lost, overlapped, budget>>

\* All outages are reported in the first window.
Aged(day) == 0 < day

prune_outages(c) ==
  /\ check[c].phase = "prune"
  /\ stored' = [stored EXCEPT ![check[c].resident] =
                  {o \in @ : ~Aged(check[c].now)}]
  /\ check' = [check EXCEPT ![c] = Over(@.todo, @.now)]
  /\ UNCHANGED <<source, address, history, budget>>

\* Stored by the check and not told.
Untold(c) ==
  CASE check[c].phase = "store" -> check[c].fresh \ check[c].left
    [] check[c].phase \in {"gate", "enqueue"} -> check[c].left
    [] OTHER -> {}

\* A statement throws: on an undated outage always, else when the database
\* fails.  The rest of the pass goes with it.
Throw(c) ==
  /\ check[c].phase \in {"read", "store", "gate", "enqueue", "prune"}
  /\ \/ check[c].phase = "store" /\ Storable(check[c].left) # check[c].left
        /\ UNCHANGED faults
     \/ faults < MaxFaults /\ faults' = faults + 1
  /\ check' = [check EXCEPT ![c] = Idle]
  /\ lost' = [lost EXCEPT ![check[c].resident] = @ \cup Untold(c)]
  /\ UNCHANGED <<data, told, overlapped, today, changes, saves>>

\* The server goes down and comes up: no check survives it.
Restart ==
  /\ faults < MaxFaults /\ faults' = faults + 1
  /\ check' = [c \in Checks |-> Idle]
  /\ lost' = [r \in Residents |->
       lost[r] \cup UNION {Untold(c) : c \in {d \in Checks : Works(d, r)}}]
  /\ UNCHANGED <<data, told, overlapped, today, changes, saves>>

Step(c) ==
  \/ fetch_outages(c) \/ read_outages(c) \/ store_outage(c) \/ notify_gate(c)
  \/ notify_enqueue(c) \/ prune_outages(c) \/ Throw(c)

Next ==
  \/ SourceChanges \/ WindowPasses \/ Restart
  \/ \E c \in Passes : Tick(c)
  \/ \E c \in Requests : save_profile(c)
  \/ \E c \in Checks : Step(c)

\* The interval fires again and again, and what is awaited arrives.
Fairness ==
  /\ WF_vars(\E c \in Passes : Tick(c))
  /\ \A c \in Checks : WF_vars(Step(c))

Spec == Init /\ [][Next]_vars /\ Fairness

-----------------------------------------------------------------------------
TypeOK ==
  /\ source \in [Areas -> SUBSET Outage]
  /\ address \in [Residents -> Addresses]
  /\ stored \in [Residents -> SUBSET Dated]
  /\ check \in [Checks ->
       [phase: {"idle", "next", "read", "store", "gate", "enqueue", "prune"},
        todo: SUBSET (Residents \X (Areas \cup {NoZip})),
        resident: Residents \cup {NoOne}, now: 0..MaxWindow,
        fetched: SUBSET Outage, fresh: SUBSET Outage, left: SUBSET Outage]]

\* One current row per outage, however the checks of a resident interleave.
\* A resident with alerts on is told of every status that is stored, or a check
\* still has it to tell, or the check that stored it failed (service.ts:133-143
\* stores all, then notifies): nothing stored is silently taken as known.
StoredIsTold ==
  /\ TypeOK
  /\ \A r \in OptedIn : \A o \in stored[r] :
       \/ o \in told[r] \cup lost[r]
       \/ \E c \in Checks : Works(c, r) /\ o \in Untold(c)

\* "Notify only for newly stored outages" (service.ts:135): a resident is told
\* the same status twice only if two checks of theirs overlapped, or the outage
\* is older than the retention window and pruned by every check.
ToldOnce ==
  [][\A r \in Residents, o \in Outage, c \in Checks :
       (Works(c, r) /\ notify_enqueue(c) /\ o \in check[c].left \ check'[c].left) =>
         \/ o \notin told[r]
         \/ r \in overlapped
         \/ Aged(today)]_vars

\* The outages of a resident's area that can be stored and are not pruned.
Current(r) == {o \in Reported(address[r]) : ~Aged(today)}

\* Power Status is caught up with the source again and again once nothing
\* fails any more, unless some outage comes undated, which starves every
\* resident after it (run_outage_fetch, 150-161).
CatchesUp ==
  []<>(\/ \E a \in Areas : ~source[a] \subseteq Dated
       \/ \A r \in Residents : Current(r) \subseteq stored[r])
=============================================================================
