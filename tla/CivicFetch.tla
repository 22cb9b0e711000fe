------------------------------ MODULE CivicFetch ------------------------------
(***************************************************************************)
(* ap-civic's scheduled fetches of city alerts and city events: a pass     *)
(* reads the source page by page, stores what is new entry by entry,       *)
(* prunes, and for alerts has ap-notifications queue each new entry for    *)
(* every registered resident who opted in.  Every step awaits; setInterval *)
(* does not wait for a pass to end, so that passes overlap.                *)
(*                                                                         *)
(* Alerts come from two sources, each caught on its own: AHAS is page 1 of *)
(* theirs and NWS page 2.  Events come from the pages of one listing, and  *)
(* any page that fails ends the pass.                                      *)
(*                                                                         *)
(* Data abstraction: an entry is its entry_id; of its fetched_at, whether  *)
(* it is older than the retention period.                                  *)
(***************************************************************************)
EXTENDS Naturals, FiniteSets

CONSTANTS Entries, NoEntry, Passes,
          OptedIn,       \* the registrations with city_alert_enabled
          LastPage,
          MaxEvents      \* bound on the changes, the agings and the faults, together

ASSUME EntriesAssumption ==
  NoEntry \notin Entries /\ LastPage \in Nat \ {0} /\ MaxEvents \in Nat

Pages == 1..LastPage

VARIABLES
  source,      \* what run_scheduled_fetch is called for
  listed,      \* the page each entry is on; 0: on none
  down,        \* pages that cannot be read
  entries,     \* civic_entry: what is stored
  old,         \* those past retention
  pass,        \* the passes under way
  told,        \* history: whom ap-notifications has queued which entry for
  lost,        \* history: entries some pass stored and could not tell
  overlapped,  \* history: entries two passes had to tell at once
  events

city == <<listed, down>>
store == <<entries, old>>
outcome == <<told, lost, overlapped>>
fetch_vars == <<source, city, store, pass, outcome, events>>

Idle == [at |-> "idle", page |-> 0, last |-> 0, found |-> {},
         insert |-> {}, tell |-> {}, now |-> NoEntry, to |-> {}]

FetchEmpty ==
  /\ entries = {} /\ old = {}
  /\ pass = [p \in Passes |-> Idle]
  /\ told = {} /\ lost = {} /\ overlapped = {}
  /\ events = 0
  /\ listed = [e \in Entries |-> 0] /\ down = {}

FetchInit ==
  /\ source \in {"city_alerts", "city_events"}
  /\ listed \in [Entries -> 0..LastPage]
  /\ down \in SUBSET (IF source = "city_alerts" THEN Pages ELSE {})
  /\ entries = {} /\ old = {}
  /\ pass = [p \in Passes |-> Idle]
  /\ told = {} /\ lost = {} /\ overlapped = {}
  /\ events = 0

-----------------------------------------------------------------------------
(* Around the passes. *)

Happens == events < MaxEvents /\ events' = events + 1

\* An alert stays with its source; an event moves between pages.
ListingChanges ==
  /\ Happens
  /\ \E e \in Entries, page \in 0..LastPage :
       /\ page # listed[e]
       /\ source = "city_alerts" => 0 \in {page, listed[e]}
       /\ listed' = [listed EXCEPT ![e] = page]
  /\ UNCHANGED <<source, down, store, pass, outcome>>

\* Days, where a pass takes seconds.
RetentionPasses ==
  /\ \A p \in Passes : pass[p].at = "idle"
  /\ Happens
  /\ old' = entries /\ old' # old
  /\ UNCHANGED <<source, city, entries, pass, outcome>>

\* What throws ends the pass; what it had stored and not told stays so.
Throw(p) ==
  /\ pass' = [pass EXCEPT ![p] = Idle]
  /\ lost' = IF source = "city_alerts"
             THEN lost \cup (pass[p].tell \ pass[p].insert) ELSE lost

-----------------------------------------------------------------------------
(* A pass. *)

Tick(p) ==
  /\ pass[p].at = "idle" /\ source # "collection_schedule"
  /\ pass' = [pass EXCEPT ![p] = [Idle EXCEPT !.at = "page", !.page = 1, !.last = LastPage]]
  /\ UNCHANGED <<source, city, store, outcome, events>>

OnPage(page) == {e \in Entries : listed[e] = page}

\* Faulty variant for mutation: the sources share one try.
Caught_none(page) == FALSE

\* fetch_city_alerts catches each source's failure.
Caught(page) == source = "city_alerts"

\* The last page of events with anything on it.
PageCount ==
  CHOOSE n \in Pages : /\ n = 1 \/ OnPage(n) # {}
                       /\ \A m \in Pages : OnPage(m) # {} => m <= n

\* The page count is on the first page of events, and 1 where it is not to be
\* found; alerts always have both.
LastOf(p, blank) ==
  CASE source = "city_alerts" \/ pass[p].page > 1 -> pass[p].last
    [] blank -> 1
    [] OTHER -> PageCount

Turned(p, found, last) ==
  [pass[p] EXCEPT !.found = @ \cup found, !.last = last, !.page = @ + 1,
                  !.at = IF pass[p].page < last THEN "page" ELSE "known"]

\* gis_reader does not look at the status: a page that reports an error is one
\* without entries.
ReadPage(p) ==
  /\ pass[p].at = "page"
  /\ \/ /\ pass[p].page \notin down
        /\ \E blank \in BOOLEAN :
             /\ IF blank THEN Happens ELSE UNCHANGED events
             /\ LET found == IF blank THEN {} ELSE OnPage(pass[p].page)
                IN  pass' = [pass EXCEPT ![p] = Turned(p, found, LastOf(p, blank))]
        /\ UNCHANGED lost
     \/ /\ IF pass[p].page \in down THEN UNCHANGED events ELSE Happens
        /\ IF Caught(pass[p].page)
           THEN pass' = [pass EXCEPT ![p] = Turned(p, {}, pass[p].last)] /\ UNCHANGED lost
           ELSE Throw(p)
  /\ UNCHANGED <<source, city, store, told, overlapped>>

\* Faulty variant for mutation: what was fetched is compared with nothing.
Fresh_all(found) == found

\* Only what is not stored yet.
Fresh(found) == found \ entries

existing_entry_ids(p) ==
  /\ pass[p].at = "known"
  /\ LET fresh == Fresh(pass[p].found)
         tell == IF source = "city_alerts" THEN fresh ELSE {}
     IN  /\ pass' = [pass EXCEPT ![p] =
              [@ EXCEPT !.at = "insert", !.found = {}, !.insert = fresh, !.tell = tell]]
         /\ overlapped' =
              overlapped \cup {e \in tell : \E q \in Passes \ {p} : e \in pass[q].tell}
  /\ UNCHANGED <<source, city, store, told, lost, events>>

\* Row by row; one that is there already is left as it is.
insert_civic(p) ==
  /\ pass[p].at = "insert" /\ pass[p].insert # {}
  /\ \E e \in pass[p].insert :
       /\ pass' = [pass EXCEPT ![p].insert = @ \ {e}]
       /\ entries' = entries \cup {e}
  /\ UNCHANGED <<source, city, old, outcome, events>>

\* What is told of an entry counts until it is pruned.
prune_older_than(p) ==
  /\ pass[p].at = "insert" /\ pass[p].insert = {}
  /\ pass' = [pass EXCEPT ![p] = IF pass[p].tell = {} THEN Idle ELSE [@ EXCEPT !.at = "tell"]]
  /\ entries' = entries \ old /\ old' = {}
  /\ told' = {t \in told : t[2] \notin old}
  /\ lost' = lost \ old
  /\ UNCHANGED <<source, city, overlapped, events>>

\* notifyCity: the registrations are read anew for each entry.
list_registrations(p) ==
  /\ pass[p].at = "tell" /\ pass[p].now = NoEntry
  /\ \E e \in pass[p].tell :
       pass' = [pass EXCEPT ![p].now = e, ![p].to = OptedIn]
  /\ UNCHANGED <<source, city, store, outcome, events>>

\* Faulty variant for mutation: the loop leaves at the first resident.
Told_one(to, r) == {}

\* The residents left to tell.
Told(to, r) == to \ {r}

\* The pass that has told r: on to the next entry when everyone is told.
AfterTelling(p, r) ==
  LET left == Told(pass[p].to, r)
      tell == IF left = {} THEN pass[p].tell \ {pass[p].now} ELSE pass[p].tell
  IN  IF tell = {} THEN Idle
      ELSE [pass[p] EXCEPT !.to = left, !.tell = tell,
                           !.now = IF left = {} THEN NoEntry ELSE @]

enqueue(p) ==
  /\ pass[p].now # NoEntry
  /\ \E r \in pass[p].to :
       /\ told' = told \cup {<<r, pass[p].now>>}
       /\ pass' = [pass EXCEPT ![p] = AfterTelling(p, r)]
  /\ UNCHANGED <<source, city, store, lost, overlapped, events>>

\* A statement fails, in any step that awaits the store.
PassFails(p) ==
  /\ pass[p].at \in {"known", "insert", "tell"} /\ Happens
  /\ Throw(p)
  /\ UNCHANGED <<source, city, store, told, overlapped>>

\* The server goes down; all its passes with it.
Restart ==
  /\ Happens
  /\ pass' = [p \in Passes |-> Idle]
  /\ lost' = lost \cup UNION {pass[p].tell \ pass[p].insert : p \in Passes}
  /\ UNCHANGED <<source, city, store, told, overlapped>>

PassStep(p) ==
  \/ Tick(p) \/ ReadPage(p) \/ existing_entry_ids(p) \/ insert_civic(p)
  \/ prune_older_than(p) \/ list_registrations(p) \/ enqueue(p)

FetchNext ==
  \/ ListingChanges \/ RetentionPasses \/ Restart
  \/ \E p \in Passes : PassStep(p) \/ PassFails(p)

\* The timer ticks on and requests are answered or fail.
FetchFairness == \A p \in Passes : WF_fetch_vars(PassStep(p))

-----------------------------------------------------------------------------
PassType ==
  [at: {"idle", "page", "known", "insert", "tell"}, page: 0..LastPage + 1, last: 0..LastPage,
   found: SUBSET Entries, insert: SUBSET Entries, tell: SUBSET Entries,
   now: Entries \cup {NoEntry}, to: SUBSET OptedIn]

FetchTypeOK ==
  /\ source \in {"city_alerts", "city_events", "collection_schedule"}
  /\ listed \in [Entries -> 0..LastPage] /\ down \in SUBSET Pages
  /\ {entries, lost, overlapped} \subseteq SUBSET Entries /\ old \subseteq entries
  /\ pass \in [Passes -> PassType]
  /\ told \subseteq OptedIn \X Entries

\* An emergency alert that is stored is told to every resident who opted in,
\* now or by a pass that is still at it: once stored no later pass takes it up
\* (service.ts:308), so that only a pass cut short may keep it from them.
StoredIsTold ==
  source = "city_alerts" =>
    \A e \in entries \ lost : \A r \in OptedIn :
      <<r, e>> \in told \/ \E p \in Passes : e \in pass[p].tell

\* As long as it is stored an alert is queued once for each resident, unless two
\* passes found it new at the same time.
ToldOnce ==
  [][\A r \in OptedIn, e \in Entries :
       (\E p \in Passes : pass[p].now = e /\ r \in pass[p].to /\ enqueue(p)
                          /\ r \notin pass'[p].to)
         => <<r, e>> \notin told \/ e \in overlapped]_fetch_vars

\* "Each source fails independently so one being down never drops the other's
\* alerts" (service.ts:290): whatever stays listed where it can be read is
\* stored again and again, alerts and events alike.
ListedGetsStored ==
  \A e \in Entries : []<>(listed[e] \in Pages \ down => e \in entries)
=============================================================================
