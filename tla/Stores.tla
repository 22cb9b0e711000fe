-------------------------------- MODULE Stores --------------------------------
(***************************************************************************)
(* The store ports of the services and their two adapters side by side:    *)
(* the tables of postgres.ts, and the maps of memory.ts which stand in for *)
(* them when no database is configured.  Both are given the same calls;    *)
(* what they hold afterwards is compared, since their queries filter it    *)
(* alike.                                                                  *)
(*                                                                         *)
(* Tables share nothing, so a behaviour is the history of one of them.     *)
(* Calls come one at a time and postgres is up.                            *)
(*                                                                         *)
(* Data abstraction: owner is a resident, or the city itself, in its       *)
(* tenant; site is the linked site, source or kind; id what else names a   *)
(* record; value the one column a query or a later call looks at: when it  *)
(* was fetched or reported, its status, or a payload.  When an outage was  *)
(* reported is text of the provider's: it has the instant that postgres    *)
(* reads from it, if any, and a place among the texts memory.ts compares.  *)
(***************************************************************************)
EXTENDS Integers, FiniteSets

CONSTANTS Owners, Sites, Ids

\* The bills of a push come in a list: an id is the place in it.
ASSUME IdsAssumption == Ids \subseteq Nat /\ IsFiniteSet(Ids)

\* Of each table, the columns of its key (the DDL's PRIMARY KEY).
PrimaryKey ==
  [civic_entry                |-> {"owner", "site", "id"},
   civic_resolved             |-> {"owner", "site", "id"},
   civic_alert_dismissal      |-> {"owner", "id"},
   utility_bill               |-> {"owner", "site"},
   utility_usage              |-> {"owner", "id"},
   utility_outage             |-> {"owner", "id"},
   resident_profile           |-> {"owner"},
   linked_account             |-> {"owner", "site"},
   reminders_reminder         |-> {"owner", "id"},
   notifications_registration |-> {"owner"}]

Tables == DOMAIN PrimaryKey

\* The tables whose records name a site, and those that name an id.
Sited == {"civic_entry", "civic_resolved", "utility_bill", "utility_usage", "linked_account"}
Unnamed == {"resident_profile", "linked_account", "notifications_registration"}

\* What reported_at of an outage may be: UTC, or local time, whose digits come
\* earlier than its instant, or "", before every other text and no time at all.
NotATime == -1
Undated == [at |-> NotATime, text |-> -1]
Dated == {[at |-> 1, text |-> 1], [at |-> 1, text |-> 0]}

\* Usage and dismissals have nothing but their key to compare.
Values(t) == CASE t \in {"utility_usage", "civic_alert_dismissal"} -> {0}
               [] t = "utility_outage" -> Dated \cup {Undated}
               [] OTHER -> 0..1

Any(S) == {CHOOSE x \in S : TRUE}

Rows(t) == [owner: Owners, site: IF t \in Sited THEN Sites ELSE Any(Sites),
            id: IF t \in Unnamed THEN Any(Ids) ELSE Ids, value: Values(t)]

Of(kept, owner) == {r \in kept : r.owner = owner}
OfSite(kept, owner, site) == {r \in kept : r.owner = owner /\ r.site = site}
Named(kept, owner, id) == {r \in kept : r.owner = owner /\ r.id = id}

VARIABLES table,    \* the table of this behaviour
          rows,     \* its rows in postgres
          entries,  \* what memory.ts keeps instead
          apart     \* history: owners of whose outages the adapters may differ

store_vars == <<table, rows, entries, apart>>

StoresInit == table \in Tables /\ rows = {} /\ entries = {} /\ apart = {}

-----------------------------------------------------------------------------
(* postgres.ts: the rows a statement leaves. *)

SameKey(r, s) == \A c \in PrimaryKey[table] : r[c] = s[c]

\* INSERT ... ON CONFLICT (key) DO UPDATE.
upsert(new) == {r \in rows : ~\E n \in new : SameKey(r, n)} \cup new

\* INSERT ... ON CONFLICT (key) DO NOTHING.
insert(new) == rows \cup {n \in new : ~\E r \in rows : SameKey(r, n)}

insert_civic(new) == insert(new)
prune_older_than(city, source, cutoff) ==
  rows \ {r \in OfSite(rows, city, source) : r.value < cutoff}
upsert_resolved(row) == upsert({row})
insert_alert_dismissal(row) == insert({row})
delete_alert_dismissal(sub, entry_id) == rows \ Named(rows, sub, entry_id)

\* The bills of a push have one key, so that each replaces the one before it.
store_bills(sub, site, bills) ==
  upsert({b \in bills : \A c \in bills : c.id <= b.id})

store_usage(usage) == upsert(usage)
delete_bills(sub, site) == rows \ OfSite(rows, sub, site)

\* Faulty variant for mutation: as before usage rows carried the site.
delete_usage_all(sub, site) == rows \ Of(rows, sub)

delete_usage(sub, site) == rows \ OfSite(rows, sub, site)

\* One INSERT after the other: the first whose reported_at is no timestamptz throws,
\* and those after it are not made.
store_outages(outages) ==
  LET dated == {o \in outages : o.value # Undated}
  IN  {upsert(stored) : stored \in IF dated = outages THEN {outages} ELSE SUBSET dated}

prune_outages(sub, before) == rows \ {r \in Of(rows, sub) : r.value.at < before}
save_profile(row) == upsert({row})
save_linked_account(row) == upsert({row})
delete_linked_account(sub, site) == rows \ OfSite(rows, sub, site)
create_reminder(row) == upsert({row})

set_status(sub, id, status) ==
  {IF r \in Named(rows, sub, id) THEN [r EXCEPT !.value = status] ELSE r : r \in rows}

delete_reminder(sub, id) == rows \ Named(rows, sub, id)
upsert_registration(row) == upsert({row})

-----------------------------------------------------------------------------
(* memory.ts: the entries a call leaves. *)

\* Map.set of each, under the keys the maps are nested by.
map_set(new) ==
  {e \in entries : ~\E n \in new : n.owner = e.owner /\ n.site = e.site /\ n.id = e.id} \cup new

memory_insert_entries(new) == map_set(new)

memory_prune_older_than(city, source, cutoff) ==
  {e \in entries : e.owner = city /\ e.site = source => e.value >= cutoff}

memory_upsert_resolved(row) == map_set({row})
memory_dismissals_add(row) == entries \cup {row}
memory_dismissals_delete(sub, entry_id) == entries \ Named(entries, sub, entry_id)

\* The lists of a push replace those of the one before it.
memory_store_bill_push(sub, site, list) == (entries \ OfSite(entries, sub, site)) \cup list
memory_delete_pushed(sub, site) == entries \ OfSite(entries, sub, site)

memory_store_outages(list) ==
  LET incoming == {<<o.owner, o.id>> : o \in list}
  IN  {e \in entries : <<e.owner, e.id>> \notin incoming} \cup list
\* Texts are compared, as strings are.
memory_prune_outages(sub, before) ==
  {e \in entries : e.owner = sub => e.value.text >= before}
memory_save_profile(row) == map_set({row})
memory_save_linked_account(row) ==
  {e \in entries : e.owner = row.owner => e.site # row.site} \cup {row}
memory_delete_linked_account(sub, site) ==
  {e \in entries : e.owner = sub => e.site # site}
memory_create_reminder(row) ==
  {e \in entries : e.owner = row.owner => e.id # row.id} \cup {row}

memory_set_status(sub, id, status) ==
  {[e EXCEPT !.value = IF e.owner = sub /\ e.id = id THEN status ELSE @] : e \in entries}
memory_delete_reminder(sub, id) == {e \in entries : e.owner = sub => e.id # id}
memory_upsert_registration(row) == map_set({row})

-----------------------------------------------------------------------------
(* The ports: one action per call that changes a store. *)

On(t) == table = t /\ UNCHANGED <<table, apart>>

\* The lists a call may pass: of one owner and site, an id once.
Lists(t, owner, site) ==
  LET Record(id, value) == [owner |-> owner, site |-> site, id |-> id, value |-> value]
  IN  UNION {{{Record(id, v[id]) : id \in ids} : v \in [ids -> Values(t)]} : ids \in SUBSET Ids}

\* ap-civic passes only what existing_entry_ids does not name.
InsertEntries ==
  /\ On("civic_entry")
  /\ \E o \in Owners, s \in Sites : \E new \in Lists(table, o, s) :
       /\ ~\E n \in new, r \in rows : SameKey(n, r)
       /\ rows' = insert_civic(new)
       /\ entries' = memory_insert_entries(new)

PruneEntries ==
  /\ On("civic_entry")
  /\ \E o \in Owners, s \in Sites, cutoff \in 0..2 :
       /\ rows' = prune_older_than(o, s, cutoff)
       /\ entries' = memory_prune_older_than(o, s, cutoff)

UpsertResolved ==
  /\ On("civic_resolved")
  /\ \E row \in Rows(table) :
       rows' = upsert_resolved(row) /\ entries' = memory_upsert_resolved(row)

Dismissal ==
  /\ On("civic_alert_dismissal")
  /\ \E row \in Rows(table) :
       \/ rows' = insert_alert_dismissal(row) /\ entries' = memory_dismissals_add(row)
       \/ /\ rows' = delete_alert_dismissal(row.owner, row.id)
          /\ entries' = memory_dismissals_delete(row.owner, row.id)

\* store_bill_push, of the table at hand.
BillPush ==
  /\ On("utility_bill") \/ On("utility_usage")
  /\ \E o \in Owners, s \in Sites : \E list \in Lists(table, o, s) :
       /\ rows' = IF table = "utility_bill" THEN store_bills(o, s, list)
                                            ELSE store_usage(list)
       /\ entries' = memory_store_bill_push(o, s, list)

DeletePushed(o, s) ==
  /\ \/ On("utility_bill") /\ rows' = delete_bills(o, s)
     \/ On("utility_usage") /\ rows' = delete_usage(o, s)
  /\ entries' = memory_delete_pushed(o, s)

StoreOutages(o) ==
  \E list \in Lists(table, o, CHOOSE s \in Sites : TRUE) :
    /\ rows' \in store_outages(list) /\ entries' = memory_store_outages(list)
    /\ apart' = apart \cup {x \in {o} : \E n \in list : n.value = Undated}

\* Of what is stored, the adapters drop the same, unless digits mislead memory.ts.
PruneOutages(o) ==
  \E before \in 0..2 :
    /\ rows' = prune_outages(o, before) /\ entries' = memory_prune_outages(o, before)
    /\ apart' = apart \cup {x \in {o} :
         \E r \in Of(rows, o) : r.value.at >= before /\ r.value.text < before}

Outages ==
  /\ table = "utility_outage" /\ UNCHANGED table
  /\ \E o \in Owners : StoreOutages(o) \/ PruneOutages(o)

SaveProfile ==
  /\ On("resident_profile")
  /\ \E row \in Rows(table) :
       rows' = save_profile(row) /\ entries' = memory_save_profile(row)

LinkedAccounts ==
  /\ On("linked_account")
  /\ \E row \in Rows(table) :
       \/ rows' = save_linked_account(row) /\ entries' = memory_save_linked_account(row)
       \/ /\ rows' = delete_linked_account(row.owner, row.site)
          /\ entries' = memory_delete_linked_account(row.owner, row.site)

Reminders ==
  /\ On("reminders_reminder")
  /\ \E row \in Rows(table) :
       \/ rows' = create_reminder(row) /\ entries' = memory_create_reminder(row)
       \/ /\ rows' = set_status(row.owner, row.id, row.value)
          /\ entries' = memory_set_status(row.owner, row.id, row.value)
       \/ /\ rows' = delete_reminder(row.owner, row.id)
          /\ entries' = memory_delete_reminder(row.owner, row.id)

UpsertRegistration ==
  /\ On("notifications_registration")
  /\ \E row \in Rows(table) :
       rows' = upsert_registration(row) /\ entries' = memory_upsert_registration(row)

StoresNext ==
  \/ InsertEntries \/ PruneEntries \/ UpsertResolved \/ Dismissal
  \/ BillPush
  \/ \E o \in Owners, s \in Sites : DeletePushed(o, s)
  \/ Outages \/ SaveProfile \/ LinkedAccounts \/ Reminders \/ UpsertRegistration

-----------------------------------------------------------------------------
\* What is stored has the port's types: of a reminder, one of its statuses; of an
\* outage in postgres, a time.
StoresTypeOK ==
  /\ table \in Tables /\ rows \subseteq Rows(table) /\ entries \subseteq Rows(table)
  /\ apart \subseteq Owners
  /\ table = "utility_outage" => \A r \in rows : r.value # Undated

\* Both adapters hold the same of an owner, whatever the table, but for bills and
\* usage, and unless the owner had an outage without a date, or one whose digits
\* say it is older than it is: what one resident's do stays with that resident.
FallbackAgrees ==
  table \notin {"utility_bill", "utility_usage"} =>
    \A o \in Owners \ apart : Of(rows, o) = Of(entries, o)

\* An outage without a date does not outlive a prune, in either adapter.
UndatedLeave ==
  \A o \in Owners : table = "utility_outage" /\ PruneOutages(o) =>
    \A e \in Of(rows' \cup entries', o) : e.value # Undated

\* Postgres keeps one bill of each site, memory the last push: if memory has
\* bills of a site, postgres has the last of them.
LastBillAgrees ==
  table = "utility_bill" =>
    \A o \in Owners, s \in Sites :
      LET bills == OfSite(entries, o, s)
      IN  bills # {} => OfSite(rows, o, s) = {b \in bills : \A c \in bills : c.id <= b.id}

\* An unlink leaves nothing of the site in either adapter and takes nothing of
\* another site or resident from either.
UnlinkAgrees ==
  table \in {"utility_bill", "utility_usage"} =>
    \A o \in Owners, s \in Sites : DeletePushed(o, s) =>
      /\ rows' = {r \in rows : <<r.owner, r.site>> # <<o, s>>}
      /\ entries' = {e \in entries : <<e.owner, e.site>> # <<o, s>>}

\* memory.ts:2, "same module store ports": each call leaves the same records in
\* both adapters; of bills and usage, for which that is not so, the last bill of
\* a site and what an unlink leaves; of outages, as far as they have a date.
StoresAgree ==
  [][/\ StoresTypeOK' /\ FallbackAgrees' /\ LastBillAgrees'
     /\ UnlinkAgrees /\ UndatedLeave]_store_vars

-----------------------------------------------------------------------------
(* A statement of the code that the model refutes. *)

\* memory.ts:2, of outages: an undated one is kept by the map, while its INSERT
\* throws and takes those after it along; and the map drops one reported in local
\* time (fetch.ts:191) as many hours early as its offset.
SameOutages == table = "utility_outage" => rows = entries
=============================================================================
