------------------------------- MODULE Accounts -------------------------------
(***************************************************************************)
(* Linked utility accounts of one resident, on the phone and on the        *)
(* server: useAccounts.ts and the parts of Portal.tsx that drive it scrape *)
(* every linked site once a day and push what they find; ap-utility keeps  *)
(* the links and the pushed data.  Linking, unlinking, scraping, pushing   *)
(* and the refetches of the linked list all await, and interleave.         *)
(*                                                                         *)
(* Data abstraction: of a site's bills and usage, whether there are any;   *)
(* of the record of scrapes, the sites whose date is today's.  Reading the *)
(* credentials and scraping is one step that succeeds or fails.  How long  *)
(* a site waits for a worker of sync_all is left open.  The query client   *)
(* (restart of a fetch on invalidation, isFetchedAfterMount) is external.  *)
(***************************************************************************)
EXTENDS Naturals, FiniteSets

CONSTANTS Sites, MaxOps, MaxFaults, MaxDays   \* bounds of the model

VARIABLES
  linked, data,                  \* the server: linked_account; bills and usage
  cache, fetched, fetching, answer,   \* the linked query
  ready,                         \* backend_ready
  seen,                          \* the dependencies of the sync effect's last run
  creds,                         \* the keystore
  marked,                        \* last_scrape_success: sites scraped today
  run, read,                     \* in_flight: run_site of each site; the marks it read
  queue,                         \* sites sync_all has yet to start
  syncing,                       \* the portal's in_flight
  unlink, kept,                  \* unlink_mutation of each site; the marks it read
  link,                          \* register_mutation of each site
  registered,                    \* history: sites linked and not unlinked since
  leftover,                      \* history: data an unlink could not reach
  outlived,                      \* history: sites whose mark may outlive their data
  ops, faults, days

server == <<linked, data>>
query == <<cache, fetched, fetching, answer, ready>>
device == <<creds, marked>>
syncs == <<run, read, queue, syncing>>
mutations == <<unlink, kept, link>>
history == <<registered, leftover, outlived>>
budget == <<ops, faults, days>>
vars == <<server, query, seen, device, syncs, mutations, history, budget>>

Running == {s \in Sites : run[s] # "idle"}
Unlinking == {s \in Sites : unlink[s] # "none"}

\* App start: the cache and the marks are what an earlier session left, and the
\* resident may have unlinked sites on another device since, or relinked them.
Init ==
  /\ cache \in SUBSET Sites /\ linked \in SUBSET cache
  /\ data \in SUBSET linked /\ creds = cache /\ marked \in SUBSET cache
  /\ fetched = FALSE /\ fetching = "sent" /\ answer = {} /\ ready = FALSE
  /\ seen = <<{}, FALSE, FALSE>>
  /\ run = [s \in Sites |-> "idle"] /\ read = [s \in Sites |-> {}]
  /\ queue = {} /\ syncing = {}
  /\ unlink = [s \in Sites |-> "none"] /\ kept = [s \in Sites |-> {}]
  /\ link = [s \in Sites |-> "none"]
  /\ registered = {} /\ leftover = {} /\ outlived = marked \ data
  /\ ops = 0 /\ faults = 0 /\ days = 0

Fault == faults < MaxFaults /\ faults' = faults + 1
Op == ops < MaxOps /\ ops' = ops + 1

-----------------------------------------------------------------------------
(* The linked query. *)

\* Faulty variant for mutation: a list is good for ever.
Stale_empty == fetching = "none" /\ cache = {}

\* staleTime is a matter of seconds.
Stale == fetching = "none"

\* On focus, once stale.
Refetch ==
  /\ Stale
  /\ fetching' = "sent"
  /\ UNCHANGED <<cache, fetched, answer, ready, server, seen, device, syncs, mutations,
                 history, budget>>

list_linked_accounts ==
  /\ fetching = "sent"
  /\ fetching' = "answered" /\ answer' = linked
  /\ UNCHANGED <<cache, fetched, ready, server, seen, device, syncs, mutations, history,
                 budget>>

\* The answer lands, or the last retry fails; either counts as fetched.
Fetched ==
  /\ fetching = "answered"
  /\ fetching' = "none" /\ fetched' = TRUE /\ answer' = {}
  /\ \/ cache' = answer /\ UNCHANGED faults
     \/ Fault /\ UNCHANGED cache
  /\ UNCHANGED <<ready, server, seen, device, syncs, mutations, history, ops, days>>

\* Faulty variant for mutation: a fetch under way goes on.
invalidate_queries_join == UNCHANGED <<fetching, answer>>

\* invalidateQueries: a fetch under way is dropped and sent again.
invalidate_queries == fetching' = "sent" /\ answer' = {}

BackendReady ==
  /\ ~ready
  /\ ready' = TRUE /\ invalidate_queries
  /\ UNCHANGED <<cache, fetched, server, seen, device, syncs, mutations, history, budget>>

-----------------------------------------------------------------------------
(* What starts a sync. *)

\* Every site is announced as queued, then left to the workers.
sync_all(sites) == syncing' = syncing \cup sites /\ queue' = queue \cup sites

\* The portal's effect on the set of linked sites.
SyncEffect ==
  /\ seen # <<cache, fetched, ready>>
  /\ seen' = <<cache, fetched, ready>>
  /\ IF ready /\ fetched THEN sync_all(cache \ syncing) ELSE UNCHANGED <<queue, syncing>>
  /\ UNCHANGED <<server, query, device, run, read, mutations, history, budget>>

Foreground ==
  /\ ready /\ fetched /\ cache # {} /\ syncing = {}
  /\ sync_all(cache)
  /\ UNCHANGED <<server, query, seen, device, run, read, mutations, history, budget>>

\* run_site: one under way is joined.
run_site(s) == run' = IF run[s] = "idle" THEN [run EXCEPT ![s] = "dates"] ELSE run

\* Faulty variant for mutation: max_concurrent may be configured to be 0.
Taken_never(s) == FALSE

\* A worker takes the site.
Taken(s) == s \in queue /\ queue' = queue \ {s}

StartQueued(s) ==
  /\ Taken(s)
  /\ run_site(s)
  /\ UNCHANGED <<server, query, seen, device, read, syncing, mutations, history, budget>>

\* Edit, with new credentials: on_credentials_saved.
EditCredentials(s) ==
  /\ s \in cache /\ Op
  /\ creds' = creds \cup {s}
  /\ run_site(s)
  /\ UNCHANGED <<server, query, seen, marked, read, queue, syncing, mutations, history,
                 faults, days>>

-----------------------------------------------------------------------------
(* run_site, await by await. *)

\* The result is emitted, which the portal takes note of.
Ended(s) == run' = [run EXCEPT ![s] = "idle"] /\ syncing' = syncing \ {s}

Skipped(s) ==
  /\ run[s] = "dates" /\ s \in marked
  /\ Ended(s)
  /\ UNCHANGED <<server, query, seen, device, read, queue, mutations, history, budget>>

Announced(s) ==
  /\ run[s] = "dates" /\ s \notin marked
  /\ run' = [run EXCEPT ![s] = "login"] /\ syncing' = syncing \cup {s}
  /\ UNCHANGED <<server, query, seen, device, read, queue, mutations, history, budget>>

\* Credentials, script, scrape, and the request that pushes its result.
Scraped(s) ==
  /\ run[s] = "login"
  /\ \/ s \in creds /\ run' = [run EXCEPT ![s] = "push"] /\ UNCHANGED <<syncing, faults>>
     \/ s \notin creds /\ Ended(s) /\ UNCHANGED faults
     \/ Fault /\ Ended(s)
  /\ UNCHANGED <<server, query, seen, device, read, queue, mutations, history, ops, days>>

\* push: only sites with a linked_account record may store data.
Accepted(s) == s \in linked

PushChecked(s) ==
  /\ run[s] = "push"
  /\ IF Accepted(s) THEN run' = [run EXCEPT ![s] = "checked"] /\ UNCHANGED syncing
                    ELSE Ended(s)
  /\ UNCHANGED <<server, query, seen, device, read, queue, mutations, history, budget>>

store_bill_push(s) ==
  /\ run[s] = "checked"
  /\ run' = [run EXCEPT ![s] = "stored"]
  /\ data' = data \cup {s} /\ outlived' = outlived \ {s}
  /\ UNCHANGED <<linked, query, seen, device, read, queue, syncing, mutations, registered,
                 leftover, budget>>

\* The answer arrives, or does not; write_last_scrape_success reads the marks ...
PushAnswered(s) ==
  /\ run[s] = "stored"
  /\ \/ run' = [run EXCEPT ![s] = "write"] /\ read' = [read EXCEPT ![s] = marked]
        /\ UNCHANGED <<syncing, faults>>
     \/ Fault /\ Ended(s) /\ UNCHANGED read
  /\ UNCHANGED <<server, query, seen, device, queue, mutations, history, ops, days>>

\* ... and writes them back with the site's.
write_last_scrape_success(s) ==
  /\ run[s] = "write"
  /\ marked' = read[s] \cup {s} /\ read' = [read EXCEPT ![s] = {}]
  /\ Ended(s)
  /\ UNCHANGED <<server, query, seen, creds, queue, mutations, history, budget>>

-----------------------------------------------------------------------------
(* Unlinking and linking. *)

Unlink(s) ==
  /\ s \in cache /\ unlink[s] = "none" /\ Op
  /\ unlink' = [unlink EXCEPT ![s] = "link"]
  /\ registered' = registered \ {s}
  /\ UNCHANGED <<server, query, seen, device, syncs, kept, link, leftover, outlived, faults,
                 days>>

\* unlink_account: the link is deleted, then the data.  A push checked by then
\* stores its data after that, one that has stored it marks the site after that.
unlink_account(s) ==
  /\ \/ /\ unlink[s] = "link" /\ unlink' = [unlink EXCEPT ![s] = "data"]
        /\ linked' = linked \ {s} /\ UNCHANGED <<data, leftover, outlived>>
     \/ /\ unlink[s] = "data" /\ unlink' = [unlink EXCEPT ![s] = "answered"]
        /\ data' = data \ {s} /\ UNCHANGED linked
        /\ leftover' = IF run[s] = "checked" THEN leftover \cup {s} ELSE leftover \ {s}
        /\ outlived' = IF run[s] \in {"stored", "write"} THEN outlived \cup {s} ELSE outlived
  /\ UNCHANGED <<query, seen, device, syncs, kept, link, registered, budget>>

\* A delete throws, and the data stays; or the answer is lost, and the mark
\* stays.  The resident is told it failed.
UnlinkFails(s) ==
  /\ unlink[s] \in {"data", "answered"} /\ Fault
  /\ unlink' = [unlink EXCEPT ![s] = "none"]
  /\ IF unlink[s] = "data" THEN leftover' = leftover \cup {s} /\ UNCHANGED outlived
                           ELSE outlived' = outlived \cup ({s} \ data) /\ UNCHANGED leftover
  /\ UNCHANGED <<server, query, seen, device, syncs, kept, link, registered, ops, days>>

delete_credentials(s) ==
  /\ unlink[s] = "answered"
  /\ unlink' = [unlink EXCEPT ![s] = "dates"]
  /\ creds' = creds \ {s}
  /\ UNCHANGED <<server, query, seen, marked, syncs, kept, link, history, budget>>

\* Faulty variant for mutation: the mark stays.
Cleared_none(marks, s) == marks

\* The marks without the site's.
Cleared(marks, s) == marks \ {s}

\* The marks are read ...
ReadMarks(s) ==
  /\ unlink[s] = "dates"
  /\ unlink' = [unlink EXCEPT ![s] = "clear"]
  /\ kept' = [kept EXCEPT ![s] = marked]
  /\ UNCHANGED <<server, query, seen, device, syncs, link, history, budget>>

\* Another call has yet to write back a mark of the site, or did since they were
\* read.
Rewritten(s) ==
  \/ \E x \in Sites : s \in read[x] \/ (x # s /\ s \in kept[x])
  \/ s \in marked \ kept[s]

\* ... and written back without the site's, if it is there; the list follows.
Unlinked(s) ==
  /\ unlink[s] = "clear"
  /\ unlink' = [unlink EXCEPT ![s] = "none"] /\ kept' = [kept EXCEPT ![s] = {}]
  /\ marked' = IF s \in kept[s] THEN Cleared(kept[s], s) ELSE marked
  /\ outlived' = IF Rewritten(s) THEN outlived \cup ({s} \ data) ELSE outlived
  /\ cache' = cache \ {s} /\ invalidate_queries
  /\ UNCHANGED <<fetched, ready, server, seen, creds, syncs, link, registered, leftover,
                 budget>>

\* Add account: the credentials are saved, then the link is registered.
Link(s) ==
  /\ link[s] = "none" /\ Op
  /\ creds' = creds \cup {s}
  /\ link' = [link EXCEPT ![s] = "sent"]
  /\ UNCHANGED <<server, query, seen, marked, syncs, unlink, kept, history, faults, days>>

link_account(s) ==
  /\ link[s] = "sent"
  /\ linked' = linked \cup {s}
  /\ link' = [link EXCEPT ![s] = "answered"]
  /\ UNCHANGED <<data, query, seen, device, syncs, unlink, kept, history, budget>>

Linked(s) ==
  /\ link[s] = "answered"
  /\ link' = [link EXCEPT ![s] = "none"]
  /\ \/ /\ cache' = cache \cup {s} /\ fetched' = TRUE /\ invalidate_queries
        /\ registered' = registered \cup (({s} \cap linked) \ Unlinking)
        /\ UNCHANGED faults
     \/ Fault /\ UNCHANGED <<cache, fetched, fetching, answer, registered>>
  /\ UNCHANGED <<ready, server, seen, device, syncs, unlink, kept, leftover, outlived, ops,
                 days>>

\* Midnight, device time.
NewDay ==
  /\ days < MaxDays /\ days' = days + 1
  /\ marked' = {} /\ read' = [s \in Sites |-> {}] /\ kept' = [s \in Sites |-> {}]
  /\ outlived' = {s \in outlived : run[s] \in {"stored", "write"}}
  /\ UNCHANGED <<server, query, seen, creds, run, queue, syncing, unlink, link, registered,
                 leftover, ops, faults>>

Sync(s) ==
  \/ StartQueued(s) \/ Skipped(s) \/ Announced(s) \/ Scraped(s)
  \/ PushChecked(s) \/ store_bill_push(s) \/ PushAnswered(s) \/ write_last_scrape_success(s)

Mutation(s) ==
  \/ unlink_account(s) \/ delete_credentials(s) \/ ReadMarks(s) \/ Unlinked(s)
  \/ link_account(s) \/ Linked(s)

Next ==
  \/ Refetch \/ list_linked_accounts \/ Fetched \/ BackendReady
  \/ SyncEffect \/ Foreground \/ NewDay
  \/ \E s \in Sites :
       Sync(s) \/ Mutation(s) \/ Unlink(s) \/ UnlinkFails(s) \/ Link(s) \/ EditCredentials(s)

\* The app is opened again and again, its effects run and its awaits end: a
\* scrape has a timeout.
Fairness ==
  /\ WF_vars(Refetch) /\ WF_vars(list_linked_accounts) /\ WF_vars(Fetched)
  /\ WF_vars(BackendReady) /\ WF_vars(SyncEffect) /\ WF_vars(Foreground)
  /\ \A s \in Sites : WF_vars(Sync(s)) /\ WF_vars(Mutation(s))

Spec == Init /\ [][Next]_vars /\ Fairness

-----------------------------------------------------------------------------
RunPhases == {"idle", "dates", "login", "push", "checked", "stored", "write"}
UnlinkPhases == {"none", "link", "data", "answered", "dates", "clear"}

TypeOK ==
  /\ {linked, data, cache, answer, creds, marked, queue, syncing, registered, leftover,
      outlived} \subseteq SUBSET Sites
  /\ fetching \in {"none", "sent", "answered"}
  /\ {fetched, ready} \subseteq BOOLEAN
  /\ run \in [Sites -> RunPhases] /\ read \in [Sites -> SUBSET Sites]
  /\ unlink \in [Sites -> UnlinkPhases] /\ kept \in [Sites -> SUBSET Sites]
  /\ link \in [Sites -> {"none", "sent", "answered"}]

\* What the portal takes for a sync under way is one, or waits for a worker: a
\* site left behind would keep every later foreground from syncing anything
\* (Portal.tsx:201-212).
InFlightIsTrue == syncing \subseteq queue \cup Running

\* "An unlinked account must not keep serving bills or usage"
\* (service.ts:204): data of an unlinked site is data its unlink is still at, or
\* `leftover`: one of its deletions failed, or a push had been checked before it
\* (service.ts:75) and stored after it.
UnlinkedHoldsNothing ==
  \A s \in data \ linked : s \in leftover \/ unlink[s] = "data"

\* The unlink of the site has taken its data, and is to take its mark.
Clearing(s) == unlink[s] \in {"answered", "dates", "clear"}

\* A mark stands for data: a linked site marked as scraped today has its data on
\* the server, so that skipping it loses nothing, unless its unlink is about to
\* take the mark away, or the mark is `outlived`: the data went on another device;
\* or with an unlink whose answer was lost; or under a push that had stored it and
\* was to mark it; or another call wrote the mark back that the unlink took away
\* (useAccounts.ts:273, "so relinking the site later today scrapes fresh instead
\* of being skipped").
MarkMeansData ==
  \A s \in marked \cap linked : s \in data \/ Clearing(s) \/ s \in outlived

\* What passes for a sync, for linked and for scraped is so.
AccountsAgree == TypeOK /\ InFlightIsTrue /\ UnlinkedHoldsNothing /\ MarkMeansData

\* A site the resident linked, and the server still has, stays on the phone's
\* list, whatever fetch was under way meanwhile (useAccounts.ts:248-250).
ListKeepsLinks ==
  [][cache \cap linked \cap registered \cap registered' \subseteq cache']_vars

\* The phone's list and the server's records agree again and again.
ListCatchesUp == []<>(cache = linked)

\* A linked site whose credentials the phone has is scraped again and again, or
\* passes for scraped today.
LinkedGetsScraped == \A s \in Sites :
  []<>(s \in linked \cap creds => s \in marked \/ s \in data)

\* Whatever overtakes what on the way, the phone and the server come to agree,
\* and what is linked gets scraped (useAccounts.ts:247-261, Portal.tsx:176-215).
AccountsCatchUp == ListCatchesUp /\ LinkedGetsScraped

-----------------------------------------------------------------------------
(* Statements of the code that the model refutes. *)

\* service.ts:204, without the exceptions: refuted by a push checked before the
\* unlink and stored after it, and by a deletion that fails.
UnlinkLeavesNothing == \A s \in data \ linked : unlink[s] = "data"

\* useAccounts.ts:273, without the exceptions: refuted by an unlink whose answer is
\* lost, and by each of the other ways to be `outlived`.
ScrapesFresh == \A s \in marked \cap registered : s \in data \/ Clearing(s)
=============================================================================
