---------------------------- MODULE Portal_proofs ----------------------------
(***************************************************************************)
(* What the resident sets in the portal: the linked accounts, for any      *)
(* sites and any number of calls, faults and days, and the notification    *)
(* opt-ins, for any types and any number of calls and late requests.       *)
(***************************************************************************)
EXTENDS Accounts, OptIns, TLAPS

-----------------------------------------------------------------------------
(* Linked accounts *)

\* What was checked is linked, or its unlink is to take the data, or has passed it by.
CheckedIsLinked ==
  \A s \in Sites : run[s] = "checked" => s \in linked \cup leftover \/ unlink[s] = "data"

\* A mark of the site would be one that MarkMeansData allows.
Good(s) == s \in data \/ Clearing(s) \/ s \in outlived

\* MarkMeansData, of the marks and of those that are yet to be written: the copies of
\* the record that calls hold, and the mark of a run whose push has been stored.
MarksOK ==
  /\ \A s \in marked : Good(s)
  /\ \A x \in Sites : \A s \in read[x] \cup kept[x] : Good(s)
  /\ \A s \in Sites : run[s] \in {"stored", "write"} => s \in data \cup outlived

\* What stays registered is linked, and on every answer on its way.
ListOK ==
  /\ registered \subseteq linked /\ registered \cap Unlinking = {}
  /\ fetching = "answered" => registered \subseteq answer

AccountsInv ==
  /\ AccountsAgree /\ CheckedIsLinked /\ MarksOK /\ ListOK

AccountsTypes ==
  /\ linked \in SUBSET Sites /\ data \in SUBSET Sites /\ cache \in SUBSET Sites
  /\ answer \in SUBSET Sites /\ creds \in SUBSET Sites /\ marked \in SUBSET Sites
  /\ queue \in SUBSET Sites /\ syncing \in SUBSET Sites
  /\ registered \in SUBSET Sites /\ leftover \in SUBSET Sites /\ outlived \in SUBSET Sites
  /\ fetching \in {"none", "sent", "answered"}
  /\ fetched \in BOOLEAN /\ ready \in BOOLEAN
  /\ run \in [Sites -> RunPhases] /\ read \in [Sites -> SUBSET Sites]
  /\ unlink \in [Sites -> UnlinkPhases] /\ kept \in [Sites -> SUBSET Sites]
  /\ link \in [Sites -> {"none", "sent", "answered"}]

LEMMA AccountsTyped == TypeOK <=> AccountsTypes
BY DEF TypeOK, AccountsTypes

LEMMA AccountsTypesKeep == AccountsTypes /\ [Next]_vars => AccountsTypes'
<1> SUFFICES ASSUME AccountsTypes, [Next]_vars PROVE AccountsTypes'
  OBVIOUS
<1> USE DEF AccountsTypes, RunPhases, UnlinkPhases, server, query, device, syncs,
            mutations, history
<1>1. CASE Refetch
  BY <1>1 DEF Refetch
<1>2. CASE list_linked_accounts
  BY <1>2 DEF list_linked_accounts
<1>3. CASE Fetched
  BY <1>3 DEF Fetched
<1>4. CASE BackendReady
  BY <1>4 DEF BackendReady, invalidate_queries
<1>5. CASE SyncEffect
  BY <1>5 DEF SyncEffect, sync_all
<1>6. CASE Foreground
  BY <1>6 DEF Foreground, sync_all
<1>7. CASE NewDay
  BY <1>7 DEF NewDay
<1>8. ASSUME NEW s \in Sites, Sync(s) PROVE AccountsTypes'
  <2>1. CASE StartQueued(s)
    BY <2>1 DEF StartQueued, Taken, run_site
  <2>2. CASE Skipped(s)
    BY <2>2 DEF Skipped, Ended
  <2>3. CASE Announced(s)
    BY <2>3 DEF Announced
  <2>4. CASE Scraped(s)
    BY <2>4 DEF Scraped, Ended
  <2>5. CASE PushChecked(s)
    BY <2>5 DEF PushChecked, Ended
  <2>6. CASE store_bill_push(s)
    BY <2>6 DEF store_bill_push
  <2>7. CASE PushAnswered(s)
    BY <2>7 DEF PushAnswered, Ended
  <2>8. CASE write_last_scrape_success(s)
    BY <2>8 DEF write_last_scrape_success, Ended
  <2> QED
    BY <1>8, <2>1, <2>2, <2>3, <2>4, <2>5, <2>6, <2>7, <2>8 DEF Sync
<1>9. ASSUME NEW s \in Sites, Mutation(s) PROVE AccountsTypes'
  <2>1. CASE unlink_account(s)
    BY <2>1 DEF unlink_account
  <2>2. CASE delete_credentials(s)
    BY <2>2 DEF delete_credentials
  <2>3. CASE ReadMarks(s)
    BY <2>3 DEF ReadMarks
  <2>4. CASE Unlinked(s)
    BY <2>4 DEF Unlinked, Cleared, invalidate_queries
  <2>5. CASE link_account(s)
    BY <2>5 DEF link_account
  <2>6. CASE Linked(s)
    BY <2>6 DEF Linked, invalidate_queries
  <2> QED
    BY <1>9, <2>1, <2>2, <2>3, <2>4, <2>5, <2>6 DEF Mutation
<1>10. ASSUME NEW s \in Sites, Unlink(s) PROVE AccountsTypes'
  BY <1>10 DEF Unlink
<1>11. ASSUME NEW s \in Sites, UnlinkFails(s) PROVE AccountsTypes'
  BY <1>11 DEF UnlinkFails
<1>12. ASSUME NEW s \in Sites, Link(s) PROVE AccountsTypes'
  BY <1>12 DEF Link
<1>13. ASSUME NEW s \in Sites, EditCredentials(s) PROVE AccountsTypes'
  BY <1>13 DEF EditCredentials, run_site
<1>14. CASE UNCHANGED vars
  BY <1>14 DEF vars
<1> QED
  BY <1>1, <1>2, <1>3, <1>4, <1>5, <1>6, <1>7, <1>8, <1>9, <1>10, <1>11, <1>12,
     <1>13, <1>14 DEF Next
\* What the portal waits for is under way: a run tells it when it ends.
LEMMA InFlightKeeps ==
  ASSUME AccountsTypes, InFlightIsTrue, [Next]_vars
  PROVE  InFlightIsTrue'
<1> USE DEF AccountsTypes, InFlightIsTrue, server, query, device, syncs, mutations,
            history, Running, Unlinking
<1>1. CASE Refetch
  BY <1>1 DEF Refetch
<1>2. CASE list_linked_accounts
  BY <1>2 DEF list_linked_accounts
<1>3. CASE Fetched
  BY <1>3 DEF Fetched
<1>4. CASE BackendReady
  BY <1>4 DEF BackendReady, invalidate_queries
<1>5. CASE SyncEffect
  BY <1>5 DEF SyncEffect, sync_all
<1>6. CASE Foreground
  BY <1>6 DEF Foreground, sync_all
<1>7. CASE NewDay
  BY <1>7 DEF NewDay
<1>8. ASSUME NEW s \in Sites, Sync(s) PROVE InFlightIsTrue'
  <2>1. CASE StartQueued(s)
    BY <2>1 DEF StartQueued, Taken, run_site
  <2>2. CASE Skipped(s)
    BY <2>2 DEF Skipped, Ended
  <2>3. CASE Announced(s)
    BY <2>3 DEF Announced
  <2>4. CASE Scraped(s)
    BY <2>4 DEF Scraped, Ended
  <2>5. CASE PushChecked(s)
    BY <2>5 DEF PushChecked, Ended, Accepted
  <2>6. CASE store_bill_push(s)
    BY <2>6 DEF store_bill_push
  <2>7. CASE PushAnswered(s)
    BY <2>7 DEF PushAnswered, Ended
  <2>8. CASE write_last_scrape_success(s)
    BY <2>8 DEF write_last_scrape_success, Ended
  <2> QED
    BY <1>8, <2>1, <2>2, <2>3, <2>4, <2>5, <2>6, <2>7, <2>8 DEF Sync
<1>9. ASSUME NEW s \in Sites, Mutation(s) PROVE InFlightIsTrue'
  <2>1. CASE unlink_account(s)
    BY <2>1 DEF unlink_account
  <2>2. CASE delete_credentials(s)
    BY <2>2 DEF delete_credentials
  <2>3. CASE ReadMarks(s)
    BY <2>3 DEF ReadMarks
  <2>4. CASE Unlinked(s)
    BY <2>4 DEF Unlinked, Cleared, invalidate_queries
  <2>5. CASE link_account(s)
    BY <2>5 DEF link_account
  <2>6. CASE Linked(s)
    BY <2>6 DEF Linked, invalidate_queries
  <2> QED
    BY <1>9, <2>1, <2>2, <2>3, <2>4, <2>5, <2>6 DEF Mutation
<1>10. ASSUME NEW s \in Sites, Unlink(s) PROVE InFlightIsTrue'
  BY <1>10 DEF Unlink
<1>11. ASSUME NEW s \in Sites, UnlinkFails(s) PROVE InFlightIsTrue'
  BY <1>11 DEF UnlinkFails
<1>12. ASSUME NEW s \in Sites, Link(s) PROVE InFlightIsTrue'
  BY <1>12 DEF Link
<1>13. ASSUME NEW s \in Sites, EditCredentials(s) PROVE InFlightIsTrue'
  BY <1>13 DEF EditCredentials, run_site
<1>14. CASE UNCHANGED vars
  BY <1>14 DEF vars
<1> QED
  BY <1>1, <1>2, <1>3, <1>4, <1>5, <1>6, <1>7, <1>8, <1>9, <1>10, <1>11, <1>12,
     <1>13, <1>14 DEF Next

\* A link that goes under a checked push leaves its data behind.
LEMMA CheckedKeeps ==
  ASSUME AccountsTypes, CheckedIsLinked, UnlinkedHoldsNothing, [Next]_vars
  PROVE  CheckedIsLinked' /\ UnlinkedHoldsNothing'
<1> USE DEF AccountsTypes, CheckedIsLinked, UnlinkedHoldsNothing, server, query, device,
            syncs, mutations, history, Running, Unlinking
<1>1. CASE Refetch
  BY <1>1 DEF Refetch
<1>2. CASE list_linked_accounts
  BY <1>2 DEF list_linked_accounts
<1>3. CASE Fetched
  BY <1>3 DEF Fetched
<1>4. CASE BackendReady
  BY <1>4 DEF BackendReady, invalidate_queries
<1>5. CASE SyncEffect
  BY <1>5 DEF SyncEffect, sync_all
<1>6. CASE Foreground
  BY <1>6 DEF Foreground, sync_all
<1>7. CASE NewDay
  BY <1>7 DEF NewDay
<1>8. ASSUME NEW s \in Sites, Sync(s) PROVE CheckedIsLinked' /\ UnlinkedHoldsNothing'
  <2>1. CASE StartQueued(s)
    BY <2>1 DEF StartQueued, Taken, run_site
  <2>2. CASE Skipped(s)
    BY <2>2 DEF Skipped, Ended
  <2>3. CASE Announced(s)
    BY <2>3 DEF Announced
  <2>4. CASE Scraped(s)
    BY <2>4 DEF Scraped, Ended
  <2>5. CASE PushChecked(s)
    BY <2>5 DEF PushChecked, Ended, Accepted
  <2>6. CASE store_bill_push(s)
    BY <2>6 DEF store_bill_push
  <2>7. CASE PushAnswered(s)
    BY <2>7 DEF PushAnswered, Ended
  <2>8. CASE write_last_scrape_success(s)
    BY <2>8 DEF write_last_scrape_success, Ended
  <2> QED
    BY <1>8, <2>1, <2>2, <2>3, <2>4, <2>5, <2>6, <2>7, <2>8 DEF Sync
<1>9. ASSUME NEW s \in Sites, Mutation(s) PROVE CheckedIsLinked' /\ UnlinkedHoldsNothing'
  <2>1. CASE unlink_account(s)
    BY <2>1 DEF unlink_account
  <2>2. CASE delete_credentials(s)
    BY <2>2 DEF delete_credentials
  <2>3. CASE ReadMarks(s)
    BY <2>3 DEF ReadMarks
  <2>4. CASE Unlinked(s)
    BY <2>4 DEF Unlinked, Cleared, invalidate_queries
  <2>5. CASE link_account(s)
    BY <2>5 DEF link_account
  <2>6. CASE Linked(s)
    BY <2>6 DEF Linked, invalidate_queries
  <2> QED
    BY <1>9, <2>1, <2>2, <2>3, <2>4, <2>5, <2>6 DEF Mutation
<1>10. ASSUME NEW s \in Sites, Unlink(s) PROVE CheckedIsLinked' /\ UnlinkedHoldsNothing'
  BY <1>10 DEF Unlink
<1>11. ASSUME NEW s \in Sites, UnlinkFails(s) PROVE CheckedIsLinked' /\ UnlinkedHoldsNothing'
  BY <1>11 DEF UnlinkFails
<1>12. ASSUME NEW s \in Sites, Link(s) PROVE CheckedIsLinked' /\ UnlinkedHoldsNothing'
  BY <1>12 DEF Link
<1>13. ASSUME NEW s \in Sites, EditCredentials(s) PROVE CheckedIsLinked' /\ UnlinkedHoldsNothing'
  BY <1>13 DEF EditCredentials, run_site
<1>14. CASE UNCHANGED vars
  BY <1>14 DEF vars
<1> QED
  BY <1>1, <1>2, <1>3, <1>4, <1>5, <1>6, <1>7, <1>8, <1>9, <1>10, <1>11, <1>12,
     <1>13, <1>14 DEF Next

\* Whoever writes marks back writes good ones: data goes with an unlink that clears the
\* mark, and what its clearing does not reach is noted.
LEMMA MarksKeep ==
  ASSUME AccountsTypes, MarksOK, [Next]_vars
  PROVE  MarksOK'
<1> USE DEF AccountsTypes, MarksOK, Good, Clearing, server, query, device, syncs,
            mutations, history
<1>1. CASE Refetch
  BY <1>1 DEF Refetch
<1>2. CASE list_linked_accounts
  BY <1>2 DEF list_linked_accounts
<1>3. CASE Fetched
  BY <1>3 DEF Fetched
<1>4. CASE BackendReady
  BY <1>4 DEF BackendReady, invalidate_queries
<1>5. CASE SyncEffect
  BY <1>5 DEF SyncEffect, sync_all
<1>6. CASE Foreground
  BY <1>6 DEF Foreground, sync_all
<1>7. CASE NewDay
  BY <1>7 DEF NewDay
<1>8. ASSUME NEW s \in Sites, Sync(s) PROVE MarksOK'
  <2>1. CASE StartQueued(s)
    BY <2>1 DEF StartQueued, Taken, run_site
  <2>2. CASE Skipped(s)
    BY <2>2 DEF Skipped, Ended
  <2>3. CASE Announced(s)
    BY <2>3 DEF Announced
  <2>4. CASE Scraped(s)
    BY <2>4 DEF Scraped, Ended
  <2>5. CASE PushChecked(s)
    BY <2>5 DEF PushChecked, Ended, Accepted
  <2>6. CASE store_bill_push(s)
    BY <2>6 DEF store_bill_push
  <2>7. CASE PushAnswered(s)
    BY <2>7 DEF PushAnswered, Ended
  <2>8. CASE write_last_scrape_success(s)
    BY <2>8 DEF write_last_scrape_success, Ended
  <2> QED
    BY <1>8, <2>1, <2>2, <2>3, <2>4, <2>5, <2>6, <2>7, <2>8 DEF Sync
<1>9. ASSUME NEW s \in Sites, Mutation(s) PROVE MarksOK'
  <2>1. CASE unlink_account(s)
    BY <2>1 DEF unlink_account
  <2>2. CASE delete_credentials(s)
    BY <2>2 DEF delete_credentials
  <2>3. CASE ReadMarks(s)
    BY <2>3 DEF ReadMarks
  <2>4. CASE Unlinked(s)
    <3>1. /\ unlink' = [unlink EXCEPT ![s] = "none"] /\ kept' = [kept EXCEPT ![s] = {}]
          /\ marked' = IF s \in kept[s] THEN kept[s] \ {s} ELSE marked
          /\ UNCHANGED <<data, read, run>>
      BY <2>4 DEF Unlinked, Cleared
    <3>2. Rewritten(s) => s \in data \cup outlived'
      BY <2>4 DEF Unlinked
    <3>3. outlived \subseteq outlived'
      BY <2>4 DEF Unlinked
    <3>4. \A t \in Sites : t # s /\ Good(t) => Good(t)'
      BY <3>1, <3>3
    <3>5. Rewritten(s) => Good(s)'
      BY <3>1, <3>2
    <3>6. \A t \in Sites : run'[t] \in {"stored", "write"} => t \in (data \cup outlived)'
      BY <3>1, <3>3
    <3>7. \A t \in marked' : Good(t)'
      <4>1. s \in marked' => s \in marked \ kept[s]
        BY <3>1
      <4>2. marked' \subseteq marked \cup kept[s]
        BY <3>1
      <4> QED
        BY <3>4, <3>5, <4>1, <4>2 DEF Rewritten
    <3>8. \A x \in Sites : \A t \in read'[x] \cup kept'[x] : Good(t)'
      <4> SUFFICES ASSUME NEW x \in Sites, NEW t \in read'[x] \cup kept'[x] PROVE Good(t)'
        OBVIOUS
      <4>1. t \in read[x] \/ (x # s /\ t \in kept[x])
        BY <3>1
      <4>2. t \in Sites /\ Good(t)
        BY <4>1
      <4> QED
        BY <3>4, <3>5, <4>1, <4>2 DEF Rewritten
    <3> QED
      BY <3>1, <3>4, <3>6, <3>7, <3>8
  <2>5. CASE link_account(s)
    BY <2>5 DEF link_account
  <2>6. CASE Linked(s)
    BY <2>6 DEF Linked, invalidate_queries
  <2> QED
    BY <1>9, <2>1, <2>2, <2>3, <2>4, <2>5, <2>6 DEF Mutation
<1>10. ASSUME NEW s \in Sites, Unlink(s) PROVE MarksOK'
  BY <1>10 DEF Unlink
<1>11. ASSUME NEW s \in Sites, UnlinkFails(s) PROVE MarksOK'
  BY <1>11 DEF UnlinkFails
<1>12. ASSUME NEW s \in Sites, Link(s) PROVE MarksOK'
  BY <1>12 DEF Link
<1>13. ASSUME NEW s \in Sites, EditCredentials(s) PROVE MarksOK'
  BY <1>13 DEF EditCredentials, run_site
<1>14. CASE UNCHANGED vars
  BY <1>14 DEF vars
<1> QED
  BY <1>1, <1>2, <1>3, <1>4, <1>5, <1>6, <1>7, <1>8, <1>9, <1>10, <1>11, <1>12,
     <1>13, <1>14 DEF Next

\* An answer under way is dropped when a link is registered.
LEMMA ListKeeps ==
  ASSUME AccountsTypes, ListOK, [Next]_vars
  PROVE  ListOK'
<1> USE DEF AccountsTypes, ListOK, server, query, device, syncs, mutations, history,
            Running, Unlinking
<1>1. CASE Refetch
  BY <1>1 DEF Refetch
<1>2. CASE list_linked_accounts
  BY <1>2 DEF list_linked_accounts
<1>3. CASE Fetched
  BY <1>3 DEF Fetched
<1>4. CASE BackendReady
  BY <1>4 DEF BackendReady, invalidate_queries
<1>5. CASE SyncEffect
  BY <1>5 DEF SyncEffect, sync_all
<1>6. CASE Foreground
  BY <1>6 DEF Foreground, sync_all
<1>7. CASE NewDay
  BY <1>7 DEF NewDay
<1>8. ASSUME NEW s \in Sites, Sync(s) PROVE ListOK'
  <2>1. CASE StartQueued(s)
    BY <2>1 DEF StartQueued, Taken, run_site
  <2>2. CASE Skipped(s)
    BY <2>2 DEF Skipped, Ended
  <2>3. CASE Announced(s)
    BY <2>3 DEF Announced
  <2>4. CASE Scraped(s)
    BY <2>4 DEF Scraped, Ended
  <2>5. CASE PushChecked(s)
    BY <2>5 DEF PushChecked, Ended, Accepted
  <2>6. CASE store_bill_push(s)
    BY <2>6 DEF store_bill_push
  <2>7. CASE PushAnswered(s)
    BY <2>7 DEF PushAnswered, Ended
  <2>8. CASE write_last_scrape_success(s)
    BY <2>8 DEF write_last_scrape_success, Ended
  <2> QED
    BY <1>8, <2>1, <2>2, <2>3, <2>4, <2>5, <2>6, <2>7, <2>8 DEF Sync
<1>9. ASSUME NEW s \in Sites, Mutation(s) PROVE ListOK'
  <2>1. CASE unlink_account(s)
    BY <2>1 DEF unlink_account
  <2>2. CASE delete_credentials(s)
    BY <2>2 DEF delete_credentials
  <2>3. CASE ReadMarks(s)
    BY <2>3 DEF ReadMarks
  <2>4. CASE Unlinked(s)
    BY <2>4 DEF Unlinked, Cleared, invalidate_queries
  <2>5. CASE link_account(s)
    BY <2>5 DEF link_account
  <2>6. CASE Linked(s)
    BY <2>6 DEF Linked, invalidate_queries
  <2> QED
    BY <1>9, <2>1, <2>2, <2>3, <2>4, <2>5, <2>6 DEF Mutation
<1>10. ASSUME NEW s \in Sites, Unlink(s) PROVE ListOK'
  BY <1>10 DEF Unlink
<1>11. ASSUME NEW s \in Sites, UnlinkFails(s) PROVE ListOK'
  BY <1>11 DEF UnlinkFails
<1>12. ASSUME NEW s \in Sites, Link(s) PROVE ListOK'
  BY <1>12 DEF Link
<1>13. ASSUME NEW s \in Sites, EditCredentials(s) PROVE ListOK'
  BY <1>13 DEF EditCredentials, run_site
<1>14. CASE UNCHANGED vars
  BY <1>14 DEF vars
<1> QED
  BY <1>1, <1>2, <1>3, <1>4, <1>5, <1>6, <1>7, <1>8, <1>9, <1>10, <1>11, <1>12,
     <1>13, <1>14 DEF Next

LEMMA AccountsStart == Init => AccountsInv
<1> SUFFICES ASSUME Init PROVE AccountsInv
  OBVIOUS
<1>1. AccountsTypes
  BY DEF Init, AccountsTypes, RunPhases, UnlinkPhases
<1>2. Running = {} /\ Unlinking = {}
  BY DEF Init, Running, Unlinking
<1>3. InFlightIsTrue /\ UnlinkedHoldsNothing /\ MarkMeansData /\ CheckedIsLinked
  BY DEF Init, InFlightIsTrue, UnlinkedHoldsNothing, MarkMeansData, CheckedIsLinked
<1>4. MarksOK /\ ListOK
  BY <1>2 DEF Init, MarksOK, Good, ListOK
<1> QED
  BY <1>1, <1>3, <1>4, AccountsTyped DEF AccountsInv, AccountsAgree

LEMMA AccountsKeep == AccountsInv /\ [Next]_vars => AccountsInv'
<1> SUFFICES ASSUME AccountsInv, [Next]_vars PROVE AccountsInv'
  OBVIOUS
<1>1. /\ AccountsTypes /\ InFlightIsTrue /\ UnlinkedHoldsNothing
      /\ CheckedIsLinked /\ MarksOK /\ ListOK
  BY AccountsTyped DEF AccountsInv, AccountsAgree
<1>2. AccountsTypes' /\ TypeOK'
  <2>1. AccountsTypes'
    BY <1>1, AccountsTypesKeep
  <2> QED
    BY <2>1 DEF AccountsTypes, TypeOK
<1>3. InFlightIsTrue'
  BY <1>1, InFlightKeeps
<1>4. CheckedIsLinked' /\ UnlinkedHoldsNothing'
  BY <1>1, CheckedKeeps
<1>5. MarksOK'
  BY <1>1, MarksKeep
<1>6. ListOK'
  BY <1>1, ListKeeps
<1>7. MarkMeansData'
  BY <1>5 DEF MarksOK, Good, MarkMeansData
<1> QED
  BY <1>2, <1>3, <1>4, <1>5, <1>6, <1>7 DEF AccountsInv, AccountsAgree

LEMMA AccountsAlways == Spec => []AccountsInv
BY AccountsStart, AccountsKeep, PTL DEF Spec

\* For any sites, and any number of calls, faults and days: what the portal waits for is
\* under way; data of an unlinked site is data its unlink is at, failed to delete, or was
\* overtaken by a push for; and the mark of a linked site stands for data, or is about to
\* be cleared, or outlived its data in one of the ways MarkMeansData names
\* (useAccounts.ts:263-290, 328-390; Portal.tsx:176-215).
THEOREM AccountsAlwaysAgree == Spec => []AccountsAgree
BY AccountsAlways, PTL DEF AccountsInv

\* A site that the resident has linked and the server still has never leaves the phone's
\* list: an answer that does not know of it is dropped (useAccounts.ts:246-261).
THEOREM LinksStayListed == Spec => ListKeepsLinks
<1> DEFINE Kept == cache \cap linked \cap registered \cap registered' \subseteq cache'
<1>1. AccountsInv /\ [Next]_vars => [Kept]_vars
  <2> SUFFICES ASSUME AccountsInv, [Next]_vars PROVE [Kept]_vars
    OBVIOUS
  <2>1. AccountsTypes /\ ListOK
    BY AccountsTyped DEF AccountsInv, AccountsAgree
  <2>2. CASE UNCHANGED cache
    BY <2>2
  <2>3. CASE Fetched
    BY <2>1, <2>3 DEF Fetched, ListOK
  <2>4. ASSUME NEW s \in Sites, Unlinked(s) PROVE Kept
    <3>1. s \in Unlinking /\ cache' = cache \ {s}
      BY <2>4 DEF Unlinked, Unlinking
    <3> QED
      BY <2>1, <3>1 DEF ListOK
  <2>5. ASSUME NEW s \in Sites, Linked(s) PROVE Kept
    BY <2>5 DEF Linked
  <2>6. \/ UNCHANGED cache \/ Fetched
        \/ \E s \in Sites : Unlinked(s) \/ Linked(s)
    <3> USE DEF server, query, device, syncs, mutations, history
    <3>1. ASSUME NEW s \in Sites, Sync(s) PROVE UNCHANGED cache
      BY <3>1 DEF Sync, StartQueued, Skipped, Announced, Scraped, PushChecked, store_bill_push,
                  PushAnswered, write_last_scrape_success
    <3>2. ASSUME NEW s \in Sites, Mutation(s), ~Unlinked(s), ~Linked(s) PROVE UNCHANGED cache
      BY <3>2 DEF Mutation, unlink_account, delete_credentials, ReadMarks, link_account
    <3> QED
      BY <3>1, <3>2 DEF Next, vars, Refetch, list_linked_accounts, BackendReady, SyncEffect,
        Foreground, NewDay, Unlink, UnlinkFails, Link, EditCredentials
  <2> QED
    BY <2>2, <2>3, <2>4, <2>5, <2>6
<1> QED
  BY <1>1, AccountsAlways, PTL DEF ListKeepsLinks, Spec

-----------------------------------------------------------------------------
(* Notification opt-ins *)

Known == chosen \cup {default_preferences}
KnownRecords == {Null} \cup {<<p>> : p \in Known}

\* What the phone holds or has under way was all asked for, or is the default:
\* without the copies, what is stored next would be unknown.
OptInsInv ==
  /\ OptInsTypeOK
  /\ registration \in KnownRecords
  /\ persisted \in KnownRecords
  /\ phone.incoming \in KnownRecords
  /\ phone.preferences_ref \in Known
  /\ live.state # "over" => live.body \in Known
  /\ \A p \in Preferences : strays[p] > 0 => p \in Known

LEMMA OptInsStart == OptInsInit => OptInsInv
<1> SUFFICES ASSUME OptInsInit PROVE OptInsInv
  OBVIOUS
<1> USE OptInsAssumption DEF OptInsInit
<1>1. phone \in Phones /\ phone.incoming = Null /\ phone.preferences_ref = Types
  BY DEF opened, Phones, Records, Preferences, default_preferences
<1>2. live \in Calls /\ live.state = "over"
  BY DEF Calls, Preferences
<1>3. strays \in [Preferences -> 0..MaxStrays] /\ \A p \in Preferences : ~(strays[p] > 0)
  OBVIOUS
<1>4. OptInsTypeOK
  BY <1>1, <1>2, <1>3 DEF OptInsTypeOK, Records
<1> QED
  BY <1>1, <1>2, <1>3, <1>4 DEF OptInsInv, KnownRecords, Known, default_preferences

LEMMA StrayTypes ==
  ASSUME OptInsInv, AbortLive
  PROVE /\ strays' \in [Preferences -> 0..MaxStrays]
        /\ \A p \in Preferences : strays'[p] > 0 => p \in Known
BY OptInsAssumption DEF OptInsInv, OptInsTypeOK, AbortLive, Abandon, Calls

LEMMA OptInsKeep == OptInsInv /\ [OptInsNext]_opt_ins_vars => OptInsInv'
<1> SUFFICES ASSUME OptInsInv, [OptInsNext]_opt_ins_vars PROVE OptInsInv'
  OBVIOUS
<1> USE OptInsAssumption DEF OptInsInv, OptInsTypeOK, KnownRecords
<1>1. CASE PostStores
  BY <1>1 DEF PostStores, upserted, Records, Known, Calls
<1>2. CASE PostAccepted
  BY <1>2 DEF PostAccepted, Known, Calls
<1>3. CASE PostFails
  <2>1. live' \in Calls /\ live'.body = live.body
    BY <1>3 DEF PostFails, Calls
  <2> QED
    BY <1>3, <2>1, StrayTypes DEF PostFails, Known
<1>4. CASE Retry
  BY <1>4 DEF Retry, Known, Calls
<1>5. ASSUME NEW p \in Preferences, StrayStores(p) PROVE OptInsInv'
  <2>1. strays' \in [Preferences -> 0..MaxStrays]
    BY <1>5 DEF StrayStores
  <2>2. \A q \in Preferences : strays'[q] > 0 => q \in Known
    BY <1>5 DEF StrayStores
  <2>3. live' \in Calls /\ live'.body = live.body /\ live'.state = live.state
    BY <1>5 DEF StrayStores, Calls
  <2> QED
    BY <1>5, <2>1, <2>2, <2>3 DEF StrayStores, upserted, Records, Known
<1>6. ASSUME NEW p \in Preferences, StrayIsLost(p) PROVE OptInsInv'
  BY <1>6 DEF StrayIsLost, Known
<1>7. CASE Open
  BY <1>7 DEF Open, opened, Phones, Records, Preferences, Known, default_preferences, Null
<1>8. CASE Close
  <2>1. phone' \in Phones /\ phone'.incoming = Null /\ phone'.preferences_ref = Types
    BY <1>8 DEF Close, opened, Phones, Records, Preferences, default_preferences
  <2>2. live' \in Calls /\ live'.state = "over"
    BY <1>8 DEF Close, Calls
  <2> QED
    BY <1>8, <2>1, <2>2, StrayTypes DEF Close, Known, default_preferences
<1>9. CASE Grant
  <2>1. phone' \in Phones /\ phone'.incoming = phone.incoming
          /\ phone'.preferences_ref = phone.preferences_ref
    BY <1>9 DEF Grant, Phones
  <2>2. /\ registers' \in 0..MaxRegisters /\ AbortLive
        /\ live' \in Calls /\ live'.body = phone.preferences_ref
    BY <1>9 DEF Grant, register, Calls, Phones
  <2> QED
    BY <1>9, <2>1, <2>2, StrayTypes DEF Grant, Known
<1>10. CASE Deny
  BY <1>10 DEF Deny, Phones, Known
<1>11. CASE QueryReads
  BY <1>11 DEF QueryReads, Phones, Known
<1>12. CASE DataArrives
  <2>1. PICK p \in Known : phone.incoming = <<p>>
    BY <1>12 DEF DataArrives
  <2>2. phone.incoming[1] = p /\ p \in Preferences
    BY <2>1 DEF Known, Preferences, default_preferences
  <2>3. phone' \in Phones /\ phone'.incoming = Null
    BY <1>12, <2>1, <2>2 DEF DataArrives, Phones, Records
  <2>4. phone'.preferences_ref \in Known
    BY <1>12, <2>1, <2>2 DEF DataArrives, Phones
  <2>5. persisted' \in KnownRecords /\ persisted' \in Records
    BY <1>12 DEF DataArrives, Phones
  <2> QED
    BY <1>12, <2>3, <2>4, <2>5 DEF DataArrives, Known
<1>13. ASSUME NEW push_enabled \in BOOLEAN, NEW enabled \in Preferences,
              SetPreferences(push_enabled, enabled)
       PROVE OptInsInv'
  <2> DEFINE next == [phone EXCEPT !.push_enabled = push_enabled, !.enabled = enabled]
             prefs == to_push_prefs(next)
  <2>1. next \in Phones /\ next.incoming = phone.incoming
    BY DEF Phones
  <2>2. prefs \in Preferences
    BY <2>1 DEF to_push_prefs, Phones, Preferences
  <2>3. /\ phone' = [next EXCEPT !.preferences_ref = prefs]
        /\ register(prefs, IF phone.prefs_loaded THEN "choice" ELSE "early")
        /\ chosen' = chosen \cup {prefs}
        /\ UNCHANGED <<registration, persisted>>
    BY <1>13 DEF SetPreferences
  <2> HIDE DEF next, prefs
  <2>4. phone' \in Phones /\ phone'.incoming = phone.incoming
          /\ phone'.preferences_ref = prefs
    BY <2>1, <2>2, <2>3 DEF Phones
  <2>5. /\ registers' \in 0..MaxRegisters /\ AbortLive
        /\ live' \in Calls /\ live'.body = prefs
    BY <2>2, <2>3 DEF register, Calls
  <2>6. prefs \in Known' /\ Known \subseteq Known'
    BY <2>3 DEF Known, default_preferences
  <2>7. chosen' \subseteq Preferences
    BY <2>2, <2>3
  <2> QED
    BY <2>2, <2>3, <2>4, <2>5, <2>6, <2>7, StrayTypes
<1>14. CASE TogglePush
  <2>1. (~phone.push_enabled) \in BOOLEAN /\ phone.enabled \in Preferences
    BY DEF Phones
  <2> QED
    BY <1>13, <1>14, <2>1 DEF TogglePush
<1>15. ASSUME NEW t \in Types, ToggleType(t) PROVE OptInsInv'
  <2> DEFINE enabled == IF t \in phone.enabled THEN phone.enabled \ {t}
                        ELSE phone.enabled \cup {t}
  <2>1. phone.push_enabled \in BOOLEAN /\ phone.enabled \in Preferences
    BY DEF Phones
  <2>2. enabled \in Preferences
    BY <2>1 DEF Preferences
  <2>3. SetPreferences(phone.push_enabled, enabled)
    BY <1>15 DEF ToggleType
  <2> QED
    BY <1>13, <2>1, <2>2, <2>3
<1>16. CASE UNCHANGED opt_ins_vars
  BY <1>16 DEF opt_ins_vars, Known
<1> QED
  BY <1>1, <1>2, <1>3, <1>4, <1>5, <1>6, <1>7, <1>8, <1>9, <1>10, <1>11, <1>12,
     <1>14, <1>15, <1>16 DEF OptInsNext

LEMMA OptInsAlways == OptInsSpec => []OptInsInv
BY OptInsStart, OptInsKeep, PTL DEF OptInsSpec

\* The phone's state, the row and the requests under way keep their types.
THEOREM OptInsTypesKept == OptInsSpec => []OptInsTypeOK
BY OptInsAlways, PTL DEF OptInsInv

\* However requests are aborted, retried and handled late, and however old the
\* reads and caches are, a stored row is the default or a choice of the
\* resident (useNotifications.ts, Portal.tsx).
THEOREM OptInsNotInvented == OptInsSpec => []NothingInvented
<1>1. OptInsInv => NothingInvented
  BY DEF OptInsInv, NothingInvented, Known, KnownRecords, Null
<1> QED
  BY <1>1, OptInsAlways, PTL
=============================================================================
