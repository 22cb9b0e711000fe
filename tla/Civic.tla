-------------------------------- MODULE Civic --------------------------------
(***************************************************************************)
(* ap-civic's scheduled work: run_scheduled_fetch's three sources.  They   *)
(* share no row and no await, so that what they do together is what each   *)
(* does alone: a behaviour is the history of one of them.                  *)
(***************************************************************************)
EXTENDS CivicFetch, CivicRecords

vars == <<fetch_vars, records_vars>>

Init ==
  \/ FetchInit /\ RecordsEmpty
  \/ FetchEmpty /\ source = "collection_schedule" /\ RecordsInit

run_scheduled_fetch ==
  \/ source \in {"city_alerts", "city_events"} /\ FetchNext /\ UNCHANGED records_vars
  \/ source = "collection_schedule" /\ RecordsNext /\ UNCHANGED fetch_vars

Spec == Init /\ [][run_scheduled_fetch]_vars /\ FetchFairness /\ RecordsFairness

\* Of the right types, and nobody is left out of an alert (service.ts:307-316).
CivicSound == FetchTypeOK /\ RecordsTypeOK /\ StoredIsTold

\* Whatever fails, what the city lists and what it knows of an address get stored
\* again and again, each without the other (service.ts:134-143, 290, 371-375).
CivicCatchesUp == ListedGetsStored /\ RecordsCatchUp
=============================================================================
