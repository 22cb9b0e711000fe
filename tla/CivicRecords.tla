----------------------------- MODULE CivicRecords -----------------------------
(***************************************************************************)
(* ap-civic's address-derived records: the council member, the areas and   *)
(* the collection days of an address.  A visit resolves the four of them   *)
(* side by side, each failing on its own.  Opening the app visits the      *)
(* resident's own address; the scheduled warm pass visits every saved and  *)
(* every resolved one, one after the other.  Visits overlap.               *)
(*                                                                         *)
(* Data abstraction: what the city says of an address is the number of     *)
(* times it changed.  gis_reader never looks at the status of an answer    *)
(* (fetch.ts:90-103), so that a page that reports an error is parsed like  *)
(* any other, and what is stored of it is Blank.                           *)
(***************************************************************************)
EXTENDS Integers, FiniteSets, SequencesExt, FiniteSetsExt

CONSTANTS Addresses, NoAddress, Residents, Kinds,
          Warms, Openings,         \* the warm passes and the app-open refreshes there may be at once
          MaxVersion, MaxMishaps   \* bounds of the model

Visits == Warms \cup Openings

ASSUME AddressesAssumption ==
  /\ NoAddress \notin Addresses /\ Kinds # {}
  /\ MaxVersion \in Nat \ {0} /\ MaxMishaps \in Nat

Missing == -1
Blank == 0

VARIABLES
  home,      \* resident_profile.street
  version,   \* what the city says now
  dead,      \* the sources that do not answer any more
  record,    \* civic_resolved
  visit,     \* the visits under way
  mishaps

\* What a record is made of, in the order it is asked for.
Sources(kind) ==
  CASE kind = "find_my_rep" -> <<"gis", "page">>
    [] kind = "collection_schedule" -> <<"page">>
    [] OTHER -> <<"gis">>

\* A job asks its sources in turn, and is as good as the worst of its answers.
Job == [step: Nat, got: Blank..MaxVersion]
Done == [step |-> 0, got |-> Blank]
Away == [todo |-> {}, at |-> NoAddress, jobs |-> [k \in Kinds |-> Done]]

records_vars == <<home, version, dead, record, visit, mishaps>>

RecordsEmpty ==
  /\ version = 1 /\ dead = {} /\ mishaps = 0
  /\ home = [r \in Residents |-> NoAddress]
  /\ record = [a \in Addresses |-> [k \in Kinds |-> Missing]]
  /\ visit = [v \in Visits |-> Away]

RecordsInit ==
  /\ version = 1 /\ mishaps = 0
  /\ dead \in SUBSET {"gis", "page"}
  /\ home \in [Residents -> Addresses \cup {NoAddress}]
  /\ record = [a \in Addresses |-> [k \in Kinds |-> Missing]]
  /\ visit = [v \in Visits |-> Away]

-----------------------------------------------------------------------------
Mishap == mishaps < MaxMishaps /\ mishaps' = mishaps + 1

CityChanges ==
  /\ version < MaxVersion /\ version' = version + 1
  /\ UNCHANGED <<home, dead, record, visit, mishaps>>

\* saveProfile; nothing is resolved for the new address by it.
ResidentMoves ==
  /\ Mishap
  /\ \E r \in Residents, a \in Addresses : home[r] # a /\ home' = [home EXCEPT ![r] = a]
  /\ UNCHANGED <<version, dead, record, visit>>

RecordsRestart ==
  /\ Mishap
  /\ visit' = [v \in Visits |-> Away]
  /\ UNCHANGED <<home, version, dead, record>>

list_resident_addresses == {home[r] : r \in Residents} \ {NoAddress}

list_resolved_addresses == {a \in Addresses : \E k \in Kinds : record[a][k] # Missing}

Seeds == list_resident_addresses \cup list_resolved_addresses

warm_collection_schedule(v) ==
  /\ visit[v] = Away
  /\ visit' = [visit EXCEPT ![v].todo = Seeds]
  /\ UNCHANGED <<home, version, dead, record, mishaps>>

refresh_address_data(v) ==
  /\ visit[v] = Away
  /\ \E a \in list_resident_addresses : visit' = [visit EXCEPT ![v].todo = {a}]
  /\ UNCHANGED <<home, version, dead, record, mishaps>>

resolve_address_data(v) ==
  /\ visit[v].at = NoAddress
  /\ \E a \in visit[v].todo :
       visit' = [visit EXCEPT ![v] =
         [todo |-> visit[v].todo \ {a}, at |-> a,
          jobs |-> [k \in Kinds |-> [step |-> 1, got |-> MaxVersion]]]]
  /\ UNCHANGED <<home, version, dead, record, mishaps>>

\* Faulty variant for mutation: a failed job fails the visit, and with it the pass.
AfterThrow_ends(todo) == {}

\* Each job is caught: the pass goes on.
AfterThrow(todo) == todo

\* The visit's job is over; the last one ends the visit of the address.
Ended(v, kind, todo) ==
  LET jobs == [visit[v].jobs EXCEPT ![kind] = Done]
  IN  visit' = [visit EXCEPT ![v] =
        [todo |-> todo, jobs |-> jobs,
         at |-> IF \A k \in Kinds : jobs[k] = Done THEN NoAddress ELSE @.at]]

Ask(v, kind) ==
  LET job == visit[v].jobs[kind]
      source == Sources(kind)[job.step]
  IN  /\ job.step \in DOMAIN Sources(kind)
      /\ \/ /\ source \notin dead
            /\ \E answer \in {Blank, version} :
                 /\ IF answer = Blank THEN Mishap ELSE UNCHANGED mishaps
                 /\ visit' = [visit EXCEPT ![v].jobs[kind] =
                      [step |-> job.step + 1, got |-> Min({job.got, answer})]]
         \/ /\ IF source \in dead THEN UNCHANGED mishaps ELSE Mishap
            /\ Ended(v, kind, AfterThrow(visit[v].todo))
      /\ UNCHANGED <<home, version, dead, record>>

Upsert(v, kind) ==
  /\ visit[v].jobs[kind].step = Len(Sources(kind)) + 1
  /\ record' = [record EXCEPT ![visit[v].at][kind] = visit[v].jobs[kind].got]
  /\ Ended(v, kind, visit[v].todo)
  /\ UNCHANGED <<home, version, dead, mishaps>>

VisitStep(v) ==
  \/ v \in Warms /\ warm_collection_schedule(v)
  \/ resolve_address_data(v)
  \/ \E k \in Kinds : Ask(v, k) \/ Upsert(v, k)

RecordsNext ==
  \/ CityChanges \/ ResidentMoves \/ RecordsRestart
  \/ \E v \in Openings : refresh_address_data(v)
  \/ \E v \in Visits : VisitStep(v)

\* The timer ticks on and requests are answered or fail.
RecordsFairness == \A v \in Visits : WF_records_vars(VisitStep(v))

-----------------------------------------------------------------------------
RecordsTypeOK ==
  /\ home \in [Residents -> Addresses \cup {NoAddress}]
  /\ version \in 1..MaxVersion /\ dead \subseteq {"gis", "page"}
  /\ record \in [Addresses -> [Kinds -> Missing..version]]
  /\ visit \in [Visits -> [todo: SUBSET Addresses, at: Addresses \cup {NoAddress},
                           jobs: [Kinds -> Job]]]
  /\ \A v \in Visits :
       (visit[v].at = NoAddress) <=> \A k \in Kinds : visit[v].jobs[k] = Done

\* "One address or resource failing never stops the rest of the warm pass"
\* (service.ts:372-373): whatever source never answers again, and whatever blank or
\* outdated answer was stored, every record of every address that is saved or
\* was ever resolved is current again and again, if its own sources answer.
RecordsCatchUp ==
  \A a \in Addresses, k \in Kinds :
    []<>(/\ a \in list_resident_addresses \cup list_resolved_addresses
         /\ ToSet(Sources(k)) \cap dead = {}
         => record[a][k] = version)
=============================================================================
