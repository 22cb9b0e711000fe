----------------------------- MODULE Backend_proofs -----------------------------
(***************************************************************************)
(* The circuit breaker, for any set of calls and any threshold; the answer *)
(* to a request, whose every claim is true of what was done, for any       *)
(* residents and any number of tools a turn calls, whenever the token      *)
(* expires; the stores, whose two adapters agree as far as they do, for    *)
(* any owners, sites and ids; and the end of the process, which leaves     *)
(* none of its sidecars up, however many there are.                        *)
(***************************************************************************)
EXTENDS Backend, FiniteSetTheorems, WellFoundedInduction, TLAPS

-----------------------------------------------------------------------------
(* The circuit breaker by itself: Spec is CircuitBreaker's. *)

\* The fields of the breaker keep their types.
THEOREM TypeCorrect == Spec => []TypeOK
<1> USE ThresholdAssumption
<1>1. Init => TypeOK
  BY DEF Init, TypeOK, Breakers
<1>2. TypeOK /\ [Next]_vars => TypeOK'
  <2> SUFFICES ASSUME TypeOK, [Next]_vars
               PROVE  TypeOK'
    OBVIOUS
  <2> USE DEF TypeOK, Breakers
  <2>1. CASE RecoveryWindowElapses
    BY <2>1 DEF RecoveryWindowElapses
  <2>2. ASSUME NEW c \in Calls, Admit(c)
        PROVE  TypeOK'
    BY <2>2 DEF Admit, after_allow
  <2>3. ASSUME NEW c \in Calls, Refuse(c)
        PROVE  TypeOK'
    BY <2>3 DEF Refuse, vars
  <2>4. ASSUME NEW c \in Calls, Succeed(c)
        PROVE  TypeOK'
    <3>1. breaker' \in Breakers
      <4>1. breaker' = [state |-> "closed", consecutive_failures |-> 0,
                        probe_in_flight |-> FALSE, recovered |-> FALSE]
        BY <2>4 DEF Succeed, after_success
      <4> QED
        BY <4>1
    <3>2. call' \in [Calls -> {"idle", "normal", "probe"}]
      BY <2>4 DEF Succeed
    <3> QED
      BY <3>1, <3>2
  <2>5. ASSUME NEW c \in Calls, FailTransient(c)
        PROVE  TypeOK'
    <3>1. failures_plus_one(breaker) \in 0..Threshold
      BY DEF failures_plus_one
    <3>2. after_failure(breaker) \in Breakers
      BY <3>1 DEF after_failure
    <3> QED
      BY <2>5, <3>2 DEF FailTransient
  <2>6. ASSUME NEW c \in Calls, FailOther(c)
        PROVE  TypeOK'
    BY <2>6 DEF FailOther
  <2>7. CASE UNCHANGED vars
    BY <2>7 DEF vars
  <2> QED
    BY <2>1, <2>2, <2>3, <2>4, <2>5, <2>6, <2>7 DEF Next
<1> QED
  BY <1>1, <1>2, PTL DEF Spec

\* The breaker's fields never contradict each other, in whatever order the
\* calls it let in settle: FieldsAgree is inductive on top of the types.
THEOREM FieldsAlwaysAgree == Spec => []FieldsAgree
<1> USE ThresholdAssumption
<1>1. Init => FieldsAgree
  BY DEF Init, FieldsAgree
<1>2. TypeOK /\ FieldsAgree /\ [Next]_vars => FieldsAgree'
  <2> SUFFICES ASSUME TypeOK, FieldsAgree, [Next]_vars
               PROVE  FieldsAgree'
    OBVIOUS
  <2> USE DEF TypeOK, Breakers, FieldsAgree
  <2>1. CASE RecoveryWindowElapses
    BY <2>1 DEF RecoveryWindowElapses, is_open
  <2>2. ASSUME NEW c \in Calls, Admit(c)
        PROVE  FieldsAgree'
    BY <2>2 DEF Admit, allow, after_allow
  <2>3. ASSUME NEW c \in Calls, Refuse(c)
        PROVE  FieldsAgree'
    BY <2>3 DEF Refuse, vars
  <2>4. ASSUME NEW c \in Calls, Succeed(c)
        PROVE  FieldsAgree'
    BY <2>4 DEF Succeed, after_success
  <2>5. ASSUME NEW c \in Calls, FailTransient(c)
        PROVE  FieldsAgree'
    BY <2>5 DEF FailTransient, after_failure, failures_plus_one
  <2>6. ASSUME NEW c \in Calls, FailOther(c)
        PROVE  FieldsAgree'
    BY <2>6 DEF FailOther
  <2>7. CASE UNCHANGED vars
    BY <2>7 DEF vars
  <2> QED
    BY <2>1, <2>2, <2>3, <2>4, <2>5, <2>6, <2>7 DEF Next
<1> QED
  BY <1>1, <1>2, TypeCorrect, PTL DEF Spec

\* A probe is let in only after a full recovery window, and letting it in
\* shuts everyone else out until a result is reported.
THEOREM ProbesUseUpWindows == Spec => ProbeUsesUpWindow
<1> DEFINE P == \A c \in Calls : (call[c] = "idle" /\ call'[c] = "probe") =>
                  /\ breaker.state = "open" /\ breaker.recovered
                  /\ ~allow(breaker')
<1>1. TypeOK /\ FieldsAgree /\ [Next]_vars => [P]_vars
  <2> SUFFICES ASSUME TypeOK, FieldsAgree, Next,
                      NEW d \in Calls, call[d] = "idle", call'[d] = "probe"
               PROVE  /\ breaker.state = "open" /\ breaker.recovered
                      /\ ~allow(breaker')
    OBVIOUS
  <2> USE DEF TypeOK, Breakers
  <2>1. PICK c \in Calls : Admit(c)
    BY DEF Next, RecoveryWindowElapses, Refuse, vars, Succeed, FailTransient,
           FailOther
  <2>2. breaker.state # "closed" /\ breaker' = after_allow(breaker)
    BY <2>1 DEF Admit
  <2>3. breaker.state = "open" /\ breaker.recovered
    BY <2>1, <2>2 DEF Admit, allow, FieldsAgree
  <2> QED
    BY <2>2, <2>3 DEF after_allow, allow
<1> QED
  BY <1>1, TypeCorrect, FieldsAlwaysAgree, PTL DEF Spec, ProbeUsesUpWindow

-----------------------------------------------------------------------------
(* The way of a request. *)

Before == {"arrived", "verified", "streaming", "serving"}
InTurn == {"turn", "tool", "agent_request"}
Stages == Before \cup InTurn \cup {"answered"}

\* Until a request is past its token nothing was done; past it the token is a
\* resident's, though it may have expired since.  A turn's tool is one there is,
\* and what a turn shows of its tools was done by then.
Inv ==
  /\ path \in Paths /\ stage \in Stages
  /\ stage = "arrived" => acts = {}
  /\ stage \in {"verified", "streaming", "serving"} => acts = {} /\ path \notin {voice, health}
  /\ stage = "serving" => path \notin Held \cup {query}
  /\ stage = "streaming" => path = query
  /\ stage \in {"verified", "serving"} \cup InTurn => token \in Residents
  /\ stage \in InTurn => path \in {query, voice}
  /\ stage \in {"tool", "agent_request"} => tool \in DOMAIN seed_tools
  /\ stage # "answered" => trouble = "none" /\ answer = "none"
  /\ AnswersAgree

LEMMA Tools == ToolsAreKnown
BY DEF ToolsAreKnown, Known, seed_tools, civic_op_to_resource, utility_op_to_resource

LEMMA InitInv == RequestsInit \/ NoRequest => Inv
BY Tools DEF RequestsInit, NoRequest, Paths, Inv, AnswersAgree, TokenFailuresAreTold, WorkIsAccountedFor,
             Stages, Before, InTurn, query, voice, health

\* Whatever a port returns: a source is cited, and a card shown, for what was done.
LEMMA ReturnsAccounted ==
  ASSUME Inv, stage \in {"tool", "agent_request"}, NEW result \in {"data", "error"}, Returns(result),
         acts' = acts \/ Acted(tool), result = "data" => Acted(tool)
  PROVE  Inv'
<1>1. acts \subseteq acts' /\ \A a \in acts' : a.for = token /\ token \in Residents
  BY DEF Inv, AnswersAgree, WorkIsAccountedFor, Acted, InTurn
<1>2. \A t \in cited' : [on |-> t, for |-> token] \in acts'
  BY <1>1 DEF Inv, AnswersAgree, WorkIsAccountedFor, Returns, Provenance, Acted
<1>3. "reminder" \in shown' => [on |-> "set_reminder", for |-> token] \in acts'
  BY <1>1 DEF Inv, AnswersAgree, WorkIsAccountedFor, Returns, Provenance, Card, Acted
<1>4. stage' = "turn" /\ trouble' = "none" /\ answer' = "none" /\ path' = path /\ token' = token
  BY DEF Inv, Returns, asked
<1> QED
  BY <1>1, <1>2, <1>3, <1>4, Tools
  DEF Inv, AnswersAgree, TokenFailuresAreTold, WorkIsAccountedFor, ToolsAreKnown, Stages, Before, InTurn

LEMMA NextInv == Inv /\ [RequestsNext]_request_vars => Inv'
<1> SUFFICES ASSUME Inv, [RequestsNext]_request_vars PROVE Inv'
  OBVIOUS
<1> USE Tools DEF Inv, AnswersAgree, TokenFailuresAreTold, WorkIsAccountedFor, ToolsAreKnown,
                  Stages, Before, InTurn, asked, turn_vars
<1>1. CASE TokenExpires
  BY <1>1 DEF TokenExpires
<1>2. CASE BodyRejected
  BY <1>2 DEF BodyRejected, Answers
<1>3. CASE Health
  BY <1>3 DEF Health, Answers
<1>4. CASE authenticate
  BY <1>4 DEF authenticate, Answers, Goes, Verifies
<1>5. CASE Misread
  BY <1>5 DEF Misread, Answers, query, voice, health
<1>6. CASE route
  BY <1>6 DEF route, Answers, Goes, Forwarded, query, voice, health
<1>7. CASE serve
  <2>1. acts' = acts \/ acts' = {[on |-> path, for |-> token]}
    BY <1>7 DEF serve, Acted, Fail, Answers
  <2>2. answer' \in {"200", "204"} => acts' = {[on |-> path, for |-> token]}
    BY <1>7 DEF serve, Acted, Fail, Answers
  <2>3. stage' = "answered" /\ trouble' # "token" /\ answer' # "401"
    BY <1>7 DEF serve, Acted, Fail, Answers
  <2> QED
    BY <1>7, <2>1, <2>2, <2>3 DEF serve, Fail, Answers
<1>8. CASE InvalidQuery
  BY <1>8 DEF InvalidQuery, Answers
<1>9. CASE QueryVerified
  BY <1>9 DEF QueryVerified, Answers, Goes, Verifies
<1>10. CASE dispatch
  BY <1>10 DEF dispatch, Goes
<1>11. CASE send
  <2>1. CASE acts' = acts /\ Returns("error")
    BY <1>11, <2>1, ReturnsAccounted DEF send
  <2>2. CASE Goes("agent_request") /\ UNCHANGED turn_vars
    BY <1>11, <2>2 DEF send, Goes
  <2> QED
    BY <1>11, <2>1, <2>2 DEF send
<1>12. CASE agent_request
  <2>1. CASE Acted(tool) /\ Returns("data")
    BY <1>12, <2>1, ReturnsAccounted DEF agent_request
  <2>2. CASE (acts' = acts \/ Acted(tool)) /\ Returns("error")
    BY <1>12, <2>2, ReturnsAccounted DEF agent_request
  <2> QED
    BY <1>12, <2>1, <2>2 DEF agent_request
<1>13. CASE TurnEnds
  BY <1>13 DEF TurnEnds, Answers
<1>14. CASE UNCHANGED request_vars
  BY <1>14 DEF request_vars
<1> QED
  BY <1>1, <1>2, <1>3, <1>4, <1>5, <1>6, <1>7, <1>8, <1>9, <1>10, <1>11, <1>12, <1>13, <1>14
  DEF RequestsNext, RequestStep

\* A token that fails is told as such, with nothing done; an answer without error,
\* a source and a card stand for what was done, for the resident of the token; and
\* the ports know every tool: at every moment of every request.
THEOREM AnswersAlwaysAgree == BackendSpec => []AnswersAgree
<1>1. BackendInit => Inv
  BY InitInv DEF BackendInit
<1>2. [BackendNext]_backend_vars => [RequestsNext]_request_vars
  BY DEF BackendNext, backend_vars, request_vars
<1>3. Inv => AnswersAgree
  BY DEF Inv
<1> QED
  BY <1>1, <1>2, <1>3, NextInv, PTL DEF BackendSpec

-----------------------------------------------------------------------------
(* The stores. *)

\* Only of outages may the adapters differ.
StoresInv ==
  /\ StoresTypeOK /\ FallbackAgrees /\ LastBillAgrees
  /\ table # "utility_outage" => apart = {}

\* The tables of which the adapters hold the same.
Alike == table \notin {"utility_bill", "utility_usage", "utility_outage"}

LEMMA Same ==
  ASSUME StoresInv, Alike
  PROVE  rows = entries /\ rows \subseteq Rows(table)
<1>1. \A o \in Owners : Of(rows, o) = Of(entries, o)
  BY DEF StoresInv, Alike, FallbackAgrees
<1>2. rows \subseteq Rows(table) /\ entries \subseteq Rows(table)
  BY DEF StoresInv, StoresTypeOK
<1>3. \A r \in Rows(table) : r.owner \in Owners
  BY DEF Rows
<1>4. \A r \in Rows(table) : r \in rows <=> r \in entries
  BY <1>1, <1>3 DEF Of
<1> QED
  BY <1>2, <1>4

\* Records of one table are the same if their columns are.
LEMMA Columns ==
  ASSUME NEW t, NEW r \in Rows(t), NEW s \in Rows(t),
         r.owner = s.owner, r.site = s.site, r.id = s.id, r.value = s.value
  PROVE  r = s
BY DEF Rows

\* The keys of the tables.
LEMMA Keys ==
  ASSUME NEW r, NEW s
  PROVE  /\ table \in {"civic_entry", "civic_resolved"} =>
              (SameKey(r, s) <=> r.owner = s.owner /\ r.site = s.site /\ r.id = s.id)
         /\ table \in {"utility_bill", "linked_account"} =>
              (SameKey(r, s) <=> r.owner = s.owner /\ r.site = s.site)
         /\ table \in {"civic_alert_dismissal", "utility_usage", "utility_outage",
                       "reminders_reminder"} =>
              (SameKey(r, s) <=> r.owner = s.owner /\ r.id = s.id)
         /\ table \in {"resident_profile", "notifications_registration"} =>
              (SameKey(r, s) <=> r.owner = s.owner)
BY DEF SameKey, PrimaryKey

\* What the records of a table have in common.
LEMMA Blanks ==
  ASSUME NEW r \in Rows(table), NEW s \in Rows(table)
  PROVE  /\ table \notin Sited => r.site = s.site
         /\ table \in Unnamed => r.id = s.id
         /\ table \in {"utility_usage", "civic_alert_dismissal"} => r.value = s.value
         /\ table # "utility_outage" => r.value \in 0..1 /\ s.value \in 0..1
<1>1. table \notin Sited => r.site = s.site
  BY DEF Rows, Any
<1>2. table \in Unnamed => r.id = s.id
  BY DEF Rows, Any
<1>3. r.value \in Values(table) /\ s.value \in Values(table)
  BY DEF Rows
<1>4. 0 \in 0..1
  OBVIOUS
<1> QED
  BY <1>1, <1>2, <1>3, <1>4 DEF Values

LEMMA Both ==
  ASSUME StoresInv, Alike, table' = table, apart' = apart,
         rows' \subseteq Rows(table), entries' = rows'
  PROVE  StoresInv'
<1>1. Rows(table)' = Rows(table)
  BY DEF Rows, Values
<1> QED
  BY <1>1 DEF Alike, StoresInv, StoresTypeOK, FallbackAgrees, LastBillAgrees

\* The lists of a call hold records of its owner, and of its site if the table has sites.
LEMMA Listed ==
  ASSUME NEW o \in Owners, NEW s \in (IF table \in Sited THEN Sites ELSE Any(Sites)),
         NEW list \in Lists(table, o, s), table \notin Unnamed
  PROVE  list \subseteq Rows(table) /\ \A r \in list : r.owner = o /\ r.site = s
<1> DEFINE records(ids, v) == {[owner |-> o, site |-> s, id |-> i, value |-> v[i]] : i \in ids}
           lists(ids) == {records(ids, v) : v \in [ids -> Values(table)]}
<1>1. list \in UNION {lists(ids) : ids \in SUBSET Ids}
  BY DEF Lists
<1> HIDE DEF lists
<1> PICK ids \in SUBSET Ids : list \in lists(ids)
  BY <1>1
<1> USE DEF lists
<1> PICK v \in [ids -> Values(table)] : list = records(ids, v)
  OBVIOUS
<1> QED
  BY DEF Rows

LEMMA StoresInitInv == StoresInit => StoresInv
BY DEF StoresInit, StoresInv, StoresTypeOK, FallbackAgrees, LastBillAgrees, OfSite

LEMMA CivicStores == ASSUME StoresInv, InsertEntries \/ PruneEntries \/ UpsertResolved PROVE StoresInv'
<1>0. Alike /\ table' = table /\ apart' = apart
  BY DEF Alike, InsertEntries, PruneEntries, UpsertResolved, On
<1>1. rows = entries /\ rows \subseteq Rows(table)
  BY <1>0, Same
<1>2. CASE InsertEntries
  <2> PICK o \in Owners, s \in Sites : \E new \in Lists(table, o, s) :
         /\ ~\E n \in new, r \in rows : SameKey(n, r)
         /\ rows' = insert_civic(new)
         /\ entries' = memory_insert_entries(new)
    BY <1>2 DEF InsertEntries
  <2> PICK new \in Lists(table, o, s) :
         /\ ~\E n \in new, r \in rows : SameKey(n, r)
         /\ rows' = insert_civic(new)
         /\ entries' = memory_insert_entries(new)
    OBVIOUS
  <2>1. table = "civic_entry" /\ new \subseteq Rows(table)
    BY <1>2, Listed DEF InsertEntries, On, Sited, Unnamed
  <2>2. rows' = rows \cup new
    BY <2>1, Keys DEF insert_civic, insert
  <2>3. entries' = rows \cup new
    BY <1>1, <2>1, Keys DEF memory_insert_entries, map_set
  <2> QED
    BY <1>1, <2>1, <2>2, <2>3, <1>0, Both
<1>3. CASE PruneEntries
  <2> PICK o \in Owners, s \in Sites, cutoff \in 0..2 :
         /\ rows' = prune_older_than(o, s, cutoff)
         /\ entries' = memory_prune_older_than(o, s, cutoff)
    BY <1>3 DEF PruneEntries
  <2>1. table = "civic_entry"
    BY <1>3 DEF PruneEntries, On
  <2>2. \A r \in rows : r.value \in Nat /\ (~(r.value < cutoff) <=> r.value >= cutoff)
    <3>1. \A r \in rows : r.value \in 0..1
      BY <1>1, <2>1, Blanks
    <3> QED
      BY <3>1
  <2>3. rows' = entries' /\ rows' \subseteq rows
    BY <1>1, <2>2 DEF prune_older_than, memory_prune_older_than, OfSite
  <2> QED
    BY <1>1, <2>1, <2>3, <1>0, Both
<1>4. CASE UpsertResolved
  <2> PICK row \in Rows(table) :
        rows' = upsert_resolved(row) /\ entries' = memory_upsert_resolved(row)
    BY <1>4 DEF UpsertResolved
  <2>1. table = "civic_resolved"
    BY <1>4 DEF UpsertResolved, On
  <2>2. rows' = entries' /\ rows' \subseteq Rows(table)
    BY <1>1, <2>1, Keys DEF upsert_resolved, upsert, memory_upsert_resolved, map_set
  <2> QED
    BY <1>1, <2>1, <2>2, <1>0, Both
<1> QED
  BY <1>2, <1>3, <1>4

LEMMA DismissalStores == ASSUME StoresInv, Dismissal PROVE StoresInv'
<1>1. table = "civic_alert_dismissal" /\ table' = table /\ apart' = apart
  BY DEF Dismissal, On
<1>2. rows = entries /\ rows \subseteq Rows(table)
  BY <1>1, Same DEF Alike
<1> PICK row \in Rows(table) :
       \/ rows' = insert_alert_dismissal(row) /\ entries' = memory_dismissals_add(row)
       \/ /\ rows' = delete_alert_dismissal(row.owner, row.id)
          /\ entries' = memory_dismissals_delete(row.owner, row.id)
  BY DEF Dismissal
\* The row in the way of an INSERT is the same row.
<1>3. \A r \in rows : SameKey(r, row) => r = row
  <2> SUFFICES ASSUME NEW r \in rows, SameKey(r, row) PROVE r = row
    OBVIOUS
  <2>1. r \in Rows(table) /\ r.owner = row.owner /\ r.id = row.id
    BY <1>1, <1>2, Keys
  <2>2. r.site = row.site /\ r.value = row.value
    BY <1>1, <2>1, Blanks DEF Sited
  <2> QED
    BY <2>1, <2>2, Columns
<1>4. rows' = entries' /\ rows' \subseteq Rows(table)
  BY <1>2, <1>3 DEF insert_alert_dismissal, insert, memory_dismissals_add,
     delete_alert_dismissal, memory_dismissals_delete, Named
<1> QED
  BY <1>1, <1>4, Both DEF Alike

\* Of an owner whose outages the adapters agree on, a push without an undated one and
\* a prune without one whose digits mislead leave the same; others are left alone.
LEMMA OutageStores == ASSUME StoresInv, Outages PROVE StoresInv'
<1>1. table = "utility_outage" /\ table' = table
  BY DEF Outages
<1>2. /\ rows \subseteq Rows(table) /\ entries \subseteq Rows(table) /\ apart \subseteq Owners
      /\ \A r \in rows : r.value # Undated
      /\ \A p \in Owners \ apart : Of(rows, p) = Of(entries, p)
  BY <1>1 DEF StoresInv, StoresTypeOK, FallbackAgrees
<1>3. Rows(table)' = Rows(table)
  BY <1>1 DEF Rows, Values
<1>4. SUFFICES /\ rows' \subseteq Rows(table) /\ entries' \subseteq Rows(table)
               /\ apart' \subseteq Owners /\ \A r \in rows' : r.value # Undated
               /\ \A p \in Owners \ apart' : Of(rows', p) = Of(entries', p)
  BY <1>1, <1>3 DEF StoresInv, StoresTypeOK, FallbackAgrees, LastBillAgrees
<1> PICK o \in Owners : StoreOutages(o) \/ PruneOutages(o)
  BY DEF Outages
<1>5. CASE StoreOutages(o)
  <2> DEFINE site == CHOOSE s \in Sites : TRUE
  <2> PICK list \in Lists(table, o, site) :
         /\ rows' \in store_outages(list) /\ entries' = memory_store_outages(list)
         /\ apart' = apart \cup {x \in {o} : \E n \in list : n.value = Undated}
    BY <1>5 DEF StoreOutages
  <2> DEFINE dated == {n \in list : n.value # Undated}
  <2>1. list \subseteq Rows(table) /\ \A n \in list : n.owner = o
    BY <1>1, Listed DEF Any, Sited, Unnamed
  <2>2. PICK stored \in SUBSET dated :
          rows' = upsert(stored) /\ (dated = list => stored = list)
    BY DEF store_outages
  <2>3. rows' = {r \in rows : ~\E n \in stored : r.owner = n.owner /\ r.id = n.id} \cup stored
    BY <1>1, <2>2, Keys DEF upsert
  <2>4. entries' = {e \in entries : ~\E n \in list : e.owner = n.owner /\ e.id = n.id} \cup list
    BY DEF memory_store_outages
  <2>5. rows' \subseteq Rows(table) /\ \A r \in rows' : r.value # Undated
    BY <1>2, <2>1, <2>2, <2>3
  <2>6. entries' \subseteq Rows(table) /\ apart' \subseteq Owners
    BY <1>2, <2>1, <2>4
  <2>7. ASSUME NEW p \in Owners \ apart' PROVE Of(rows', p) = Of(entries', p)
    <3>1. Of(rows, p) = Of(entries, p)
      BY <1>2, <2>7
    <3>2. CASE p = o
      <4>1. stored = list
        BY <2>2, <2>7, <3>2
      <4> QED
        BY <2>3, <2>4, <3>1, <4>1 DEF Of
    <3>3. CASE p # o
      <4>1. Of(rows', p) = Of(rows, p)
        BY <2>1, <2>2, <2>3, <3>3 DEF Of
      <4>2. Of(entries', p) = Of(entries, p)
        BY <2>1, <2>4, <3>3 DEF Of
      <4> QED
        BY <3>1, <4>1, <4>2
    <3> QED
      BY <3>2, <3>3
  <2> QED
    BY <2>5, <2>6, <2>7
<1>6. CASE PruneOutages(o)
  <2> PICK before \in 0..2 :
         /\ rows' = prune_outages(o, before) /\ entries' = memory_prune_outages(o, before)
         /\ apart' = apart \cup {x \in {o} :
              \E r \in Of(rows, o) : r.value.at >= before /\ r.value.text < before}
    BY <1>6 DEF PruneOutages
  <2>1. rows' \subseteq rows /\ entries' \subseteq entries /\ apart' \subseteq Owners
    BY <1>2 DEF prune_outages, memory_prune_outages
  <2>2. ASSUME NEW p \in Owners \ apart' PROVE Of(rows', p) = Of(entries', p)
    <3>1. Of(rows, p) = Of(entries, p)
      BY <1>2, <2>2
    <3>2. CASE p = o
      <4>1. \A r \in Of(rows, o) : ~(r.value.at < before) <=> r.value.text >= before
        <5> TAKE r \in Of(rows, o)
        <5>1. r.value \in Dated
          BY <1>1, <1>2 DEF Of, Rows, Values
        <5>2. ~(r.value.at >= before /\ r.value.text < before)
          BY <2>2, <3>2
        <5>3. r.value.at = 1 /\ r.value.text \in {0, 1}
          BY <5>1 DEF Dated
        <5> QED
          BY <5>2, <5>3
      <4>2. Of(rows', o) = {r \in Of(rows, o) : ~(r.value.at < before)}
        BY DEF prune_outages, Of
      <4>3. Of(entries', o) = {r \in Of(entries, o) : r.value.text >= before}
        BY DEF memory_prune_outages, Of
      <4> QED
        BY <3>1, <3>2, <4>1, <4>2, <4>3
    <3>3. CASE p # o
      BY <3>1, <3>3 DEF prune_outages, memory_prune_outages, Of
    <3> QED
      BY <3>2, <3>3
  <2> QED
    BY <1>2, <2>1, <2>2
<1> QED
  BY <1>5, <1>6

LEMMA ProfileStores == ASSUME StoresInv, SaveProfile \/ UpsertRegistration PROVE StoresInv'
<1>1. table \in {"resident_profile", "notifications_registration"} /\ table' = table /\ apart' = apart
  BY DEF SaveProfile, UpsertRegistration, On
<1>2. rows = entries /\ rows \subseteq Rows(table)
  BY <1>1, Same DEF Alike
<1>3. PICK row \in Rows(table) : rows' = upsert({row}) /\ entries' = map_set({row})
  BY DEF SaveProfile, UpsertRegistration, save_profile, memory_save_profile,
     upsert_registration, memory_upsert_registration
\* One site and one id stand for none.
<1>4. \A r \in rows : r.site = row.site /\ r.id = row.id
  BY <1>1, <1>2, Blanks DEF Sited, Unnamed
<1>5. rows' = entries' /\ rows' \subseteq Rows(table)
  BY <1>1, <1>2, <1>3, <1>4, Keys DEF upsert, map_set
<1> QED
  BY <1>1, <1>5, Both DEF Alike

LEMMA LinkStores == ASSUME StoresInv, LinkedAccounts PROVE StoresInv'
<1>1. table = "linked_account" /\ table' = table /\ apart' = apart
  BY DEF LinkedAccounts, On
<1>2. rows = entries /\ rows \subseteq Rows(table)
  BY <1>1, Same DEF Alike
<1> PICK row \in Rows(table) :
       \/ rows' = save_linked_account(row) /\ entries' = memory_save_linked_account(row)
       \/ /\ rows' = delete_linked_account(row.owner, row.site)
          /\ entries' = memory_delete_linked_account(row.owner, row.site)
  BY DEF LinkedAccounts
<1>3. CASE rows' = save_linked_account(row) /\ entries' = memory_save_linked_account(row)
  <2>1. \A r \in rows : SameKey(r, row) <=> r.owner = row.owner /\ r.site = row.site
    BY <1>1, Keys
  <2>2. rows' = entries' /\ rows' \subseteq Rows(table)
    BY <1>2, <1>3, <2>1 DEF save_linked_account, upsert, memory_save_linked_account
  <2> QED
    BY <1>1, <2>2, Both DEF Alike
<1>4. CASE /\ rows' = delete_linked_account(row.owner, row.site)
           /\ entries' = memory_delete_linked_account(row.owner, row.site)
  <2>1. rows' = entries' /\ rows' \subseteq Rows(table)
    BY <1>2, <1>4 DEF delete_linked_account, memory_delete_linked_account, OfSite
  <2> QED
    BY <1>1, <2>1, Both DEF Alike
<1> QED
  BY <1>3, <1>4

LEMMA ReminderStores == ASSUME StoresInv, Reminders PROVE StoresInv'
<1>1. table = "reminders_reminder" /\ table' = table /\ apart' = apart
  BY DEF Reminders, On
<1>2. rows = entries /\ rows \subseteq Rows(table)
  BY <1>1, Same DEF Alike
<1> PICK row \in Rows(table) :
       \/ rows' = create_reminder(row) /\ entries' = memory_create_reminder(row)
       \/ /\ rows' = set_status(row.owner, row.id, row.value)
          /\ entries' = memory_set_status(row.owner, row.id, row.value)
       \/ /\ rows' = delete_reminder(row.owner, row.id)
          /\ entries' = memory_delete_reminder(row.owner, row.id)
  BY DEF Reminders
<1>3. CASE rows' = create_reminder(row) /\ entries' = memory_create_reminder(row)
  <2>1. rows' = entries' /\ rows' \subseteq Rows(table)
    BY <1>1, <1>2, <1>3, Keys DEF create_reminder, upsert, memory_create_reminder
  <2> QED
    BY <1>1, <2>1, Both DEF Alike
<1>4. CASE /\ rows' = delete_reminder(row.owner, row.id)
           /\ entries' = memory_delete_reminder(row.owner, row.id)
  <2>1. rows' = entries' /\ rows' \subseteq Rows(table)
    BY <1>2, <1>4 DEF delete_reminder, memory_delete_reminder, Named
  <2> QED
    BY <1>1, <2>1, Both DEF Alike
<1>5. CASE /\ rows' = set_status(row.owner, row.id, row.value)
           /\ entries' = memory_set_status(row.owner, row.id, row.value)
  <2> DEFINE set(r) == [r EXCEPT !.value =
                          IF r.owner = row.owner /\ r.id = row.id THEN row.value ELSE r.value]
         put(r) == IF r \in Named(rows, row.owner, row.id)
                   THEN [r EXCEPT !.value = row.value] ELSE r
  <2>1. \A r \in rows : set(r) \in Rows(table) /\ put(r) = set(r)
    BY <1>2 DEF Rows, Named
  <2>2. rows' = {put(r) : r \in rows}
    BY <1>5 DEF set_status
  <2>3. entries' = {set(r) : r \in rows}
    BY <1>2, <1>5 DEF memory_set_status
  <2> HIDE DEF set, put
  <2>4. rows' = entries' /\ rows' \subseteq Rows(table)
    BY <2>1, <2>2, <2>3
  <2> QED
    BY <1>1, <2>4, Both DEF Alike
<1> QED
  BY <1>3, <1>4, <1>5

LEMMA UnlinkStores ==
  ASSUME StoresInv, NEW o \in Owners, NEW s \in Sites, DeletePushed(o, s)
  PROVE  StoresInv'
<1>1. /\ table \in {"utility_bill", "utility_usage"} /\ table' = table /\ apart' = apart
      /\ rows' = rows \ OfSite(rows, o, s) /\ entries' = entries \ OfSite(entries, o, s)
  BY DEF DeletePushed, On, delete_bills, delete_usage, memory_delete_pushed
<1>2. Rows(table)' = Rows(table)
  BY <1>1 DEF Rows, Values
<1>3. StoresTypeOK' /\ FallbackAgrees'
  BY <1>1, <1>2 DEF StoresInv, StoresTypeOK, FallbackAgrees
<1>4. ASSUME table = "utility_bill", NEW p \in Owners, NEW t \in Sites,
             OfSite(entries', p, t) # {}
      PROVE  OfSite(rows', p, t) =
               {b \in OfSite(entries', p, t) : \A c \in OfSite(entries', p, t) : c.id <= b.id}
  <2>1. <<p, t>> # <<o, s>>
    BY <1>1, <1>4 DEF OfSite
  <2>2. OfSite(rows', p, t) = OfSite(rows, p, t) /\ OfSite(entries', p, t) = OfSite(entries, p, t)
    BY <1>1, <2>1 DEF OfSite
  <2> QED
    BY <1>4, <2>2 DEF StoresInv, LastBillAgrees
<1>5. LastBillAgrees'
  BY <1>1, <1>4 DEF LastBillAgrees
<1> QED
  BY <1>1, <1>3, <1>5 DEF StoresInv

\* A finite set of places has a last one: the one that the fewest follow.
LEMMA LastPlace ==
  ASSUME NEW T \in SUBSET Ids, T # {}
  PROVE  \E n \in T : \A m \in T : m <= n
<1> DEFINE After(n) == {m \in T : ~(m <= n)}
           U == {After(n) : n \in T}
<1>1. U \subseteq FiniteSubsetsOf(Ids) /\ U # {}
  <2>1. FiniteSubsetsOf(Ids) = SUBSET Ids
    BY IdsAssumption, FS_FiniteSubsetsOfFinite
  <2>2. \A n \in T : After(n) \in SUBSET Ids
    OBVIOUS
  <2> HIDE DEF After
  <2> QED
    BY <2>1, <2>2
<1>2. IsWellFoundedOn(StrictSubsetOrdering(Ids), FiniteSubsetsOf(Ids))
  BY FS_StrictSubsetOrderingWellFounded
<1> HIDE DEF U
<1>3. PICK u \in U : \A v \in U : ~(<<v, u>> \in StrictSubsetOrdering(Ids))
  BY <1>1, <1>2, WFMin, Zenon
<1>4. PICK n \in T : u = After(n)
  BY DEF U
<1>5. ASSUME NEW m \in T, ~(m <= n) PROVE FALSE
  <2>1. m \in After(n) /\ m \notin After(m) /\ After(m) \subseteq After(n)
    <3>1. m \in Nat /\ n \in Nat /\ \A k \in T : k \in Nat
      BY IdsAssumption
    <3>2. m <= m /\ \A k \in T : ~(k <= m) => ~(k <= n)
      BY <1>5, <3>1
    <3> QED
      BY <1>5, <3>2
  <2>2. After(m) \in U /\ After(m) \in SUBSET Ids /\ After(n) \in SUBSET Ids
    BY DEF U
  <2> HIDE DEF After
  <2>3. <<After(m), After(n)>> \in StrictSubsetOrdering(Ids)
    BY <2>1, <2>2 DEF StrictSubsetOrdering
  <2> QED
    BY <1>3, <1>4, <2>2, <2>3
<1> QED
  BY <1>5

\* Of a push that has bills one is last, and replaces what postgres had of the site.
LEMMA PushStores == ASSUME StoresInv, BillPush PROVE StoresInv'
<1> PICK o \in Owners, s \in Sites : \E list \in Lists(table, o, s) :
       /\ rows' = IF table = "utility_bill" THEN store_bills(o, s, list) ELSE store_usage(list)
       /\ entries' = memory_store_bill_push(o, s, list)
  BY DEF BillPush
<1> PICK list \in Lists(table, o, s) :
       /\ rows' = IF table = "utility_bill" THEN store_bills(o, s, list) ELSE store_usage(list)
       /\ entries' = memory_store_bill_push(o, s, list)
  OBVIOUS
<1> DEFINE last == {b \in list : \A c \in list : c.id <= b.id}
<1>1. table \in {"utility_bill", "utility_usage"} /\ table' = table /\ apart' = apart
  BY DEF BillPush, On
<1>2. /\ list \subseteq Rows(table) /\ \A b \in list : b.owner = o /\ b.site = s
      /\ rows \subseteq Rows(table) /\ entries \subseteq Rows(table) /\ last \subseteq list
  BY <1>1, Listed DEF Sited, Unnamed, StoresInv, StoresTypeOK
<1>3. entries' = (entries \ OfSite(entries, o, s)) \cup list
  BY DEF memory_store_bill_push
<1>4. Rows(table)' = Rows(table)
  BY <1>1 DEF Rows, Values
<1>5. rows' = upsert(IF table = "utility_bill" THEN last ELSE list)
  BY DEF store_bills, store_usage
<1>6. StoresTypeOK' /\ FallbackAgrees'
  BY <1>1, <1>2, <1>3, <1>4, <1>5 DEF StoresInv, StoresTypeOK, FallbackAgrees, upsert
<1>7. ASSUME table = "utility_bill", NEW p \in Owners, NEW t \in Sites,
             OfSite(entries', p, t) # {}
      PROVE  OfSite(rows', p, t) =
               {b \in OfSite(entries', p, t) : \A c \in OfSite(entries', p, t) : c.id <= b.id}
  <2>1. rows' = {r \in rows : ~\E n \in last : r.owner = n.owner /\ r.site = n.site} \cup last
    BY <1>5, <1>7, Keys DEF upsert
  <2> HIDE DEF last
  <2>2. CASE <<p, t>> = <<o, s>>
    <3>1. OfSite(entries', o, s) = list
      BY <1>2, <1>3 DEF OfSite
    <3>2. list # {}
      BY <1>7, <2>2, <3>1
    <3>3. last # {}
      <4> DEFINE T == {b.id : b \in list}
      <4>1. T \in SUBSET Ids /\ T # {}
        BY <1>2, <1>7, <3>2 DEF Rows, Unnamed
      <4>2. PICK n \in T : \A m \in T : m <= n
        BY <4>1, LastPlace
      <4>3. PICK b \in list : b.id = n
        BY <4>2
      <4> QED
        BY <4>2, <4>3 DEF last
    <3>4. OfSite(rows', o, s) = last
      BY <1>2, <2>1, <3>3 DEF OfSite
    <3> QED
      BY <2>2, <3>1, <3>4 DEF last
  <2>3. CASE <<p, t>> # <<o, s>>
    <3>1. OfSite(entries', p, t) = OfSite(entries, p, t)
      BY <1>2, <1>3, <2>3 DEF OfSite
    <3>2. OfSite(rows', p, t) = OfSite(rows, p, t)
      BY <1>2, <2>1, <2>3 DEF OfSite
    <3> QED
      BY <1>7, <3>1, <3>2 DEF StoresInv, LastBillAgrees
  <2> QED
    BY <2>2, <2>3
<1>8. LastBillAgrees'
  BY <1>1, <1>7 DEF LastBillAgrees
<1> QED
  BY <1>1, <1>6, <1>8 DEF StoresInv

LEMMA StoresNextInv == StoresInv /\ [StoresNext]_store_vars => StoresInv'
<1> SUFFICES ASSUME StoresInv, [StoresNext]_store_vars PROVE StoresInv'
  OBVIOUS
<1>1. CASE StoresNext
  BY <1>1, CivicStores, DismissalStores, OutageStores, ProfileStores, LinkStores,
     ReminderStores, UnlinkStores, PushStores
  DEF StoresNext
<1>2. CASE UNCHANGED store_vars
  <2>1. table' = table /\ rows' = rows /\ entries' = entries /\ apart' = apart
    BY <1>2 DEF store_vars
  <2>2. Rows(table)' = Rows(table)
    BY <2>1 DEF Rows, Values
  <2> QED
    BY <2>1, <2>2 DEF StoresInv, StoresTypeOK, FallbackAgrees, LastBillAgrees
<1> QED
  BY <1>1, <1>2

\* The text of an undated outage comes before every cutoff, and postgres has none.
LEMMA PruneTakesUndated == StoresInv => UndatedLeave
<1> SUFFICES ASSUME StoresInv, NEW o \in Owners, table = "utility_outage", PruneOutages(o),
                    NEW e \in Of(rows' \cup entries', o), e.value = Undated
             PROVE  FALSE
  BY DEF UndatedLeave
<1> PICK before \in 0..2 :
       rows' = prune_outages(o, before) /\ entries' = memory_prune_outages(o, before)
  BY DEF PruneOutages
<1>1. e \notin rows' /\ e.owner = o
  BY DEF StoresInv, StoresTypeOK, prune_outages, Of
<1>2. e.value.text >= before
  BY <1>1 DEF Of, memory_prune_outages
<1> QED
  BY <1>2 DEF Undated

\* Whatever calls the ports get, the maps that stand in for postgres hold what it holds:
\* of outages, as far as they are dated in UTC, and a prune leaves no undated one; of bills
\* the last of a push; and an unlink leaves nothing of the site and takes nothing else.
THEOREM StoresAlwaysAgree == BackendSpec => StoresAgree
<1> DEFINE Agrees == /\ StoresTypeOK' /\ FallbackAgrees' /\ LastBillAgrees'
                     /\ UnlinkAgrees /\ UndatedLeave
<1>1. BackendInit => StoresInv
  BY StoresInitInv DEF BackendInit
<1>2. [BackendNext]_backend_vars => [StoresNext]_store_vars
  BY DEF BackendNext, backend_vars, store_vars
<1>3. UnlinkAgrees
  BY DEF UnlinkAgrees, DeletePushed, delete_bills, delete_usage, memory_delete_pushed, OfSite
<1>4. StoresInv /\ [StoresNext]_store_vars => [Agrees]_store_vars
  BY <1>3, StoresNextInv, PruneTakesUndated DEF StoresInv
<1>5. StoresAgree <=> [][Agrees]_store_vars
  BY DEF StoresAgree
<1> QED
  BY <1>1, <1>2, <1>4, <1>5, StoresNextInv, PTL DEF BackendSpec
-----------------------------------------------------------------------------
(* The end of the process *)

\* No sidecar is asked to go before a shutdown.  One that has been asked is awaited
\* until it has gone or was killed, and the way to the end begins when none is awaited.
SidecarsInv ==
  /\ child \in [Sidecars -> {"unspawned", "up", "asked", "killed", "exited"}]
  /\ host \in {"loading", "wiring", "up"} => \A s \in Sidecars : child[s] # "asked"
  /\ host = "stopping" => \A s \in Sidecars : child[s] # "up" /\ (child[s] = "asked" => s \in waiting)
  /\ NoneLeftUp

LEMMA LifecycleInitInv == LifecycleInit => SidecarsInv
BY DEF LifecycleInit, SidecarsInv, NoneLeftUp

LEMMA LifecycleNextInv == SidecarsInv /\ [LifecycleNext]_host_vars => SidecarsInv'
<1> SUFFICES ASSUME SidecarsInv, [LifecycleNext]_host_vars PROVE SidecarsInv'
  OBVIOUS
<1> USE DEF SidecarsInv, NoneLeftUp, Gone
<1>1. CASE start_all
  BY <1>1 DEF start_all
<1>2. CASE Wired
  BY <1>2 DEF Wired
<1>3. CASE Crash
  BY <1>3 DEF Crash
<1>4. CASE shutdown
  <2>1. /\ child' = [s \in Sidecars |-> IF s \in Live THEN "asked" ELSE child[s]]
        /\ waiting' = Live /\ host' = "stopping"
    BY <1>4 DEF shutdown, stop_all
  <2>2. child' \in [Sidecars -> {"unspawned", "up", "asked", "killed", "exited"}]
    BY <2>1
  <2>3. ASSUME NEW s \in Sidecars PROVE child'[s] # "up" /\ (child'[s] = "asked" => s \in waiting')
    <3>1. CASE s \in Live
      BY <2>1, <3>1
    <3>2. CASE s \notin Live
      <4>1. child'[s] = child[s] /\ child[s] # "up"
        BY <2>1, <3>2 DEF Live
      <4>2. child[s] # "asked"
        BY <1>4 DEF shutdown
      <4> QED
        BY <4>1, <4>2
    <3> QED
      BY <3>1, <3>2
  <2> QED
    BY <2>1, <2>2, <2>3
<1>5. CASE end
  BY <1>5 DEF end
<1>6. CASE PoolEnds
  BY <1>6 DEF PoolEnds
<1>7. ASSUME NEW s \in Sidecars, Exits(s) PROVE SidecarsInv'
  BY <1>7 DEF Exits
<1>8. ASSUME NEW s \in Sidecars, FiveSeconds(s) PROVE SidecarsInv'
  BY <1>8 DEF FiveSeconds, Kills
<1>9. ASSUME NEW j \in Jobs, tick(j) \/ StoreCalled(j) \/ Answered(j) \/ PassOver(j)
      PROVE  SidecarsInv'
  BY <1>9 DEF tick, StoreCalled, Answered, PassOver, Pass
<1>10. CASE UNCHANGED host_vars
  BY <1>10 DEF host_vars
<1> QED
  BY <1>1, <1>2, <1>3, <1>4, <1>5, <1>6, <1>7, <1>8, <1>9, <1>10 DEF LifecycleNext

\* When the pool is ended and the process exits, no sidecar is left that was neither
\* gone nor killed, however many there are and whatever each makes of the signal.
THEOREM SidecarsNeverLeftUp == BackendSpec => []NoneLeftUp
<1>1. BackendInit => SidecarsInv
  BY LifecycleInitInv DEF BackendInit
<1>2. [BackendNext]_backend_vars => [LifecycleNext]_host_vars
  BY DEF BackendNext, backend_vars, host_vars
<1>3. SidecarsInv => NoneLeftUp
  BY DEF SidecarsInv
<1> QED
  BY <1>1, <1>2, <1>3, LifecycleNextInv, PTL DEF BackendSpec
=============================================================================
