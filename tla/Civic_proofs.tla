------------------------------ MODULE Civic_proofs ------------------------------
(***************************************************************************)
(* For any entries, pages, passes and residents, however passes overlap,   *)
(* fail and are cut short: a stored alert is told to everyone who opted in *)
(* and, unless two passes found it at once, told once.  For any addresses, *)
(* kinds and visits: a record never holds more than the city has said.     *)
(***************************************************************************)
EXTENDS Civic, FiniteSetTheorems, TLAPS

-----------------------------------------------------------------------------
(* The fetches *)

\* What a pass holds, by how far it has come.
PassOK(q) ==
  /\ q.at \in {"idle", "page", "known"} => q.tell = {} /\ q.insert = {} /\ q.now = NoEntry
  /\ q.at = "page" => q.page \in 1..q.last
  /\ q.at = "insert" => q.now = NoEntry /\ (source = "city_alerts" => q.insert \subseteq q.tell)
  /\ q.at = "tell" => q.insert = {}
  /\ q.now # NoEntry => q.now \in q.tell
  /\ source # "city_alerts" => q.tell = {}

\* What it has to tell of is not past retention, as nothing that a pass under way
\* has found is; what it has inserted of it is stored; and those it has gone
\* through for the entry at hand are told.
AtWork(q) ==
  /\ q.tell \cap old = {}
  /\ source = "city_alerts" => q.tell \ q.insert \subseteq entries
  /\ q.now # NoEntry => \A r \in OptedIn \ q.to : <<r, q.now>> \in told

\* Of what it alone has to tell of, nobody is told yet but those it has gone through.
TellsNew(q) ==
  \A e \in q.tell \ overlapped : \A r \in OptedIn :
    <<r, e>> \in told => q.now = e /\ r \notin q.to

Alone ==
  \A p, q \in Passes : \A e \in pass[p].tell \ overlapped : e \in pass[q].tell => p = q

ToldIsStored == \A t \in told : t[2] \in entries

\* StoredIsTold, of the pass that has stored the entry.
StoredThenTold ==
  source = "city_alerts" =>
    \A e \in entries \ lost : \A r \in OptedIn :
      <<r, e>> \in told \/ \E p \in Passes : e \in pass[p].tell \ pass[p].insert

PassesOK == \A p \in Passes : PassOK(pass[p]) /\ AtWork(pass[p]) /\ TellsNew(pass[p])

FetchInv == FetchTypeOK /\ PassesOK /\ Alone /\ ToldIsStored /\ StoredThenTold

\* A set of pages that is not empty has a last one: the one that the fewest follow.
LEMMA LastPageOf ==
  ASSUME NEW T \in SUBSET Nat, T # {}, IsFiniteSet(T)
  PROVE  \E n \in T : \A m \in T : m <= n
<1> DEFINE Above(n) == {m \in T : m > n}
           U == {Above(n) : n \in T}
<1>1. U \subseteq FiniteSubsetsOf(Nat)
  BY FS_Subset DEF FiniteSubsetsOf
<1>2. U # {}
  OBVIOUS
<1>3. IsWellFoundedOn(StrictSubsetOrdering(Nat), FiniteSubsetsOf(Nat))
  BY FS_StrictSubsetOrderingWellFounded
<1> HIDE DEF U
<1>4. PICK u \in U : \A v \in U : ~(<<v, u>> \in StrictSubsetOrdering(Nat))
  BY <1>1, <1>2, <1>3, WFMin, Zenon
<1>5. PICK n \in T : u = Above(n)
  BY DEF U
<1>6. ASSUME NEW m \in T, ~(m <= n) PROVE FALSE
  <2>1. m \in Nat /\ n \in Nat /\ m > n /\ \A k \in T : k \in Nat
    BY <1>6
  <2>2. m \in Above(n) /\ m \notin Above(m) /\ Above(m) \subseteq Above(n)
    <3>1. m > n /\ ~(m > m) /\ \A k \in T : k > m => k > n
      BY <2>1
    <3> QED
      BY <3>1
  <2>3. Above(m) \in SUBSET Nat /\ Above(n) \in SUBSET Nat /\ Above(m) # Above(n)
    BY <2>2
  <2>4. Above(m) \in U
    BY DEF U
  <2> HIDE DEF Above
  <2>5. <<Above(m), Above(n)>> \in StrictSubsetOrdering(Nat)
    BY <2>2, <2>3 DEF StrictSubsetOrdering
  <2> QED
    BY <1>4, <1>5, <2>4, <2>5
<1> QED
  BY <1>6

LEMMA PageCountIsAPage == PageCount \in Pages
<1> DEFINE T == {m \in Pages : OnPage(m) # {}}
           C(n) == (n = 1 \/ OnPage(n) # {}) /\ \A m \in Pages : OnPage(m) # {} => m <= n
<1>1. \E n \in Pages : C(n)
  <2>1. CASE T = {}
    BY <2>1, EntriesAssumption DEF Pages
  <2>2. CASE T # {}
    <3>1. T \in SUBSET Nat /\ IsFiniteSet(T)
      <4>1. LastPage \in Int /\ 1 \in Int
        BY EntriesAssumption
      <4>2. IsFiniteSet(Pages)
        BY <4>1, FS_Interval DEF Pages
      <4>3. T \subseteq Pages /\ \A n \in Pages : n \in Nat
        BY EntriesAssumption DEF Pages
      <4>4. IsFiniteSet(T)
        BY <4>2, <4>3, FS_Subset
      <4> QED
        BY <4>3, <4>4
    <3>2. PICK n \in T : \A m \in T : m <= n
      BY <2>2, <3>1, LastPageOf
    <3> QED
      BY <3>2
  <2> QED
    BY <2>1, <2>2
<1>2. PageCount = CHOOSE n \in Pages : C(n)
  BY DEF PageCount
<1> HIDE DEF C
<1> QED
  BY <1>1, <1>2

\* A step that touches no pass but p's, which has nothing to tell after it.
LEMMA EmptyHanded ==
  ASSUME FetchInv, NEW p \in Passes, NEW q \in PassType,
         pass' = [pass EXCEPT ![p] = q],
         q.at \in {"idle", "page", "known"}, q.tell = {}, q.insert = {}, q.now = NoEntry,
         q.at = "page" => q.page \in 1..q.last,
         UNCHANGED <<source, listed, down, entries, old, told, overlapped>>,
         lost' \in SUBSET Entries, lost \subseteq lost',
         source = "city_alerts" => pass[p].tell \ pass[p].insert \subseteq lost'
  PROVE  FetchInv'
<1>1. pass \in [Passes -> PassType] /\ pass'[p] = q /\ \A u \in Passes : u # p => pass'[u] = pass[u]
  BY DEF FetchInv, FetchTypeOK
<1>2. FetchTypeOK'
  BY <1>1 DEF FetchInv, FetchTypeOK
<1>3. PassesOK'
  <2> SUFFICES ASSUME NEW u \in Passes
               PROVE  PassOK(pass[u])' /\ AtWork(pass[u])' /\ TellsNew(pass[u])'
    BY DEF PassesOK
  <2>1. CASE u = p
    BY <1>1, <2>1 DEF PassOK, AtWork, TellsNew
  <2>2. CASE u # p
    <3>1. PassOK(pass[u]) /\ AtWork(pass[u]) /\ TellsNew(pass[u]) /\ pass'[u] = pass[u]
      BY <1>1, <2>2 DEF FetchInv, PassesOK
    <3> QED
      BY <3>1 DEF PassOK, AtWork, TellsNew
  <2> QED
    BY <2>1, <2>2
<1>4. Alone'
  BY <1>1 DEF FetchInv, Alone
<1>5. ToldIsStored'
  BY DEF FetchInv, ToldIsStored
<1>6. StoredThenTold'
  <2> SUFFICES ASSUME source = "city_alerts", NEW e \in entries \ lost', NEW r \in OptedIn,
                      <<r, e>> \notin told
               PROVE  \E u \in Passes : e \in pass'[u].tell \ pass'[u].insert
    BY DEF StoredThenTold
  <2>1. PICK u \in Passes : e \in pass[u].tell \ pass[u].insert
    BY DEF FetchInv, StoredThenTold
  <2>2. u # p
    BY <2>1
  <2> QED
    BY <1>1, <2>1, <2>2
<1> QED
  BY <1>2, <1>3, <1>4, <1>5, <1>6 DEF FetchInv

LEMMA IdleTyped == Idle \in PassType
BY EntriesAssumption DEF Idle, PassType

LEMMA ThrowKeeps ==
  ASSUME FetchInv, NEW p \in Passes, Throw(p),
         UNCHANGED <<source, listed, down, entries, old, told, overlapped>>
  PROVE  FetchInv'
<1>1. /\ pass' = [pass EXCEPT ![p] = Idle]
      /\ lost' = IF source = "city_alerts"
                 THEN lost \cup (pass[p].tell \ pass[p].insert) ELSE lost
  BY DEF Throw
<1>2. /\ Idle.at = "idle" /\ Idle.tell = {} /\ Idle.insert = {} /\ Idle.now = NoEntry
  BY DEF Idle
<1>3. pass[p].tell \subseteq Entries /\ lost \in SUBSET Entries
  BY DEF FetchInv, FetchTypeOK, PassType
<1>4. /\ lost' \in SUBSET Entries /\ lost \subseteq lost'
      /\ source = "city_alerts" => pass[p].tell \ pass[p].insert \subseteq lost'
  BY <1>1, <1>3
<1> QED
  BY <1>1, <1>2, <1>4, IdleTyped, EmptyHanded

LEMMA TickKeeps ==
  ASSUME FetchInv, NEW p \in Passes, Tick(p)
  PROVE  FetchInv'
<1> DEFINE q == [Idle EXCEPT !.at = "page", !.page = 1, !.last = LastPage]
<1>1. /\ q \in PassType /\ q.at = "page" /\ q.tell = {} /\ q.insert = {} /\ q.now = NoEntry
      /\ q.page \in 1..q.last
  <2>1. 1 \in 1..LastPage /\ 1 \in 0..LastPage + 1 /\ LastPage \in 0..LastPage
    BY EntriesAssumption
  <2>2. Idle \in PassType /\ Idle.tell = {} /\ Idle.insert = {} /\ Idle.now = NoEntry
    BY IdleTyped DEF Idle
  <2>3. q \in PassType
    BY <2>1, <2>2 DEF PassType
  <2>4. /\ q.at = "page" /\ q.tell = Idle.tell /\ q.insert = Idle.insert /\ q.now = Idle.now
        /\ q.page = 1 /\ q.last = LastPage
    BY <2>2 DEF PassType
  <2> QED
    BY <2>1, <2>2, <2>3, <2>4
<1>2. /\ pass' = [pass EXCEPT ![p] = q] /\ pass[p].at = "idle"
      /\ UNCHANGED <<source, listed, down, entries, old, told, overlapped, lost>>
  BY DEF Tick, city, store, outcome
<1>3. pass[p].tell = {} /\ lost \in SUBSET Entries
  BY <1>2 DEF FetchInv, PassesOK, PassOK, FetchTypeOK
<1> HIDE DEF q
<1> QED
  BY <1>1, <1>2, <1>3, EmptyHanded

LEMMA TurnedTyped ==
  ASSUME FetchInv, NEW p \in Passes, pass[p].at = "page", NEW found \in SUBSET Entries,
         NEW last \in Pages \cup {pass[p].last}
  PROVE  LET q == Turned(p, found, last)
         IN  /\ q \in PassType /\ q.at \in {"page", "known"}
             /\ q.tell = {} /\ q.insert = {} /\ q.now = NoEntry
             /\ q.at = "page" => q.page \in 1..q.last
<1> DEFINE o == pass[p]
           q == Turned(p, found, last)
<1>1. o \in PassType /\ o.tell = {} /\ o.insert = {} /\ o.now = NoEntry /\ o.page \in 1..o.last
  BY DEF FetchInv, FetchTypeOK, PassesOK, PassOK
<1>2. /\ LastPage \in Nat /\ o.last \in 0..LastPage /\ last \in 0..LastPage /\ o.page \in 1..LastPage
      /\ o.page + 1 \in 0..LastPage + 1
  BY <1>1, EntriesAssumption DEF PassType, Pages
<1>3. q = [o EXCEPT !.found = o.found \cup found, !.last = last, !.page = o.page + 1,
                    !.at = IF o.page < last THEN "page" ELSE "known"]
  BY DEF Turned
<1> HIDE DEF q, o
<1>4. /\ q \in PassType /\ q.tell = {} /\ q.insert = {} /\ q.now = NoEntry
      /\ q.page = o.page + 1 /\ q.last = last
      /\ q.at = IF o.page < last THEN "page" ELSE "known"
  BY <1>1, <1>2, <1>3 DEF PassType
<1>5. q.at = "page" => q.page \in 1..q.last
  BY <1>2, <1>4
<1> QED
  BY <1>4, <1>5 DEF q

LEMMA ReadPageKeeps ==
  ASSUME FetchInv, NEW p \in Passes, ReadPage(p)
  PROVE  FetchInv'
<1>1. /\ pass[p].at = "page" /\ UNCHANGED <<source, listed, down, entries, old, told, overlapped>>
      /\ pass[p].tell = {} /\ lost \in SUBSET Entries
  BY DEF ReadPage, city, store, FetchInv, FetchTypeOK, PassesOK, PassOK
<1>2. ASSUME NEW found \in SUBSET Entries, NEW last \in Pages \cup {pass[p].last},
             pass' = [pass EXCEPT ![p] = Turned(p, found, last)], UNCHANGED lost
      PROVE  FetchInv'
  <2> DEFINE q == Turned(p, found, last)
  <2>1. /\ q \in PassType /\ q.at \in {"page", "known"}
        /\ q.tell = {} /\ q.insert = {} /\ q.now = NoEntry
        /\ q.at = "page" => q.page \in 1..q.last
    BY <1>1, TurnedTyped
  <2>2. pass' = [pass EXCEPT ![p] = q]
    BY <1>2
  <2> HIDE DEF q
  <2> QED
    BY <1>1, <1>2, <2>1, <2>2, EmptyHanded
<1>3. CASE Throw(p)
  BY <1>1, <1>3, ThrowKeeps
<1>4. CASE \E blank \in BOOLEAN :
             /\ pass' = [pass EXCEPT ![p] =
                  Turned(p, IF blank THEN {} ELSE OnPage(pass[p].page), LastOf(p, blank))]
             /\ UNCHANGED lost
  <2>1. PICK blank \in BOOLEAN :
             /\ pass' = [pass EXCEPT ![p] =
                  Turned(p, IF blank THEN {} ELSE OnPage(pass[p].page), LastOf(p, blank))]
             /\ UNCHANGED lost
    BY <1>4
  <2> DEFINE found == IF blank THEN {} ELSE OnPage(pass[p].page)
             last == LastOf(p, blank)
  <2>2. found \in SUBSET Entries
    BY DEF OnPage
  <2>3. last \in Pages \cup {pass[p].last}
    BY PageCountIsAPage, EntriesAssumption DEF LastOf, Pages
  <2>4. pass' = [pass EXCEPT ![p] = Turned(p, found, last)]
    BY <2>1
  <2> HIDE DEF found, last
  <2> QED
    BY <1>2, <2>1, <2>2, <2>3, <2>4
<1>5. CASE pass' = [pass EXCEPT ![p] = Turned(p, {}, pass[p].last)] /\ UNCHANGED lost
  BY <1>2, <1>5
<1> QED
  BY <1>3, <1>4, <1>5 DEF ReadPage

LEMMA ExistingKeeps ==
  ASSUME FetchInv, NEW p \in Passes, existing_entry_ids(p)
  PROVE  FetchInv'
<1> DEFINE fresh == Fresh(pass[p].found)
           tell == IF source = "city_alerts" THEN fresh ELSE {}
           q == [pass[p] EXCEPT !.at = "insert", !.found = {}, !.insert = fresh, !.tell = tell]
           twice == {e \in tell : \E u \in Passes \ {p} : e \in pass[u].tell}
<1>1. /\ pass \in [Passes -> PassType] /\ pass[p] \in PassType /\ pass[p].at = "known"
      /\ overlapped \in SUBSET Entries /\ entries \in SUBSET Entries /\ old \subseteq entries
      /\ pass[p].tell = {} /\ pass[p].insert = {} /\ pass[p].now = NoEntry
  BY DEF FetchInv, FetchTypeOK, PassesOK, PassOK, existing_entry_ids
<1>2. fresh \in SUBSET Entries /\ fresh \cap entries = {} /\ tell \subseteq fresh
  BY <1>1 DEF Fresh, PassType
<1>3. /\ pass' = [pass EXCEPT ![p] = q] /\ overlapped' = overlapped \cup twice
      /\ UNCHANGED <<source, listed, down, entries, old, told, lost, events>>
  BY <1>1 DEF existing_entry_ids, city, store
<1>4. source = "city_alerts" => tell = fresh
  OBVIOUS
<1>5. source # "city_alerts" => tell = {}
  OBVIOUS
<1> HIDE DEF fresh, tell
<1>6. /\ q \in PassType /\ q.at = "insert" /\ q.insert = fresh /\ q.tell = tell
      /\ q.now = NoEntry
  BY <1>1, <1>2 DEF PassType
<1> HIDE DEF q
<1>7. pass'[p] = q /\ \A u \in Passes : u # p => pass'[u] = pass[u]
  BY <1>1, <1>3
<1>8. FetchTypeOK'
  <2>1. overlapped' \in SUBSET Entries
    BY <1>1, <1>2, <1>3
  <2> HIDE DEF twice
  <2> QED
    BY <1>1, <1>3, <1>6, <2>1 DEF FetchInv, FetchTypeOK
<1>9. PassesOK'
  <2> SUFFICES ASSUME NEW u \in Passes
               PROVE  PassOK(pass[u])' /\ AtWork(pass[u])' /\ TellsNew(pass[u])'
    BY DEF PassesOK
  <2>1. CASE u = p
    <3>1. PassOK(pass[u])' /\ AtWork(pass[u])'
      BY <1>1, <1>2, <1>3, <1>4, <1>5, <1>6, <1>7, <2>1 DEF PassOK, AtWork
    <3>2. \A e \in q.tell : \A r \in OptedIn : <<r, e>> \notin told
      <4> SUFFICES ASSUME NEW e \in q.tell, NEW r \in OptedIn, <<r, e>> \in told PROVE FALSE
        OBVIOUS
      <4>1. e \in entries
        BY DEF FetchInv, ToldIsStored
      <4> QED
        BY <1>2, <1>6, <4>1
    <3> QED
      BY <1>3, <1>7, <2>1, <3>1, <3>2 DEF TellsNew
  <2>2. CASE u # p
    <3>1. PassOK(pass[u]) /\ AtWork(pass[u]) /\ TellsNew(pass[u]) /\ pass'[u] = pass[u]
      BY <1>7, <2>2 DEF FetchInv, PassesOK
    <3> QED
      BY <1>3, <3>1 DEF PassOK, AtWork, TellsNew
  <2> QED
    BY <2>1, <2>2
<1>10. Alone'
  <2> SUFFICES ASSUME NEW u \in Passes, NEW v \in Passes, u # v,
                      NEW e \in pass'[u].tell, e \in pass'[v].tell
               PROVE  e \in overlapped'
    BY DEF Alone
  <2>1. CASE u # p /\ v # p
    BY <1>3, <1>7, <2>1 DEF FetchInv, Alone
  <2>2. CASE u = p
    BY <1>3, <1>6, <1>7, <2>2
  <2>3. CASE v = p
    BY <1>3, <1>6, <1>7, <2>3
  <2> QED
    BY <2>1, <2>2, <2>3
<1>11. ToldIsStored'
  BY <1>3 DEF FetchInv, ToldIsStored
<1>12. StoredThenTold'
  <2> SUFFICES ASSUME source = "city_alerts", NEW e \in entries \ lost, NEW r \in OptedIn,
                      <<r, e>> \notin told
               PROVE  \E u \in Passes : e \in pass'[u].tell \ pass'[u].insert
    BY <1>3 DEF StoredThenTold
  <2>1. PICK u \in Passes : e \in pass[u].tell \ pass[u].insert
    BY DEF FetchInv, StoredThenTold
  <2>2. u # p
    BY <1>1, <2>1
  <2> QED
    BY <1>7, <2>1, <2>2
<1> QED
  BY <1>8, <1>9, <1>10, <1>11, <1>12 DEF FetchInv

LEMMA InsertKeeps ==
  ASSUME FetchInv, NEW p \in Passes, insert_civic(p)
  PROVE  FetchInv'
<1>1. PICK e \in pass[p].insert : pass' = [pass EXCEPT ![p].insert = @ \ {e}] /\ entries' = entries \cup {e}
  BY DEF insert_civic
<1> DEFINE q == [pass[p] EXCEPT !.insert = @ \ {e}]
<1>2. /\ pass \in [Passes -> PassType] /\ pass[p] \in PassType /\ pass[p].at = "insert"
      /\ entries \in SUBSET Entries /\ old \subseteq entries /\ e \in Entries
      /\ PassOK(pass[p]) /\ AtWork(pass[p]) /\ TellsNew(pass[p])
      /\ UNCHANGED <<source, listed, down, old, told, lost, overlapped>>
  BY DEF FetchInv, FetchTypeOK, PassesOK, insert_civic, PassType, city, outcome
<1>3. /\ q \in PassType /\ q.at = "insert" /\ q.insert = pass[p].insert \ {e} /\ q.tell = pass[p].tell
      /\ q.now = pass[p].now /\ q.to = pass[p].to
  BY <1>2 DEF PassType
<1>4. pass' = [pass EXCEPT ![p] = q]
  BY <1>1
<1> HIDE DEF q
<1>5. pass'[p] = q /\ \A u \in Passes : u # p => pass'[u] = pass[u]
  BY <1>2, <1>4
<1>6. FetchTypeOK'
  BY <1>1, <1>2, <1>3, <1>4 DEF FetchInv, FetchTypeOK
<1>7. PassesOK'
  <2> SUFFICES ASSUME NEW u \in Passes
               PROVE  PassOK(pass[u])' /\ AtWork(pass[u])' /\ TellsNew(pass[u])'
    BY DEF PassesOK
  <2>1. CASE u = p
    <3>1. PassOK(pass[u])'
      BY <1>2, <1>3, <1>5, <2>1 DEF PassOK
    <3>2. AtWork(pass[u])'
      BY <1>1, <1>2, <1>3, <1>5, <2>1 DEF AtWork
    <3>3. TellsNew(pass[u])'
      BY <1>2, <1>3, <1>5, <2>1 DEF TellsNew
    <3> QED
      BY <3>1, <3>2, <3>3
  <2>2. CASE u # p
    <3>1. PassOK(pass[u]) /\ AtWork(pass[u]) /\ TellsNew(pass[u]) /\ pass'[u] = pass[u]
      BY <1>5, <2>2 DEF FetchInv, PassesOK
    <3> QED
      BY <1>1, <1>2, <3>1 DEF PassOK, AtWork, TellsNew
  <2> QED
    BY <2>1, <2>2
<1>8. \A u \in Passes : pass'[u].tell = pass[u].tell
  BY <1>3, <1>5
<1>9. Alone'
  BY <1>2, <1>8 DEF FetchInv, Alone
<1>10. ToldIsStored'
  BY <1>1, <1>2 DEF FetchInv, ToldIsStored
<1>11. StoredThenTold'
  <2> SUFFICES ASSUME source = "city_alerts", NEW x \in entries' \ lost, NEW r \in OptedIn,
                      <<r, x>> \notin told
               PROVE  \E u \in Passes : x \in pass'[u].tell \ pass'[u].insert
    BY <1>2 DEF StoredThenTold
  <2>1. CASE x = e
    BY <1>2, <1>3, <1>5, <2>1 DEF PassOK
  <2>2. CASE x # e
    <3>1. PICK u \in Passes : x \in pass[u].tell \ pass[u].insert
      BY <1>1, <2>2 DEF FetchInv, StoredThenTold
    <3>2. pass'[u].insert \subseteq pass[u].insert
      BY <1>3, <1>5
    <3> QED
      BY <1>8, <3>1, <3>2
  <2> QED
    BY <2>1, <2>2
<1> QED
  BY <1>6, <1>7, <1>9, <1>10, <1>11 DEF FetchInv

\* What a pass under way has to tell of is spared.
LEMMA PruneKeeps ==
  ASSUME FetchInv, NEW p \in Passes, prune_older_than(p)
  PROVE  FetchInv'
<1> DEFINE q == IF pass[p].tell = {} THEN Idle ELSE [pass[p] EXCEPT !.at = "tell"]
<1>1. /\ pass \in [Passes -> PassType] /\ pass[p] \in PassType
      /\ entries \in SUBSET Entries /\ old \subseteq entries /\ lost \in SUBSET Entries
      /\ pass[p].insert = {} /\ pass[p].now = NoEntry
      /\ source # "city_alerts" => pass[p].tell = {}
      /\ AtWork(pass[p]) /\ TellsNew(pass[p])
  BY DEF FetchInv, FetchTypeOK, PassesOK, PassOK, prune_older_than
<1>2. /\ pass' = [pass EXCEPT ![p] = q]
      /\ entries' = entries \ old /\ old' = {} /\ lost' = lost \ old
      /\ told' = {t \in told : t[2] \notin old}
      /\ UNCHANGED <<source, listed, down, overlapped>>
  BY DEF prune_older_than, city
<1>3. /\ q \in PassType /\ q.at \in {"idle", "tell"} /\ q.tell = pass[p].tell /\ q.insert = {}
      /\ q.now = NoEntry
      /\ q.at = "idle" => q.tell = {}
  BY <1>1, IdleTyped DEF Idle, PassType
<1> HIDE DEF q
<1>4. pass'[p] = q /\ \A u \in Passes : u # p => pass'[u] = pass[u]
  BY <1>1, <1>2
<1>5. FetchTypeOK'
  BY <1>1, <1>2, <1>3 DEF FetchInv, FetchTypeOK
<1>6. PassesOK'
  <2> SUFFICES ASSUME NEW u \in Passes
               PROVE  PassOK(pass[u])' /\ AtWork(pass[u])' /\ TellsNew(pass[u])'
    BY DEF PassesOK
  <2>1. CASE u = p
    <3>1. PassOK(pass[u])'
      BY <1>1, <1>2, <1>3, <1>4, <2>1 DEF PassOK
    <3>2. AtWork(pass[u])'
      BY <1>1, <1>2, <1>3, <1>4, <2>1 DEF AtWork
    <3>3. \A e \in q.tell \ overlapped : \A r \in OptedIn : <<r, e>> \notin told
      <4> SUFFICES ASSUME NEW e \in q.tell \ overlapped, NEW r \in OptedIn, <<r, e>> \in told
                   PROVE FALSE
        OBVIOUS
      <4>1. e = NoEntry /\ e \in Entries
        BY <1>1, <1>3 DEF TellsNew, PassType
      <4> QED
        BY <4>1, EntriesAssumption
    <3>4. TellsNew(pass[u])'
      BY <1>2, <1>4, <2>1, <3>3 DEF TellsNew
    <3> QED
      BY <3>1, <3>2, <3>4
  <2>2. CASE u # p
    <3>1. PassOK(pass[u]) /\ AtWork(pass[u]) /\ TellsNew(pass[u]) /\ pass'[u] = pass[u]
      BY <1>4, <2>2 DEF FetchInv, PassesOK
    <3>2. PassOK(pass[u])' /\ TellsNew(pass[u])'
      BY <1>2, <3>1 DEF PassOK, TellsNew
    <3>3. pass[u].now # NoEntry => \A r \in OptedIn \ pass[u].to : <<r, pass[u].now>> \in told'
      <4> SUFFICES ASSUME pass[u].now # NoEntry, NEW r \in OptedIn \ pass[u].to
                   PROVE  <<r, pass[u].now>> \in told'
        OBVIOUS
      <4>1. <<r, pass[u].now>> \in told /\ pass[u].now \notin old
        BY <3>1 DEF PassOK, AtWork
      <4> QED
        BY <1>2, <4>1
    <3>4. AtWork(pass[u])'
      BY <1>2, <3>1, <3>3 DEF AtWork
    <3> QED
      BY <3>2, <3>4
  <2> QED
    BY <2>1, <2>2
<1>7. \A u \in Passes : pass'[u].tell = pass[u].tell /\ pass'[u].insert = pass[u].insert
  BY <1>1, <1>3, <1>4
<1>8. Alone'
  BY <1>2, <1>7 DEF FetchInv, Alone
<1>9. ToldIsStored'
  BY <1>2 DEF FetchInv, ToldIsStored
<1>10. StoredThenTold'
  <2> SUFFICES ASSUME source = "city_alerts", NEW x \in entries' \ lost', NEW r \in OptedIn,
                      <<r, x>> \notin told'
               PROVE  \E u \in Passes : x \in pass'[u].tell \ pass'[u].insert
    BY <1>2 DEF StoredThenTold
  <2>1. x \in entries \ lost /\ x \notin old
    BY <1>2
  <2>2. <<r, x>> \notin told
    BY <1>2, <2>1
  <2> QED
    BY <1>7, <2>1, <2>2 DEF FetchInv, StoredThenTold
<1> QED
  BY <1>5, <1>6, <1>8, <1>9, <1>10 DEF FetchInv

LEMMA RegistrationsKeeps ==
  ASSUME FetchInv, NEW p \in Passes, list_registrations(p)
  PROVE  FetchInv'
<1>1. PICK e \in pass[p].tell : pass' = [pass EXCEPT ![p].now = e, ![p].to = OptedIn]
  BY DEF list_registrations
<1> DEFINE q == [pass[p] EXCEPT !.now = e, !.to = OptedIn]
<1>2. /\ pass \in [Passes -> PassType] /\ pass[p] \in PassType /\ e \in Entries
      /\ pass[p].at = "tell" /\ pass[p].now = NoEntry
      /\ PassOK(pass[p]) /\ AtWork(pass[p]) /\ TellsNew(pass[p])
      /\ UNCHANGED <<source, listed, down, entries, old, told, lost, overlapped>>
  BY DEF FetchInv, FetchTypeOK, PassesOK, list_registrations, PassType, city, store, outcome
<1>3. /\ q \in PassType /\ q.at = "tell" /\ q.tell = pass[p].tell /\ q.insert = pass[p].insert
      /\ q.now = e /\ q.to = OptedIn
  BY <1>2 DEF PassType
<1>4. pass' = [pass EXCEPT ![p] = q]
  BY <1>1, <1>2
<1> HIDE DEF q
<1>5. pass'[p] = q /\ \A u \in Passes : u # p => pass'[u] = pass[u]
  BY <1>2, <1>4
<1>6. FetchTypeOK'
  BY <1>2, <1>3, <1>4 DEF FetchInv, FetchTypeOK
<1>7. PassesOK'
  <2> SUFFICES ASSUME NEW u \in Passes
               PROVE  PassOK(pass[u])' /\ AtWork(pass[u])' /\ TellsNew(pass[u])'
    BY DEF PassesOK
  <2>1. CASE u = p
    <3>1. PassOK(pass[u])' /\ AtWork(pass[u])'
      BY <1>2, <1>3, <1>5, <2>1 DEF PassOK, AtWork
    <3>2. \A x \in q.tell \ overlapped : \A r \in OptedIn : <<r, x>> \notin told
      <4> SUFFICES ASSUME NEW x \in q.tell \ overlapped, NEW r \in OptedIn, <<r, x>> \in told
                   PROVE FALSE
        OBVIOUS
      <4>1. x = NoEntry /\ x \in Entries
        BY <1>2, <1>3 DEF TellsNew, PassType
      <4> QED
        BY <4>1, EntriesAssumption
    <3> QED
      BY <1>2, <1>5, <2>1, <3>1, <3>2 DEF TellsNew
  <2>2. CASE u # p
    <3>1. PassOK(pass[u]) /\ AtWork(pass[u]) /\ TellsNew(pass[u]) /\ pass'[u] = pass[u]
      BY <1>5, <2>2 DEF FetchInv, PassesOK
    <3> QED
      BY <1>2, <3>1 DEF PassOK, AtWork, TellsNew
  <2> QED
    BY <2>1, <2>2
<1>8. \A u \in Passes : pass'[u].tell = pass[u].tell /\ pass'[u].insert = pass[u].insert
  BY <1>3, <1>5
<1>9. Alone'
  BY <1>2, <1>8 DEF FetchInv, Alone
<1>10. ToldIsStored'
  BY <1>2 DEF FetchInv, ToldIsStored
<1>11. StoredThenTold'
  BY <1>2, <1>8 DEF FetchInv, StoredThenTold
<1> QED
  BY <1>6, <1>7, <1>9, <1>10, <1>11 DEF FetchInv

LEMMA AfterTellingIs ==
  ASSUME FetchInv, NEW p \in Passes, pass[p].now # NoEntry, NEW r \in pass[p].to
  PROVE  LET o == pass[p]
             q == AfterTelling(p, r)
             left == o.to \ {r}
         IN  /\ q \in PassType /\ q.at \in {"idle", "tell"} /\ q.insert = {}
             /\ q.at = "idle" => q.tell = {} /\ q.now = NoEntry
             /\ left = {} => q.tell = o.tell \ {o.now} /\ q.now = NoEntry
             /\ left # {} => q.tell = o.tell /\ q.now = o.now /\ q.to = left
<1> DEFINE o == pass[p]
           left == o.to \ {r}
           tell == IF left = {} THEN o.tell \ {o.now} ELSE o.tell
           q == IF tell = {} THEN Idle
                ELSE [o EXCEPT !.to = left, !.tell = tell,
                               !.now = IF left = {} THEN NoEntry ELSE @]
<1>1. q = AfterTelling(p, r)
  BY DEF AfterTelling, Told
<1>2. o \in PassType /\ o.at = "tell" /\ o.insert = {} /\ o.now \in o.tell
  BY DEF FetchInv, FetchTypeOK, PassesOK, PassOK, PassType
<1>3. /\ left \in SUBSET OptedIn /\ tell \in SUBSET Entries
      /\ left = {} => tell = o.tell \ {o.now}
      /\ left # {} => tell = o.tell /\ tell # {}
  BY <1>2 DEF PassType
<1> HIDE DEF tell, left, o
<1>4. CASE tell = {}
  <2>1. q = Idle
    BY <1>4
  <2> QED
    BY <1>1, <1>3, <1>4, <2>1, IdleTyped DEF Idle, left, o
<1>5. CASE tell # {}
  <2>1. /\ q \in PassType /\ q.at = "tell" /\ q.insert = {} /\ q.tell = tell /\ q.to = left
        /\ q.now = IF left = {} THEN NoEntry ELSE o.now
    BY <1>2, <1>3, <1>5 DEF PassType
  <2> HIDE DEF q
  <2> QED
    BY <1>1, <1>3, <2>1 DEF left, o
<1> QED
  BY <1>4, <1>5

LEMMA EnqueueKeeps ==
  ASSUME FetchInv, NEW p \in Passes, enqueue(p)
  PROVE  FetchInv'
<1>1. PICK r \in pass[p].to : /\ told' = told \cup {<<r, pass[p].now>>}
                              /\ pass' = [pass EXCEPT ![p] = AfterTelling(p, r)]
  BY DEF enqueue
<1> DEFINE o == pass[p]
           q == AfterTelling(p, r)
           left == o.to \ {r}
<1>2. /\ pass \in [Passes -> PassType] /\ o \in PassType /\ o.now # NoEntry
      /\ o.now \in o.tell /\ o.now \in Entries /\ o.insert = {} /\ r \in OptedIn
      /\ AtWork(o) /\ TellsNew(o) /\ source = "city_alerts"
      /\ UNCHANGED <<source, listed, down, entries, old, lost, overlapped>>
  BY DEF FetchInv, FetchTypeOK, PassesOK, PassOK, enqueue, PassType, city, store
<1>3. /\ q \in PassType /\ q.at \in {"idle", "tell"} /\ q.insert = {}
      /\ q.at = "idle" => q.tell = {} /\ q.now = NoEntry
      /\ left = {} => q.tell = o.tell \ {o.now} /\ q.now = NoEntry
      /\ left # {} => q.tell = o.tell /\ q.now = o.now /\ q.to = left
  BY <1>2, AfterTellingIs
<1>4. pass' = [pass EXCEPT ![p] = q] /\ told' = told \cup {<<r, o.now>>}
  BY <1>1
<1> HIDE DEF q
<1>5. pass'[p] = q /\ \A u \in Passes : u # p => pass'[u] = pass[u]
  BY <1>2, <1>4
<1>6. o.now \in entries
  BY <1>2 DEF AtWork
<1>7. FetchTypeOK'
  BY <1>2, <1>3, <1>4 DEF FetchInv, FetchTypeOK
<1>8. PassesOK'
  <2> SUFFICES ASSUME NEW u \in Passes
               PROVE  PassOK(pass[u])' /\ AtWork(pass[u])' /\ TellsNew(pass[u])'
    BY DEF PassesOK
  <2>1. CASE u = p
    <3>1. PassOK(pass[u])'
      BY <1>2, <1>3, <1>5, <2>1 DEF PassOK
    <3>2. AtWork(pass[u])'
      BY <1>2, <1>3, <1>4, <1>5, <2>1 DEF AtWork
    <3>3. ASSUME NEW x \in q.tell \ overlapped, NEW y \in OptedIn, <<y, x>> \in told'
          PROVE  q.now = x /\ y \notin q.to
      <4>1. x \in o.tell \ overlapped
        BY <1>3
      <4>2. <<y, x>> \in told => o.now = x /\ y \notin o.to
        BY <1>2, <4>1 DEF TellsNew
      <4>3. o.now = x /\ y \notin left
        BY <1>4, <3>3, <4>2
      <4> QED
        BY <1>3, <3>3, <4>3
    <3>4. TellsNew(pass[u])'
      BY <1>2, <1>5, <2>1, <3>3 DEF TellsNew
    <3> QED
      BY <3>1, <3>2, <3>4
  <2>2. CASE u # p
    <3>1. PassOK(pass[u]) /\ AtWork(pass[u]) /\ TellsNew(pass[u]) /\ pass'[u] = pass[u]
      BY <1>5, <2>2 DEF FetchInv, PassesOK
    <3>2. PassOK(pass[u])' /\ AtWork(pass[u])'
      BY <1>2, <1>4, <3>1 DEF PassOK, AtWork
    <3>3. ASSUME NEW x \in pass[u].tell \ overlapped, NEW y \in OptedIn, <<y, x>> \in told'
          PROVE  <<y, x>> \in told
      <4>1. x # o.now
        BY <1>2, <2>2, <3>3 DEF FetchInv, Alone
      <4> QED
        BY <1>4, <3>3, <4>1
    <3>4. TellsNew(pass[u])'
      BY <1>2, <3>1, <3>3 DEF TellsNew
    <3> QED
      BY <3>2, <3>4
  <2> QED
    BY <2>1, <2>2
<1>9. \A u \in Passes : pass'[u].tell \subseteq pass[u].tell
  BY <1>3, <1>5
<1>10. Alone'
  BY <1>2, <1>9 DEF FetchInv, Alone
<1>11. ToldIsStored'
  BY <1>2, <1>4, <1>6 DEF FetchInv, ToldIsStored
<1>12. StoredThenTold'
  <2> SUFFICES ASSUME NEW x \in entries \ lost, NEW y \in OptedIn, <<y, x>> \notin told'
               PROVE  \E u \in Passes : x \in pass'[u].tell \ pass'[u].insert
    BY <1>2 DEF StoredThenTold
  <2>1. <<y, x>> \notin told
    BY <1>4
  <2>2. PICK u \in Passes : x \in pass[u].tell \ pass[u].insert
    BY <1>2, <2>1 DEF FetchInv, StoredThenTold
  <2>3. CASE u = p
    <3>1. CASE left = {} /\ x = o.now
      <4>1. <<y, x>> \in told'
        <5>1. y \notin o.to => <<y, x>> \in told
          BY <1>2, <3>1 DEF AtWork
        <5>2. y \in o.to => y = r
          BY <3>1
        <5> QED
          BY <1>4, <3>1, <5>1, <5>2
      <4> QED
        BY <4>1
    <3>2. CASE left # {} \/ x # o.now
      BY <1>3, <1>5, <2>2, <2>3, <3>2
    <3> QED
      BY <3>1, <3>2
  <2>4. CASE u # p
    BY <1>5, <2>2, <2>4
  <2> QED
    BY <2>3, <2>4
<1> QED
  BY <1>7, <1>8, <1>10, <1>11, <1>12 DEF FetchInv

LEMMA PassFailsKeeps ==
  ASSUME FetchInv, NEW p \in Passes, PassFails(p)
  PROVE  FetchInv'
BY ThrowKeeps DEF PassFails, city, store

\* All passes are at rest, with nothing to tell.
LEMMA AllIdle ==
  ASSUME FetchTypeOK', \A p \in Passes : LET q == pass'[p] IN
           q.at = "idle" /\ q.tell = {} /\ q.insert = {} /\ q.now = NoEntry,
         ToldIsStored',
         source' = "city_alerts" =>
           \A e \in entries' \ lost' : \A r \in OptedIn : <<r, e>> \in told'
  PROVE  FetchInv'
<1>1. PassesOK'
  BY DEF PassesOK, PassOK, AtWork, TellsNew
<1> QED
  BY <1>1 DEF FetchInv, Alone, StoredThenTold

LEMMA RestartKeeps ==
  ASSUME FetchInv, Restart
  PROVE  FetchInv'
<1>1. /\ pass' = [p \in Passes |-> Idle]
      /\ lost' = lost \cup UNION {pass[p].tell \ pass[p].insert : p \in Passes}
      /\ UNCHANGED <<source, listed, down, entries, old, told, overlapped>>
  BY DEF Restart, city, store
<1>2. \A p \in Passes : LET q == pass'[p] IN
        q.at = "idle" /\ q.tell = {} /\ q.insert = {} /\ q.now = NoEntry
  BY <1>1 DEF Idle
<1>3. \A p \in Passes : pass[p].tell \ pass[p].insert \subseteq lost'
  BY <1>1
<1>4. FetchTypeOK'
  <2>1. \A p \in Passes : pass[p].tell \in SUBSET Entries
    BY DEF FetchInv, FetchTypeOK, PassType
  <2>2. lost' \in SUBSET Entries
    BY <1>1, <2>1 DEF FetchInv, FetchTypeOK
  <2> QED
    BY <1>1, <2>2, IdleTyped DEF FetchInv, FetchTypeOK
<1>5. ToldIsStored'
  BY <1>1 DEF FetchInv, ToldIsStored
<1>6. source' = "city_alerts" =>
        \A e \in entries' \ lost' : \A r \in OptedIn : <<r, e>> \in told'
  BY <1>1, <1>3 DEF FetchInv, StoredThenTold
<1> QED
  BY <1>2, <1>4, <1>5, <1>6, AllIdle

LEMMA AroundKeeps ==
  ASSUME FetchInv, ListingChanges \/ RetentionPasses
  PROVE  FetchInv'
<1>1. CASE ListingChanges
  <2>1. UNCHANGED <<source, down, entries, old, pass, told, lost, overlapped>>
    BY <1>1 DEF ListingChanges, store, outcome
  <2>2. listed' \in [Entries -> 0..LastPage]
    BY <1>1 DEF ListingChanges, FetchInv, FetchTypeOK
  <2>3. FetchTypeOK' /\ Alone' /\ ToldIsStored' /\ StoredThenTold'
    BY <2>1, <2>2 DEF FetchInv, FetchTypeOK, Alone, ToldIsStored, StoredThenTold
  <2>4. PassesOK'
    BY <2>1 DEF FetchInv, PassesOK, PassOK, AtWork, TellsNew
  <2> QED
    BY <2>3, <2>4 DEF FetchInv
<1>2. CASE RetentionPasses
  <2>1. /\ old' = entries /\ \A p \in Passes : pass[p].at = "idle"
        /\ UNCHANGED <<source, listed, down, entries, pass, told, lost, overlapped>>
    BY <1>2 DEF RetentionPasses, city, outcome
  <2>2. \A p \in Passes : LET q == pass'[p] IN
          q.at = "idle" /\ q.tell = {} /\ q.insert = {} /\ q.now = NoEntry
    BY <2>1 DEF FetchInv, PassesOK, PassOK
  <2>3. FetchTypeOK' /\ ToldIsStored'
    BY <2>1 DEF FetchInv, FetchTypeOK, ToldIsStored
  <2>4. source' = "city_alerts" =>
          \A e \in entries' \ lost' : \A r \in OptedIn : <<r, e>> \in told'
    BY <2>1, <2>2 DEF FetchInv, StoredThenTold
  <2> QED
    BY <2>2, <2>3, <2>4, AllIdle
<1> QED
  BY <1>1, <1>2

LEMMA FetchSame ==
  ASSUME FetchInv, UNCHANGED fetch_vars
  PROVE  FetchInv'
<1>1. UNCHANGED <<source, listed, down, entries, old, pass, told, lost, overlapped>>
  BY DEF fetch_vars, city, store, outcome
<1>2. FetchTypeOK' /\ Alone' /\ ToldIsStored' /\ StoredThenTold'
  BY <1>1 DEF FetchInv, FetchTypeOK, Alone, ToldIsStored, StoredThenTold
<1>3. PassesOK'
  BY <1>1 DEF FetchInv, PassesOK, PassOK, AtWork, TellsNew
<1> QED
  BY <1>2, <1>3 DEF FetchInv

LEMMA FetchKeeps ==
  ASSUME FetchInv, FetchNext
  PROVE  FetchInv'
BY TickKeeps, ReadPageKeeps, ExistingKeeps, InsertKeeps, PruneKeeps, RegistrationsKeeps,
   EnqueueKeeps, PassFailsKeeps, RestartKeeps, AroundKeeps DEF FetchNext, PassStep

LEMMA FetchStarts ==
  ASSUME FetchInit \/ (FetchEmpty /\ source = "collection_schedule")
  PROVE  FetchInv
<1>1. /\ entries = {} /\ old = {} /\ told = {} /\ lost = {} /\ overlapped = {}
      /\ pass = [p \in Passes |-> Idle]
      /\ source \in {"city_alerts", "city_events", "collection_schedule"}
  BY DEF FetchInit, FetchEmpty
<1>2. listed \in [Entries -> 0..LastPage] /\ down \in SUBSET Pages
  BY EntriesAssumption DEF FetchInit, FetchEmpty
<1>3. \A p \in Passes : pass[p].at = "idle" /\ pass[p].tell = {} /\ pass[p].insert = {}
                        /\ pass[p].now = NoEntry
  BY <1>1 DEF Idle
<1>4. FetchTypeOK
  BY <1>1, <1>2, IdleTyped DEF FetchTypeOK
<1>5. PassesOK
  BY <1>1, <1>3 DEF PassesOK, PassOK, AtWork, TellsNew
<1> QED
  BY <1>1, <1>3, <1>4, <1>5 DEF FetchInv, Alone, ToldIsStored, StoredThenTold

-----------------------------------------------------------------------------
(* The records *)

VisitType == [todo: SUBSET Addresses, at: Addresses \cup {NoAddress}, jobs: [Kinds -> Job]]

\* A visit is at an address for as long as one of its jobs is not done.
AtWhileBusy(v) == (visit[v].at = NoAddress) <=> \A k \in Kinds : visit[v].jobs[k] = Done

\* A job that has an answer has nothing the city has not said.
AnswersOK(v) == \A k \in Kinds : visit[v].jobs[k].step > 1 => visit[v].jobs[k].got <= version

RecordsInv == RecordsTypeOK /\ \A v \in Visits : AnswersOK(v)

LEMMA RecordsTyped ==
  ASSUME RecordsInv
  PROVE  /\ home \in [Residents -> Addresses \cup {NoAddress}]
         /\ version \in 1..MaxVersion /\ version \in Nat /\ MaxVersion \in Nat
         /\ version <= MaxVersion /\ dead \subseteq {"gis", "page"}
         /\ record \in [Addresses -> [Kinds -> Missing..version]]
         /\ visit \in [Visits -> VisitType]
         /\ \A v \in Visits : AtWhileBusy(v) /\ AnswersOK(v)
<1>1. version \in 1..MaxVersion /\ MaxVersion \in Nat
  BY AddressesAssumption DEF RecordsInv, RecordsTypeOK
<1>2. version \in Nat /\ version <= MaxVersion
  BY <1>1
<1> QED
  BY <1>1, <1>2 DEF RecordsInv, RecordsTypeOK, VisitType, AtWhileBusy

LEMMA DoneTyped == Done \in Job /\ Done.step = 0 /\ Done.got = Blank
BY AddressesAssumption DEF Done, Job, Blank

\* All visits as they were, or over.
LEMMA AwayTyped ==
  /\ Away \in VisitType /\ Away.at = NoAddress
  /\ \A k \in Kinds : Away.jobs[k] = Done
BY DoneTyped DEF Away, VisitType

\* A step of one visit that changes nothing else but the mishaps.
LEMMA VisitKeeps ==
  ASSUME RecordsInv, NEW v \in Visits, NEW w \in VisitType,
         visit' = [visit EXCEPT ![v] = w],
         (w.at = NoAddress) <=> \A k \in Kinds : w.jobs[k] = Done,
         \A k \in Kinds : w.jobs[k].step > 1 => w.jobs[k].got <= version,
         UNCHANGED <<home, version, dead>>,
         record' \in [Addresses -> [Kinds -> Missing..version]]
  PROVE  RecordsInv'
<1>1. visit'[v] = w /\ \A u \in Visits : u # v => visit'[u] = visit[u]
  BY RecordsTyped
<1>2. visit' \in [Visits -> VisitType]
  BY RecordsTyped
<1>3. \A u \in Visits : AtWhileBusy(u)' /\ AnswersOK(u)'
  <2> SUFFICES ASSUME NEW u \in Visits PROVE AtWhileBusy(u)' /\ AnswersOK(u)'
    OBVIOUS
  <2>1. CASE u = v
    BY <1>1, <2>1 DEF AtWhileBusy, AnswersOK
  <2>2. CASE u # v
    <3>1. visit'[u] = visit[u] /\ AtWhileBusy(u) /\ AnswersOK(u)
      BY <1>1, <2>2, RecordsTyped
    <3> QED
      BY <3>1 DEF AtWhileBusy, AnswersOK
  <2> QED
    BY <2>1, <2>2
<1>4. RecordsTypeOK'
  BY <1>2, <1>3, RecordsTyped DEF RecordsTypeOK, VisitType, AtWhileBusy
<1> QED
  BY <1>3, <1>4 DEF RecordsInv

LEMMA SourcesTyped ==
  ASSUME NEW kind
  PROVE  /\ Len(Sources(kind)) \in {1, 2}
         /\ \A n \in DOMAIN Sources(kind) : n \in {1, 2}
BY DEF Sources

LEMMA LeastOfTwo ==
  ASSUME NEW a \in Int, NEW b \in Int
  PROVE  Min({a, b}) \in {a, b} /\ Min({a, b}) <= a /\ Min({a, b}) <= b
<1> DEFINE S == {a, b}
           L(x) == x \in S /\ \A y \in S : x <= y
<1>1. \E x \in S : \A y \in S : x <= y
  <2>1. a <= b \/ b <= a
    OBVIOUS
  <2> QED
    BY <2>1
<1>2. Min(S) = CHOOSE x \in S : \A y \in S : x <= y
  BY DEF Min
<1>3. Min(S) \in S /\ \A y \in S : Min(S) <= y
  BY <1>1, <1>2
<1> QED
  BY <1>3

\* The end of a job.
LEMMA EndedIs ==
  ASSUME RecordsInv, NEW v \in Visits, NEW kind \in Kinds, NEW todo \in SUBSET Addresses,
         Ended(v, kind, todo)
  PROVE  \E w \in VisitType :
           /\ visit' = [visit EXCEPT ![v] = w]
           /\ (w.at = NoAddress) <=> \A k \in Kinds : w.jobs[k] = Done
           /\ \A k \in Kinds : w.jobs[k].step > 1 => w.jobs[k].got <= version
<1> DEFINE jobs == [visit[v].jobs EXCEPT ![kind] = Done]
           at == IF \A k \in Kinds : jobs[k] = Done THEN NoAddress ELSE visit[v].at
           w == [todo |-> todo, jobs |-> jobs, at |-> at]
<1>1. /\ visit \in [Visits -> VisitType] /\ visit[v] \in VisitType
      /\ visit[v].jobs \in [Kinds -> Job] /\ visit[v].at \in Addresses \cup {NoAddress}
      /\ AtWhileBusy(v) /\ AnswersOK(v)
  BY RecordsTyped DEF VisitType
<1>2. visit' = [visit EXCEPT ![v] = w]
  BY <1>1 DEF Ended
<1>3. /\ jobs \in [Kinds -> Job] /\ jobs[kind] = Done
      /\ \A k \in Kinds : k # kind => jobs[k] = visit[v].jobs[k]
  BY <1>1, DoneTyped
<1> HIDE DEF jobs
<1>4. (at = NoAddress) <=> \A k \in Kinds : jobs[k] = Done
  BY <1>1, <1>3 DEF AtWhileBusy
<1>5. \A k \in Kinds : jobs[k].step > 1 => jobs[k].got <= version
  BY <1>1, <1>3, DoneTyped DEF AnswersOK
<1>6. at \in Addresses \cup {NoAddress}
  BY <1>1
<1> HIDE DEF at
<1>7. w \in VisitType /\ w.at = at /\ w.jobs = jobs
  BY <1>3, <1>6 DEF VisitType
<1> HIDE DEF w
<1> QED
  BY <1>2, <1>4, <1>5, <1>7

LEMMA AskKeeps ==
  ASSUME RecordsInv, NEW v \in Visits, NEW kind \in Kinds, Ask(v, kind)
  PROVE  RecordsInv'
<1> DEFINE o == visit[v]
           job == o.jobs[kind]
<1>1. /\ visit \in [Visits -> VisitType] /\ o \in VisitType
      /\ o.jobs \in [Kinds -> Job] /\ o.at \in Addresses \cup {NoAddress} /\ o.todo \in SUBSET Addresses
      /\ job \in Job /\ AtWhileBusy(v) /\ AnswersOK(v)
      /\ version \in Nat /\ version <= MaxVersion /\ MaxVersion \in Nat
  BY RecordsTyped DEF VisitType
<1>2. /\ job.step \in {1, 2} /\ job.got \in 0..MaxVersion
      /\ UNCHANGED <<home, version, dead, record>>
  BY <1>1, SourcesTyped DEF Ask, Job, Blank
<1>3. ASSUME NEW answer \in {Blank, version},
             visit' = [visit EXCEPT ![v].jobs[kind] =
                        [step |-> job.step + 1, got |-> Min({job.got, answer})]]
      PROVE  RecordsInv'
  <2> DEFINE got == Min({job.got, answer})
             new == [step |-> job.step + 1, got |-> got]
             w == [o EXCEPT !.jobs[kind] = new]
  <2>1. got \in 0..MaxVersion /\ got <= version
    <3>1. job.got \in Int /\ answer \in Int /\ answer <= version /\ 0 <= answer
      BY <1>1, <1>2 DEF Blank
    <3>2. got \in {job.got, answer} /\ got <= answer
      BY <3>1, LeastOfTwo
    <3> HIDE DEF got
    <3> QED
      BY <1>1, <1>2, <3>1, <3>2
  <2>2. visit' = [visit EXCEPT ![v] = w]
    BY <1>1, <1>3
  <2> HIDE DEF got
  <2>3. new \in Job /\ new.got = got /\ new.step # 0
    BY <1>2, <2>1 DEF Job, Blank
  <2> HIDE DEF new
  <2>4. /\ w \in VisitType /\ w.at = o.at /\ w.jobs[kind] = new
        /\ \A k \in Kinds : k # kind => w.jobs[k] = o.jobs[k]
    BY <1>1, <2>3 DEF VisitType
  <2>5. o.at # NoAddress
    BY <1>1, <1>2, DoneTyped DEF AtWhileBusy
  <2> HIDE DEF w
  <2>6. (w.at = NoAddress) <=> \A k \in Kinds : w.jobs[k] = Done
    BY <2>3, <2>4, <2>5, DoneTyped
  <2>7. \A k \in Kinds : w.jobs[k].step > 1 => w.jobs[k].got <= version
    BY <1>1, <2>1, <2>3, <2>4 DEF AnswersOK
  <2>8. record' \in [Addresses -> [Kinds -> Missing..version]]
    BY <1>2, RecordsTyped
  <2> QED
    BY <1>2, <2>2, <2>4, <2>6, <2>7, <2>8, VisitKeeps
<1>4. ASSUME Ended(v, kind, AfterThrow(o.todo))
      PROVE  RecordsInv'
  <2>1. Ended(v, kind, o.todo)
    BY <1>4 DEF AfterThrow
  <2>2. PICK w \in VisitType :
           /\ visit' = [visit EXCEPT ![v] = w]
           /\ (w.at = NoAddress) <=> \A k \in Kinds : w.jobs[k] = Done
           /\ \A k \in Kinds : w.jobs[k].step > 1 => w.jobs[k].got <= version
    BY <1>1, <2>1, EndedIs
  <2>3. record' \in [Addresses -> [Kinds -> Missing..version]]
    BY <1>2, RecordsTyped
  <2> QED
    BY <1>2, <2>2, <2>3, VisitKeeps
<1> QED
  BY <1>3, <1>4 DEF Ask

LEMMA UpsertKeeps ==
  ASSUME RecordsInv, NEW v \in Visits, NEW kind \in Kinds, Upsert(v, kind)
  PROVE  RecordsInv'
<1> DEFINE o == visit[v]
           job == o.jobs[kind]
<1>1. /\ visit \in [Visits -> VisitType] /\ o \in VisitType
      /\ o.jobs \in [Kinds -> Job] /\ o.at \in Addresses \cup {NoAddress} /\ o.todo \in SUBSET Addresses
      /\ job \in Job /\ AtWhileBusy(v) /\ AnswersOK(v)
      /\ version \in Nat /\ record \in [Addresses -> [Kinds -> Missing..version]]
  BY RecordsTyped DEF VisitType
<1>2. job.step > 1 /\ UNCHANGED <<home, version, dead>>
  <2>1. job.step = Len(Sources(kind)) + 1 /\ UNCHANGED <<home, version, dead>>
    BY DEF Upsert
  <2>2. Len(Sources(kind)) \in {1, 2}
    BY SourcesTyped
  <2> HIDE DEF job
  <2> QED
    BY <2>1, <2>2
<1>3. o.at \in Addresses
  <2>1. job # Done
    BY <1>2, DoneTyped
  <2> QED
    BY <1>1, <2>1 DEF AtWhileBusy
<1>4. job.got \in Missing..version
  BY <1>1, <1>2 DEF AnswersOK, Job, Blank, Missing
<1>5. record' \in [Addresses -> [Kinds -> Missing..version]]
  <2>1. record' = [record EXCEPT ![o.at][kind] = job.got]
    BY DEF Upsert
  <2> HIDE DEF o, job
  <2> QED
    BY <1>1, <1>3, <1>4, <2>1
<1>6. PICK w \in VisitType :
        /\ visit' = [visit EXCEPT ![v] = w]
        /\ (w.at = NoAddress) <=> \A k \in Kinds : w.jobs[k] = Done
        /\ \A k \in Kinds : w.jobs[k].step > 1 => w.jobs[k].got <= version
  BY <1>1, EndedIs DEF Upsert
<1> QED
  BY <1>2, <1>5, <1>6, VisitKeeps

\* The passes that visit, and the turn to the next address.
LEMMA TurnsKeep ==
  ASSUME RecordsInv, NEW v \in Visits,
         warm_collection_schedule(v) \/ refresh_address_data(v) \/ resolve_address_data(v)
  PROVE  RecordsInv'
<1>1. /\ visit \in [Visits -> VisitType] /\ visit[v] \in VisitType
      /\ AtWhileBusy(v) /\ AnswersOK(v)
      /\ home \in [Residents -> Addresses \cup {NoAddress}]
      /\ MaxVersion \in Nat
      /\ record \in [Addresses -> [Kinds -> Missing..version]]
  BY RecordsTyped
<1>2. /\ UNCHANGED <<home, version, dead, record>>
      /\ record' \in [Addresses -> [Kinds -> Missing..version]]
  BY <1>1 DEF warm_collection_schedule, refresh_address_data, resolve_address_data
<1>3. ASSUME NEW todo \in SUBSET Addresses, visit' = [visit EXCEPT ![v].todo = todo]
      PROVE  RecordsInv'
  <2> DEFINE w == [visit[v] EXCEPT !.todo = todo]
  <2>1. w \in VisitType /\ w.at = visit[v].at /\ w.jobs = visit[v].jobs
    BY <1>1 DEF VisitType
  <2>2. visit' = [visit EXCEPT ![v] = w]
    BY <1>1, <1>3
  <2> HIDE DEF w
  <2>3. /\ (w.at = NoAddress) <=> \A k \in Kinds : w.jobs[k] = Done
        /\ \A k \in Kinds : w.jobs[k].step > 1 => w.jobs[k].got <= version
    BY <1>1, <2>1 DEF AtWhileBusy, AnswersOK
  <2> QED
    BY <1>2, <2>1, <2>2, <2>3, VisitKeeps
<1>4. CASE warm_collection_schedule(v)
  <2>1. Seeds \in SUBSET Addresses
    BY <1>1 DEF Seeds, list_resident_addresses, list_resolved_addresses
  <2> QED
    BY <1>3, <1>4, <2>1 DEF warm_collection_schedule
<1>5. CASE refresh_address_data(v)
  <2>1. list_resident_addresses \subseteq Addresses
    BY <1>1 DEF list_resident_addresses
  <2>2. PICK a \in list_resident_addresses : visit' = [visit EXCEPT ![v].todo = {a}]
    BY <1>5 DEF refresh_address_data
  <2> QED
    BY <1>3, <2>1, <2>2
<1>6. CASE resolve_address_data(v)
  <2>1. PICK a \in visit[v].todo :
          visit' = [visit EXCEPT ![v] =
            [todo |-> visit[v].todo \ {a}, at |-> a,
             jobs |-> [k \in Kinds |-> [step |-> 1, got |-> MaxVersion]]]]
    BY <1>6 DEF resolve_address_data
  <2> DEFINE w == [todo |-> visit[v].todo \ {a}, at |-> a,
                   jobs |-> [k \in Kinds |-> [step |-> 1, got |-> MaxVersion]]]
  <2>2. a \in Addresses /\ visit[v].todo \in SUBSET Addresses
    BY <1>1 DEF VisitType
  <2>3. [step |-> 1, got |-> MaxVersion] \in Job
    BY <1>1 DEF Job, Blank
  <2>4. /\ w \in VisitType /\ w.at = a
        /\ \A k \in Kinds : w.jobs[k].step = 1
    BY <2>2, <2>3 DEF VisitType
  <2>5. visit' = [visit EXCEPT ![v] = w]
    BY <2>1
  <2> HIDE DEF w
  <2>6. (w.at = NoAddress) <=> \A k \in Kinds : w.jobs[k] = Done
    BY <2>2, <2>4, DoneTyped, AddressesAssumption
  <2>7. \A k \in Kinds : w.jobs[k].step > 1 => w.jobs[k].got <= version
    BY <2>4
  <2> QED
    BY <1>2, <2>4, <2>5, <2>6, <2>7, VisitKeeps
<1> QED
  BY <1>4, <1>5, <1>6

LEMMA AroundRecordsKeeps ==
  ASSUME RecordsInv, CityChanges \/ ResidentMoves \/ RecordsRestart
  PROVE  RecordsInv'
<1>1. /\ visit \in [Visits -> VisitType]
      /\ \A v \in Visits : AtWhileBusy(v) /\ AnswersOK(v)
      /\ home \in [Residents -> Addresses \cup {NoAddress}]
      /\ version \in 1..MaxVersion /\ version \in Nat /\ MaxVersion \in Nat
      /\ dead \subseteq {"gis", "page"}
      /\ record \in [Addresses -> [Kinds -> Missing..version]]
  BY RecordsTyped
<1>2. CASE CityChanges
  <2>1. /\ version < MaxVersion /\ version' = version + 1
        /\ UNCHANGED <<home, dead, record, visit>>
    BY <1>2 DEF CityChanges
  <2>2. version' \in 1..MaxVersion /\ Missing..version \subseteq Missing..version'
    BY <1>1, <2>1 DEF Missing
  <2>3. record' \in [Addresses -> [Kinds -> Missing..version']]
    BY <1>1, <2>1, <2>2
  <2>4. \A v \in Visits : AnswersOK(v)'
    <3> SUFFICES ASSUME NEW v \in Visits, NEW k \in Kinds, visit[v].jobs[k].step > 1
                 PROVE  visit[v].jobs[k].got <= version'
      BY <2>1 DEF AnswersOK
    <3>1. visit[v].jobs[k].got <= version /\ visit[v].jobs[k].got \in 0..MaxVersion
      BY <1>1 DEF AnswersOK, VisitType, Job, Blank
    <3> QED
      BY <1>1, <2>1, <3>1
  <2>5. RecordsTypeOK'
    BY <1>1, <2>1, <2>2, <2>3 DEF RecordsTypeOK, AtWhileBusy, VisitType
  <2> QED
    BY <2>4, <2>5 DEF RecordsInv
<1>3. CASE ResidentMoves
  <2>1. home' \in [Residents -> Addresses \cup {NoAddress}] /\ UNCHANGED <<version, dead, record, visit>>
    BY <1>1, <1>3 DEF ResidentMoves
  <2> QED
    BY <1>1, <2>1 DEF RecordsInv, RecordsTypeOK, AnswersOK
<1>4. CASE RecordsRestart
  <2>1. visit' = [v \in Visits |-> Away] /\ UNCHANGED <<home, version, dead, record>>
    BY <1>4 DEF RecordsRestart
  <2>2. visit' \in [Visits -> VisitType] /\ \A v \in Visits : AtWhileBusy(v)' /\ AnswersOK(v)'
    BY <2>1, AwayTyped, DoneTyped DEF AtWhileBusy, AnswersOK
  <2> QED
    BY <1>1, <2>1, <2>2 DEF RecordsInv, RecordsTypeOK, AtWhileBusy, VisitType
<1> QED
  BY <1>2, <1>3, <1>4

LEMMA RecordsSame ==
  ASSUME RecordsInv, UNCHANGED records_vars
  PROVE  RecordsInv'
BY DEF records_vars, RecordsInv, RecordsTypeOK, AnswersOK

LEMMA RecordsKeep ==
  ASSUME RecordsInv, RecordsNext
  PROVE  RecordsInv'
BY AskKeeps, UpsertKeeps, TurnsKeep, AroundRecordsKeeps DEF RecordsNext, VisitStep, Visits

LEMMA RecordsStart ==
  ASSUME RecordsEmpty \/ RecordsInit
  PROVE  RecordsInv
<1>1. /\ version = 1 /\ visit = [v \in Visits |-> Away]
      /\ record = [a \in Addresses |-> [k \in Kinds |-> Missing]]
      /\ home \in [Residents -> Addresses \cup {NoAddress}]
      /\ dead \subseteq {"gis", "page"}
  BY DEF RecordsEmpty, RecordsInit
<1>2. version \in 1..MaxVersion /\ Missing \in Missing..version
  BY <1>1, AddressesAssumption DEF Missing
<1>3. visit \in [Visits -> VisitType] /\ \A v \in Visits : AtWhileBusy(v) /\ AnswersOK(v)
  BY <1>1, AwayTyped, DoneTyped DEF AtWhileBusy, AnswersOK
<1> QED
  BY <1>1, <1>2, <1>3 DEF RecordsInv, RecordsTypeOK, AtWhileBusy, VisitType

-----------------------------------------------------------------------------
(* Both *)

CivicInv == FetchInv /\ RecordsInv

LEMMA CivicAlways == Spec => []CivicInv
<1>1. Init => CivicInv
  BY FetchStarts, RecordsStart DEF Init, CivicInv
<1>2. CivicInv /\ [run_scheduled_fetch]_vars => CivicInv'
  <2> SUFFICES ASSUME CivicInv, [run_scheduled_fetch]_vars PROVE CivicInv'
    OBVIOUS
  <2>1. ASSUME FetchNext, UNCHANGED records_vars PROVE CivicInv'
    BY <2>1, FetchKeeps, RecordsSame DEF CivicInv
  <2>2. ASSUME RecordsNext, UNCHANGED fetch_vars PROVE CivicInv'
    BY <2>2, FetchSame, RecordsKeep DEF CivicInv
  <2>3. CASE UNCHANGED vars
    <3>1. UNCHANGED fetch_vars /\ UNCHANGED records_vars
      BY <2>3 DEF vars
    <3> QED
      BY <3>1, FetchSame, RecordsSame DEF CivicInv
  <2> QED
    BY <2>1, <2>2, <2>3 DEF run_scheduled_fetch
<1> QED
  BY <1>1, <1>2, PTL DEF Spec

\* Everything is of its type, and an emergency alert that is stored is told to every
\* resident who opted in, now or by a pass that is still at it, unless a pass was cut
\* short on it: however the passes overlap, fail and fall (service.ts:285-320).
THEOREM CivicAlwaysSound == Spec => []CivicSound
<1>1. CivicInv => CivicSound
  BY DEF CivicInv, CivicSound, FetchInv, RecordsInv, StoredThenTold, StoredIsTold
<1> QED
  BY <1>1, CivicAlways, PTL

\* As long as it is stored an alert is queued once for each resident, unless two passes
\* found it new at once: a pass tells only of what it found new, alone, and of each
\* entry it tells each resident it has not gone through (service.ts:300-316, 389-400).
THEOREM ToldOnceEach == Spec => ToldOnce
<1> DEFINE Once == \A r \in OptedIn, e \in Entries :
                     (\E p \in Passes : pass[p].now = e /\ r \in pass[p].to /\ enqueue(p)
                                        /\ r \notin pass'[p].to)
                       => <<r, e>> \notin told \/ e \in overlapped
<1>1. CivicInv => Once
  <2> SUFFICES ASSUME FetchInv, NEW r \in OptedIn, NEW e \in Entries, NEW p \in Passes,
                      pass[p].now = e, r \in pass[p].to, <<r, e>> \in told, e \notin overlapped
               PROVE  FALSE
    BY DEF CivicInv
  <2>1. e # NoEntry
    BY EntriesAssumption
  <2>2. e \in pass[p].tell /\ TellsNew(pass[p])
    BY <2>1 DEF FetchInv, PassesOK, PassOK
  <2> QED
    BY <2>2 DEF TellsNew
<1>2. CivicInv => [Once]_fetch_vars
  BY <1>1
<1> QED
  BY <1>2, CivicAlways, PTL DEF ToldOnce
=============================================================================
