---------------------------- MODULE Outages_proofs ----------------------------
(***************************************************************************)
(* For any residents, areas and outages, and any number of checks that     *)
(* overlap, fail and are cut by restarts: nothing is stored and then       *)
(* silently taken as known, and nothing is told twice but by checks of one *)
(* resident that overlap.                                                  *)
(***************************************************************************)
EXTENDS Outages, TLAPS

CheckType ==
  [phase: {"idle", "next", "read", "store", "gate", "enqueue", "prune"},
   todo: SUBSET (Residents \X (Areas \cup {NoZip})),
   resident: Residents \cup {NoOne}, now: 0..MaxWindow,
   fetched: SUBSET Outage, fresh: SUBSET Outage, left: SUBSET Outage]

Working == {"read", "store", "gate", "enqueue", "prune"}

\* What a check has left to store or to tell is of what it found fresh, for a
\* resident there is; what it stored it has yet to tell.
Inv ==
  /\ StoredIsTold
  /\ today \in 0..MaxWindow
  /\ told \in [Residents -> SUBSET Outage] /\ lost \in [Residents -> SUBSET Outage]
  /\ \A c \in Checks : check[c].phase \in Working => check[c].resident \in Residents
  /\ \A c \in Checks : check[c].phase = "store" => check[c].left \subseteq check[c].fresh

LEMMA IdleType == Idle \in CheckType
BY WindowAssumption DEF Idle, CheckType

LEMMA OverType ==
  ASSUME NEW todo \in SUBSET (Residents \X (Areas \cup {NoZip})), NEW now \in 0..MaxWindow
  PROVE  Over(todo, now) \in CheckType /\ Over(todo, now).phase \in {"idle", "next"}
<1>1. CASE todo = {}
  BY <1>1, IdleType DEF Over, Idle
<1>2. CASE todo # {}
  BY <1>2, WindowAssumption DEF Over, Idle, CheckType
<1> QED
  BY <1>1, <1>2

LEMMA InitInv == Init => Inv
<1> SUFFICES ASSUME Init PROVE Inv
  OBVIOUS
<1>1. check \in [Checks -> CheckType]
  BY IdleType DEF Init
<1>2. TypeOK
  BY <1>1 DEF Init, TypeOK, CheckType, Addresses
<1>3. today \in 0..MaxWindow
  BY WindowAssumption DEF Init
<1> QED
  BY <1>2, <1>3, ResidentsAssumption DEF Init, Inv, StoredIsTold, Idle, Working

\* The step of one check keeps what all others still have to tell.
LEMMA OthersKeep ==
  ASSUME Inv, NEW c \in Checks, NEW k \in CheckType, check' = [check EXCEPT ![c] = k]
  PROVE  /\ check' \in [Checks -> CheckType] /\ check'[c] = k
         /\ \A d \in Checks \ {c} : check'[d] = check[d] /\ Untold(d)' = Untold(d)
              /\ \A r \in Residents : Works(d, r)' <=> Works(d, r)
<1>1. check \in [Checks -> CheckType]
  BY DEF Inv, StoredIsTold, TypeOK, CheckType
<1> QED
  BY <1>1 DEF Untold, Works

\* A step of check c that leaves data and history alone keeps the invariant if c
\* had nothing to tell, or still has it.
LEMMA Preserved ==
  ASSUME Inv, NEW c \in Checks, NEW k \in CheckType, check' = [check EXCEPT ![c] = k],
         source' \in [Areas -> SUBSET Outage], address' \in [Residents -> Addresses],
         stored' \in [Residents -> SUBSET Dated],
         told' \in [Residents -> SUBSET Outage], lost' \in [Residents -> SUBSET Outage],
         today' = today,
         k.phase \in Working => k.resident \in Residents,
         k.phase = "store" => k.left \subseteq k.fresh,
         \A r \in Residents : told[r] \subseteq told'[r] /\ lost[r] \subseteq lost'[r],
         \A r \in OptedIn : \A o \in stored'[r] :
           \/ o \in told'[r] \cup lost'[r]
           \/ Works(c, r)' /\ o \in Untold(c)'
           \/ o \in stored[r] /\ ~(Works(c, r) /\ o \in Untold(c))
  PROVE  Inv'
<1>1. TypeOK'
  BY OthersKeep DEF TypeOK, CheckType
<1>2. ASSUME NEW r \in OptedIn, NEW o \in stored'[r]
      PROVE  \/ o \in told'[r] \cup lost'[r]
             \/ \E d \in Checks : Works(d, r)' /\ o \in Untold(d)'
  <2>0. r \in Residents
    BY ResidentsAssumption
  <2>1. CASE o \in stored[r] /\ ~(Works(c, r) /\ o \in Untold(c))
    <3>1. o \in told[r] \cup lost[r] \/ \E d \in Checks : Works(d, r) /\ o \in Untold(d)
      BY <2>1 DEF Inv, StoredIsTold
    <3>2. CASE o \in told[r] \cup lost[r]
      BY <2>0, <3>2
    <3>3. ASSUME NEW d \in Checks, Works(d, r), o \in Untold(d)
          PROVE  Works(d, r)' /\ o \in Untold(d)'
      BY <2>0, <2>1, <3>3, OthersKeep
    <3> QED
      BY <3>1, <3>2, <3>3
  <2> QED
    BY <1>2, <2>1
<1>3. StoredIsTold'
  BY <1>1, <1>2 DEF StoredIsTold
<1> QED
  BY <1>3, OthersKeep DEF Inv

LEMMA TickInv == ASSUME Inv, NEW c \in Checks, Tick(c) PROVE Inv'
<1> DEFINE listed == {r \in Residents : address[r] # NoStreet}
           todo == {<<r, address[r]>> : r \in listed}
<1>1. todo \in SUBSET (Residents \X (Areas \cup {NoZip}))
  BY DEF Inv, StoredIsTold, TypeOK, Addresses
<1>2. Over(todo, today) \in CheckType /\ Over(todo, today).phase \in {"idle", "next"}
  BY <1>1, OverType DEF Inv
<1>3. /\ check[c].phase = "idle" /\ check' = [check EXCEPT ![c] = Over(todo, today)]
      /\ UNCHANGED <<data, history, budget>>
  BY DEF Tick
<1> QED
  BY <1>2, <1>3, Preserved
  DEF Inv, StoredIsTold, TypeOK, Working, Works, data, history, budget

LEMMA SaveInv == ASSUME Inv, NEW c \in Checks, save_profile(c) PROVE Inv'
<1> PICK r \in Residents, a \in Addresses :
      /\ address' = [address EXCEPT ![r] = a]
      /\ check' = [check EXCEPT ![c] = Over(IF a = NoStreet THEN {} ELSE {<<r, a>>}, today)]
  BY DEF save_profile
<1> DEFINE todo == IF a = NoStreet THEN {} ELSE {<<r, a>>}
<1>1. todo \in SUBSET (Residents \X (Areas \cup {NoZip}))
  BY DEF Addresses
<1>2. Over(todo, today) \in CheckType /\ Over(todo, today).phase \in {"idle", "next"}
  BY <1>1, OverType DEF Inv
<1>3. check[c].phase = "idle" /\ UNCHANGED <<source, stored, history, today>>
  BY DEF save_profile
<1>4. address' \in [Residents -> Addresses]
  BY DEF Inv, StoredIsTold, TypeOK
<1>5. PICK k \in CheckType : /\ check' = [check EXCEPT ![c] = k]
                            /\ k.phase \in {"idle", "next"}
  BY <1>2
<1>6. /\ UNCHANGED <<source, stored, told, lost, today>> /\ \A q \in Residents : ~Works(c, q)
      /\ source \in [Areas -> SUBSET Outage] /\ stored \in [Residents -> SUBSET Dated]
      /\ told \in [Residents -> SUBSET Outage] /\ lost \in [Residents -> SUBSET Outage]
  BY <1>3 DEF Works, history, Inv, StoredIsTold, TypeOK
<1>7. k.phase \notin Working /\ k.phase # "store"
  BY <1>5 DEF Working
<1> QED
  BY <1>4, <1>5, <1>6, <1>7, ResidentsAssumption, Preserved

LEMMA FetchInv == ASSUME Inv, NEW c \in Checks, fetch_outages(c) PROVE Inv'
<1> PICK t \in check[c].todo :
      \/ check' = [check EXCEPT ![c] = [[check[c] EXCEPT !.todo = @ \ {t}, !.resident = t[1],
                                        !.phase = "read"] EXCEPT !.fetched = Reported(t[2])]]
      \/ check' = [check EXCEPT ![c] = [[check[c] EXCEPT !.todo = @ \ {t}, !.resident = t[1],
                                        !.phase = "read"] EXCEPT !.fetched = {}]]
      \/ check' = [check EXCEPT ![c] = Idle]
  BY DEF fetch_outages
<1>1. check[c] \in CheckType
  BY DEF Inv, StoredIsTold, TypeOK, CheckType
<1>2. t[1] \in Residents
  BY <1>1 DEF CheckType
<1>3. \A f \in SUBSET Outage :
        [[check[c] EXCEPT !.todo = @ \ {t}, !.resident = t[1], !.phase = "read"]
           EXCEPT !.fetched = f] \in CheckType
  BY <1>1, <1>2 DEF CheckType
<1>4. Reported(t[2]) \in SUBSET Outage
  BY DEF Reported, Inv, StoredIsTold, TypeOK
<1>5. PICK k \in CheckType : /\ check' = [check EXCEPT ![c] = k]
                            /\ \/ k.phase = "read" /\ k.resident \in Residents
                               \/ k.phase = "idle"
  <2> DEFINE asked(f) == [[check[c] EXCEPT !.todo = @ \ {t}, !.resident = t[1], !.phase = "read"]
                            EXCEPT !.fetched = f]
  <2>1. \A f \in SUBSET Outage : asked(f) \in CheckType /\ asked(f).phase = "read"
                                 /\ asked(f).resident = t[1]
    BY <1>1, <1>3 DEF CheckType
  <2>2. {} \in SUBSET Outage
    OBVIOUS
  <2>3. \/ check' = [check EXCEPT ![c] = asked(Reported(t[2]))]
        \/ check' = [check EXCEPT ![c] = asked({})]
        \/ check' = [check EXCEPT ![c] = Idle]
    OBVIOUS
  <2>4. Idle.phase = "idle"
    BY DEF Idle
  <2> HIDE DEF asked
  <2> QED
    BY <1>2, <1>4, <2>1, <2>2, <2>3, <2>4, IdleType
<1>6. check[c].phase = "next" /\ UNCHANGED <<data, told, lost, today>>
  BY DEF fetch_outages
<1> QED
  BY <1>5, <1>6, Preserved
  DEF Inv, StoredIsTold, TypeOK, Working, Works, data

LEMMA ReadInv == ASSUME Inv, NEW c \in Checks, read_outages(c) PROVE Inv'
<1> DEFINE new == Fresh(check[c].fetched, stored[check[c].resident])
           k == [check[c] EXCEPT !.fetched = {}, !.fresh = new, !.left = new,
                                 !.phase = IF new = {} THEN "prune" ELSE "store"]
<1>1. check[c] \in CheckType /\ check \in [Checks -> CheckType]
  BY DEF Inv, StoredIsTold, TypeOK, CheckType
<1>2. new \in SUBSET Outage
  BY <1>1 DEF Fresh, CheckType
<1>3. /\ k \in CheckType /\ k.resident = check[c].resident /\ k.left = k.fresh
      /\ k.phase \in {"prune", "store"}
  BY <1>1, <1>2 DEF CheckType
<1>4. check[c].phase = "read" /\ UNCHANGED <<data, history, budget>>
  BY DEF read_outages
<1>5. check' = [check EXCEPT ![c] = k]
  BY <1>1 DEF read_outages, CheckType
<1>6. Untold(c) = {}
  BY <1>4 DEF Untold
<1> HIDE DEF k, new
<1> QED
  BY <1>3, <1>4, <1>5, <1>6, Preserved
  DEF Inv, StoredIsTold, TypeOK, Working, data, history, budget

LEMMA StoreInv == ASSUME Inv, NEW c \in Checks, store_outage(c) PROVE Inv'
<1>0. check[c].phase = "store" /\ check[c].resident \in Residents
  BY DEF store_outage, Inv, Working
<1> PICK r \in Residents : r = check[c].resident
  BY <1>0
<1> PICK o \in Storable(check[c].left) :
      LET rest == check[c].left \ {o} IN
      /\ stored' = [stored EXCEPT ![r] = {k \in @ : k.id # o.id} \cup {o}]
      /\ check' = [check EXCEPT
           ![c].left = IF rest = {} THEN check[c].fresh ELSE rest,
           ![c].phase = IF rest = {} THEN "gate" ELSE "store"]
  BY DEF store_outage
<1> DEFINE rest == check[c].left \ {o}
           k == [check[c] EXCEPT !.left = IF rest = {} THEN check[c].fresh ELSE rest,
                                 !.phase = IF rest = {} THEN "gate" ELSE "store"]
<1>1. check[c] \in CheckType /\ check \in [Checks -> CheckType]
  BY DEF Inv, StoredIsTold, TypeOK, CheckType
<1>2. /\ check[c].phase = "store" /\ check[c].left \subseteq check[c].fresh
      /\ UNCHANGED <<source, address, history, budget>>
  BY DEF store_outage, Inv
<1>3. o \in Dated /\ o \in check[c].left
  BY DEF Storable
<1>4. /\ k \in CheckType /\ k.resident = r /\ k.phase \in {"gate", "store"}
      /\ (k.phase = "store" => k.left \subseteq k.fresh)
  BY <1>1, <1>2 DEF CheckType
<1>5. check' = [check EXCEPT ![c] = k]
  BY <1>1 DEF CheckType
<1>6. stored' \in [Residents -> SUBSET Dated]
  BY <1>2, <1>3 DEF Inv, StoredIsTold, TypeOK
<1>7. check'[c] = k /\ Works(c, r)'
  BY <1>1, <1>4, <1>5 DEF Works
<1>8. Untold(c) \cup {o} \subseteq Untold(c)'
  BY <1>1, <1>2, <1>3, <1>7 DEF Untold, CheckType
<1>9. \A q \in OptedIn : \A p \in stored'[q] :
        \/ p \in told'[q] \cup lost'[q]
        \/ Works(c, q)' /\ p \in Untold(c)'
        \/ p \in stored[q] /\ ~(Works(c, q) /\ p \in Untold(c))
  <2> SUFFICES ASSUME NEW q \in OptedIn, NEW p \in stored'[q],
                      ~(Works(c, q)' /\ p \in Untold(c)')
               PROVE  p \in stored[q] /\ ~(Works(c, q) /\ p \in Untold(c))
    OBVIOUS
  <2>1. q \in Residents
    BY ResidentsAssumption
  <2>2. p \in stored[q] \/ (q = r /\ p = o)
    BY <1>2, <2>1 DEF Inv, StoredIsTold, TypeOK
  <2>3. Works(c, q) => q = r
    BY DEF Works
  <2> QED
    BY <1>7, <1>8, <2>2, <2>3
<1> HIDE DEF k
<1> QED
  BY <1>2, <1>4, <1>5, <1>6, <1>9, Preserved
  DEF Inv, StoredIsTold, TypeOK, Working, history, budget

LEMMA GateInv == ASSUME Inv, NEW c \in Checks, notify_gate(c) PROVE Inv'
<1>1. check[c] \in CheckType /\ check \in [Checks -> CheckType]
  BY DEF Inv, StoredIsTold, TypeOK, CheckType
<1>2. /\ check[c].phase = "gate" /\ check[c].resident \in Residents
      /\ UNCHANGED <<data, history, budget>> /\ Untold(c) = check[c].left
  BY DEF notify_gate, Inv, Working, Untold
<1>3. CASE check[c].resident \in OptedIn
  <2> DEFINE k == [check[c] EXCEPT !.phase = "enqueue"]
  <2>1. /\ k \in CheckType /\ k.phase = "enqueue" /\ k.left = check[c].left
        /\ k.resident = check[c].resident
    BY <1>1 DEF CheckType
  <2>2. check' = [check EXCEPT ![c] = k]
    BY <1>1, <1>3 DEF notify_gate, Delivers, CheckType
  <2> HIDE DEF k
  <2>3. check'[c] = k
    BY <1>1, <2>2
  <2>4. Untold(c)' = Untold(c) /\ \A r \in OptedIn : Works(c, r)' <=> Works(c, r)
    BY <1>2, <2>1, <2>3 DEF Untold, Works
  <2> QED
    BY <1>2, <2>1, <2>2, <2>4, Preserved
    DEF Inv, StoredIsTold, TypeOK, Working, data, history, budget
\* A resident whose alerts are off is not told.
<1>4. CASE check[c].resident \notin OptedIn
  <2> PICK o \in check[c].left :
        check' = [check EXCEPT ![c].left = @ \ {o}, ![c].phase = After(check[c].left \ {o})]
    BY <1>4 DEF notify_gate, Delivers
  <2> DEFINE k == [check[c] EXCEPT !.left = @ \ {o}, !.phase = After(check[c].left \ {o})]
  <2>1. /\ k \in CheckType /\ k.phase \in {"prune", "gate"} /\ k.resident = check[c].resident
    BY <1>1 DEF CheckType, After
  <2>2. check' = [check EXCEPT ![c] = k]
    BY <1>1 DEF CheckType
  <2> HIDE DEF k
  <2>3. \A r \in OptedIn : ~Works(c, r)
    BY <1>4 DEF Works
  <2> QED
    BY <1>2, <2>1, <2>2, <2>3, Preserved
    DEF Inv, StoredIsTold, TypeOK, Working, data, history, budget
<1> QED
  BY <1>3, <1>4

LEMMA EnqueueInv == ASSUME Inv, NEW c \in Checks, notify_enqueue(c) PROVE Inv'
<1>1. check[c] \in CheckType /\ check \in [Checks -> CheckType]
  BY DEF Inv, StoredIsTold, TypeOK, CheckType
<1>2. /\ check[c].phase = "enqueue" /\ check[c].resident \in Residents
      /\ UNCHANGED <<data, lost, overlapped, budget>> /\ Untold(c) = check[c].left
  BY DEF notify_enqueue, Inv, Working, Untold
<1> PICK r \in Residents : r = check[c].resident
  BY <1>2
<1> PICK o \in check[c].left :
      /\ told' = [told EXCEPT ![r] = @ \cup {o}]
      /\ check' = [check EXCEPT ![c].left = @ \ {o}, ![c].phase = After(check[c].left \ {o})]
  BY DEF notify_enqueue
<1> DEFINE k == [check[c] EXCEPT !.left = @ \ {o}, !.phase = After(check[c].left \ {o})]
<1>3. /\ k \in CheckType /\ k.phase \in {"prune", "gate"} /\ k.resident = r
      /\ k.left = check[c].left \ {o} /\ (k.phase = "prune" => k.left = {})
  BY <1>1 DEF CheckType, After
<1>4. check' = [check EXCEPT ![c] = k]
  BY <1>1 DEF CheckType
<1> HIDE DEF k
<1>5. check'[c] = k
  BY <1>1, <1>4
<1>6. o \in Outage
  BY <1>1 DEF CheckType
<1>7. /\ told' \in [Residents -> SUBSET Outage] /\ o \in told'[r]
      /\ \A q \in Residents : told[q] \subseteq told'[q]
  BY <1>6 DEF Inv
<1>8. Untold(c) \ {o} \subseteq Untold(c)' /\ Works(c, r)'
  BY <1>2, <1>3, <1>5 DEF Untold, Works
<1>9. \A q \in OptedIn : \A p \in stored'[q] :
        \/ p \in told'[q] \cup lost'[q]
        \/ Works(c, q)' /\ p \in Untold(c)'
        \/ p \in stored[q] /\ ~(Works(c, q) /\ p \in Untold(c))
  <2> SUFFICES ASSUME NEW q \in OptedIn, NEW p \in stored'[q], Works(c, q), p \in Untold(c)
               PROVE  p \in told'[q] \/ (Works(c, q)' /\ p \in Untold(c)')
    BY <1>2 DEF data
  <2>1. q = r
    BY DEF Works
  <2> QED
    BY <1>7, <1>8, <2>1
<1> QED
  BY <1>2, <1>3, <1>4, <1>7, <1>9, Preserved
  DEF Inv, StoredIsTold, TypeOK, Working, data, budget

LEMMA PruneInv == ASSUME Inv, NEW c \in Checks, prune_outages(c) PROVE Inv'
<1>1. check[c] \in CheckType /\ check \in [Checks -> CheckType]
  BY DEF Inv, StoredIsTold, TypeOK, CheckType
<1>2. PICK k \in CheckType : /\ check' = [check EXCEPT ![c] = k]
                            /\ k.phase \in {"idle", "next"}
  BY <1>1, OverType DEF prune_outages, CheckType
<1>3. /\ check[c].phase = "prune" /\ check[c].resident \in Residents
      /\ UNCHANGED <<source, address, history, budget>> /\ Untold(c) = {}
  BY DEF prune_outages, Inv, Working, Untold
<1>4. /\ stored' \in [Residents -> SUBSET Dated]
      /\ \A r \in Residents : stored'[r] \subseteq stored[r]
  BY <1>3 DEF prune_outages, Inv, StoredIsTold, TypeOK
<1> QED
  BY <1>2, <1>3, <1>4, ResidentsAssumption, Preserved
  DEF Inv, StoredIsTold, TypeOK, Working, history, budget

\* What a check that throws had stored and not told is accounted for as lost.
LEMMA ThrowInv == ASSUME Inv, NEW c \in Checks, Throw(c) PROVE Inv'
<1>1. check[c] \in CheckType /\ check \in [Checks -> CheckType]
  BY DEF Inv, StoredIsTold, TypeOK, CheckType
<1>2. /\ check[c].resident \in Residents /\ check' = [check EXCEPT ![c] = Idle]
      /\ UNCHANGED <<data, told, today>>
      /\ lost' = [lost EXCEPT ![check[c].resident] = @ \cup Untold(c)]
  BY DEF Throw, Inv, Working
<1>3. Untold(c) \in SUBSET Outage
  BY <1>1 DEF Untold, CheckType
<1>4. /\ lost' \in [Residents -> SUBSET Outage]
      /\ \A q \in Residents : lost[q] \subseteq lost'[q]
      /\ Untold(c) \subseteq lost'[check[c].resident]
  BY <1>2, <1>3 DEF Inv
<1>5. \A q \in OptedIn : \A p \in stored'[q] :
        p \in lost'[q] \/ (p \in stored[q] /\ ~(Works(c, q) /\ p \in Untold(c)))
  BY <1>2, <1>4 DEF Works, data
<1>6. Idle \in CheckType /\ Idle.phase = "idle"
  BY IdleType DEF Idle
<1> QED
  BY <1>2, <1>4, <1>5, <1>6, Preserved
  DEF Inv, StoredIsTold, TypeOK, Working, data

LEMMA RestartInv == ASSUME Inv, Restart PROVE Inv'
<1>1. check \in [Checks -> CheckType]
  BY DEF Inv, StoredIsTold, TypeOK, CheckType
<1>2. check' \in [Checks -> CheckType] /\ \A c \in Checks : check'[c].phase = "idle"
  BY IdleType DEF Restart, Idle
<1>3. UNCHANGED <<data, told, today>>
  BY DEF Restart
<1>4. \A c \in Checks : Untold(c) \in SUBSET Outage
  BY <1>1 DEF Untold, CheckType
<1>5. /\ lost' \in [Residents -> SUBSET Outage]
      /\ \A r \in Residents : lost[r] \subseteq lost'[r]
      /\ \A r \in Residents, c \in Checks : Works(c, r) => Untold(c) \subseteq lost'[r]
  BY <1>4 DEF Restart, Inv
<1>6. TypeOK'
  BY <1>2, <1>3 DEF Inv, StoredIsTold, TypeOK, CheckType, data
<1>7. StoredIsTold'
  BY <1>3, <1>5, <1>6, ResidentsAssumption DEF Inv, StoredIsTold, data
<1> QED
  BY <1>2, <1>3, <1>5, <1>7 DEF Inv, Working

LEMMA AroundInv == Inv /\ (SourceChanges \/ WindowPasses \/ UNCHANGED vars) => Inv'
<1> SUFFICES ASSUME Inv, SourceChanges \/ WindowPasses \/ UNCHANGED vars PROVE Inv'
  OBVIOUS
<1>1. /\ UNCHANGED <<address, stored, check, told, lost>>
      /\ today' \in 0..MaxWindow
  BY WindowAssumption DEF Inv, SourceChanges, WindowPasses, vars, data, history, budget
<1>2. source' \in [Areas -> SUBSET Outage]
  BY DEF Inv, StoredIsTold, TypeOK, SourceChanges, WindowPasses, vars, data
<1>3. TypeOK'
  BY <1>1, <1>2 DEF Inv, StoredIsTold, TypeOK
<1>4. StoredIsTold'
  BY <1>1, <1>3 DEF Inv, StoredIsTold, Works, Untold
<1> QED
  BY <1>1, <1>4 DEF Inv

LEMMA NextInv == Inv /\ [Next]_vars => Inv'
<1> SUFFICES ASSUME Inv, Next PROVE Inv'
  BY AroundInv
<1>1. CASE SourceChanges \/ WindowPasses
  BY <1>1, AroundInv
<1>2. CASE Restart
  BY <1>2, RestartInv
<1>3. ASSUME NEW c \in Passes, Tick(c) PROVE Inv'
  BY <1>3, TickInv DEF Checks
<1>4. ASSUME NEW c \in Requests, save_profile(c) PROVE Inv'
  BY <1>4, SaveInv DEF Checks
<1>5. ASSUME NEW c \in Checks, Step(c) PROVE Inv'
  BY <1>5, FetchInv, ReadInv, StoreInv, GateInv, EnqueueInv, PruneInv, ThrowInv DEF Step
<1> QED
  BY <1>1, <1>2, <1>3, <1>4, <1>5 DEF Next

\* A status stored for a resident with alerts on has been told, or a check under way
\* still tells it, or the check that stored it has failed.
THEOREM StoredAlwaysTold == Spec => []StoredIsTold
<1>1. Inv => StoredIsTold
  BY DEF Inv
<1> QED
  BY <1>1, InitInv, NextInv, PTL DEF Spec

-----------------------------------------------------------------------------
(* Nobody is told the same twice. *)

Older(o, k) == o.id = k.id => o.status <= k.status
OnceIn(S) == \A o, p \in S : o.id = p.id => o = p

\* Nothing in S is news to the source.
NoNewer(S) ==
  \A o \in S : o.status <= changes /\ \A a \in Areas : \A p \in source[a] : Older(o, p)

\* What a resident was told is stored for them, or something later of the same outage.
Known(S, T) == \A o \in T : \E k \in S : k.id = o.id /\ o.status <= k.status

\* A check that nothing overtakes compares with what is stored last: what it stores is
\* later, and what it has to tell was not told.  S is what is stored for its resident
\* and T what they were told.
UpToDate(q, S, T) ==
  /\ q.phase = "read" =>
       OnceIn(q.fetched) /\ \A o \in q.fetched : \A k \in S : Older(k, o)
  /\ q.phase = "store" =>
       /\ OnceIn(q.fresh) /\ q.fresh \cap T = {} /\ q.fresh \ q.left \subseteq S
       /\ \A o \in q.left : \A k \in S : k.id = o.id => k.status < o.status
  /\ q.phase \in {"gate", "enqueue"} => q.left \subseteq S /\ q.left \cap T = {}

SourceOK ==
  /\ changes \in Nat
  /\ \A a \in Areas : \A o \in source[a] : o.status <= changes
  /\ \A a, b \in Areas : \A o \in source[a] : \A p \in source[b] : o.id = p.id => o = p

Alone(r) == \A c, d \in Checks : Works(c, r) /\ Works(d, r) => c = d

OnceInv ==
  /\ SourceOK
  /\ \A r \in Residents : NoNewer(stored[r])
  /\ \A c \in Checks : NoNewer(check[c].fetched \cup check[c].fresh) /\ check[c].now <= today
  /\ \A r \in Residents \ overlapped : Alone(r)
  /\ today = 0 => \A r \in Residents \ overlapped :
       /\ Known(stored[r], told[r])
       /\ \A c \in Checks : Works(c, r) => UpToDate(check[c], stored[r], told[r])

LEMMA OutageTypes ==
  ASSUME Inv
  PROVE  /\ source \in [Areas -> SUBSET Outage]
         /\ stored \in [Residents -> SUBSET Outage] /\ told \in [Residents -> SUBSET Outage]
         /\ check \in [Checks -> CheckType] /\ today \in Nat
         /\ \A o \in Outage : o.status \in Nat /\ o = [id |-> o.id, status |-> o.status]
BY WindowAssumption DEF Inv, StoredIsTold, TypeOK, CheckType, Dated, Outage, Statuses

\* A step of check c, which may have stored for or told the resident it works on.
LEMMA StepOnce ==
  ASSUME Inv, OnceInv, NEW c \in Checks, NEW k \in CheckType,
         check' = [check EXCEPT ![c] = k],
         UNCHANGED <<source, changes, today>>, overlapped \subseteq overlapped',
         NoNewer(k.fetched \cup k.fresh), k.now <= today,
         \A r \in Residents : NoNewer(stored'[r]),
         \A r \in Residents :
           \/ stored'[r] = stored[r] /\ told'[r] = told[r]
           \/ Works(c, r) /\ (today = 0 /\ r \notin overlapped => Known(stored'[r], told'[r])),
         \A r \in Residents \ overlapped' :
           k.phase \notin {"idle", "next"} /\ k.resident = r =>
             /\ Works(c, r) \/ \A d \in Checks \ {c} : ~Works(d, r)
             /\ today = 0 => UpToDate(k, stored'[r], told'[r])
  PROVE  OnceInv'
<1>1. /\ check' \in [Checks -> CheckType] /\ check'[c] = k
      /\ \A d \in Checks \ {c} : check'[d] = check[d]
      /\ \A d \in Checks \ {c}, r \in Residents : Works(d, r)' <=> Works(d, r)
      /\ \A r \in Residents : Works(c, r)' <=> k.phase \notin {"idle", "next"} /\ k.resident = r
  BY OthersKeep DEF Works
<1>3. SourceOK'
  BY DEF OnceInv, SourceOK
<1>4. \A r \in Residents : NoNewer(stored[r])'
  BY DEF NoNewer
<1>5. \A d \in Checks : NoNewer(check[d].fetched \cup check[d].fresh)' /\ check'[d].now <= today'
  <2> SUFFICES ASSUME NEW d \in Checks
               PROVE  NoNewer(check[d].fetched \cup check[d].fresh)' /\ check'[d].now <= today'
    OBVIOUS
  <2>1. CASE d = c
    BY <1>1, <2>1 DEF NoNewer
  <2>2. CASE d # c
    BY <1>1, <2>2 DEF NoNewer, OnceInv
  <2> QED
    BY <2>1, <2>2
<1>6. ASSUME NEW r \in Residents \ overlapped' PROVE Alone(r)'
  <2>1. Alone(r)
    BY DEF OnceInv
  <2>2. Works(c, r)' => Works(c, r) \/ \A d \in Checks \ {c} : ~Works(d, r)
    BY <1>1
  <2> QED
    BY <1>1, <2>1, <2>2 DEF Alone
<1>7. ASSUME today = 0, NEW r \in Residents \ overlapped'
      PROVE  /\ Known(stored'[r], told'[r])
             /\ \A d \in Checks : Works(d, r)' => UpToDate(check'[d], stored'[r], told'[r])
  <2>1. r \in Residents \ overlapped /\ Alone(r) /\ Known(stored[r], told[r])
    BY <1>7 DEF OnceInv
  <2>2. Known(stored'[r], told'[r])
    BY <1>7, <2>1
  <2>3. ASSUME NEW d \in Checks, Works(d, r)'
        PROVE  UpToDate(check'[d], stored'[r], told'[r])
    <3>1. CASE d = c
      BY <1>1, <1>7, <2>3, <3>1
    <3>2. CASE d # c
      <4>1. Works(d, r) /\ check'[d] = check[d]
        BY <1>1, <2>3, <3>2
      <4>2. ~Works(c, r)
        BY <2>1, <3>2, <4>1 DEF Alone
      <4>3. stored'[r] = stored[r] /\ told'[r] = told[r]
        BY <4>2
      <4>4. UpToDate(check[d], stored[r], told[r])
        BY <1>7, <2>1, <4>1 DEF OnceInv
      <4> QED
        BY <4>1, <4>3, <4>4
    <3> QED
      BY <3>1, <3>2
  <2> QED
    BY <2>2, <2>3
<1> QED
  BY <1>3, <1>4, <1>5, <1>6, <1>7 DEF OnceInv

\* A check that does not work on anybody after its step.
LEMMA RestOnce ==
  ASSUME Inv, OnceInv, NEW c \in Checks, NEW k \in CheckType,
         check' = [check EXCEPT ![c] = k],
         UNCHANGED <<source, changes, today, stored, told>>, overlapped \subseteq overlapped',
         k.phase \in {"idle", "next"}, k.fetched = {}, k.fresh = {}, k.now <= today
  PROVE  OnceInv'
<1>1. \A r \in Residents : stored'[r] = stored[r] /\ told'[r] = told[r]
  OBVIOUS
<1>2. NoNewer(k.fetched \cup k.fresh) /\ \A r \in Residents : NoNewer(stored'[r])
  BY DEF NoNewer, OnceInv
<1> QED
  BY <1>1, <1>2, StepOnce

LEMMA OverRests ==
  ASSUME NEW todo \in SUBSET (Residents \X (Areas \cup {NoZip})), NEW now \in 0..MaxWindow
  PROVE  /\ Over(todo, now) \in CheckType
         /\ Over(todo, now).phase \in {"idle", "next"}
         /\ Over(todo, now).fetched = {} /\ Over(todo, now).fresh = {}
         /\ Over(todo, now).now \in {0, now}
<1>1. CASE todo = {}
  BY <1>1, OverType DEF Over, Idle
<1>2. CASE todo # {}
  BY <1>2, OverType DEF Over, Idle
<1> QED
  BY <1>1, <1>2

LEMMA TickOnce == ASSUME Inv, OnceInv, NEW c \in Checks, Tick(c) PROVE OnceInv'
<1> DEFINE todo == {<<r, address[r]>> : r \in {q \in Residents : address[q] # NoStreet}}
           k == Over(todo, today)
<1>1. todo \in SUBSET (Residents \X (Areas \cup {NoZip})) /\ today \in 0..MaxWindow
  BY DEF Inv, StoredIsTold, TypeOK, Addresses
<1>2. /\ k \in CheckType /\ k.phase \in {"idle", "next"} /\ k.fetched = {} /\ k.fresh = {}
      /\ k.now \in {0, today}
  BY <1>1, OverRests
<1>3. check' = [check EXCEPT ![c] = k] /\ UNCHANGED <<data, history, budget>>
  BY DEF Tick
<1> HIDE DEF k, todo
<1>4. k.now <= today
  BY <1>1, <1>2, OutageTypes
<1>5. UNCHANGED <<source, changes, today, stored, told, overlapped>>
  BY <1>3 DEF data, history, budget
<1> QED
  BY <1>2, <1>3, <1>4, <1>5, RestOnce

LEMMA SaveOnce == ASSUME Inv, OnceInv, NEW c \in Checks, save_profile(c) PROVE OnceInv'
<1> PICK r \in Residents, a \in Addresses :
      check' = [check EXCEPT ![c] = Over(IF a = NoStreet THEN {} ELSE {<<r, a>>}, today)]
  BY DEF save_profile
<1> DEFINE todo == IF a = NoStreet THEN {} ELSE {<<r, a>>}
           k == Over(todo, today)
<1>1. todo \in SUBSET (Residents \X (Areas \cup {NoZip})) /\ today \in 0..MaxWindow
  BY DEF Addresses, Inv
<1>2. /\ k \in CheckType /\ k.phase \in {"idle", "next"} /\ k.fetched = {} /\ k.fresh = {}
      /\ k.now \in {0, today}
  BY <1>1, OverRests
<1>3. check' = [check EXCEPT ![c] = k] /\ UNCHANGED <<source, stored, history, today, changes>>
  BY DEF save_profile
<1> HIDE DEF k, todo
<1>4. k.now <= today
  BY <1>1, <1>2, OutageTypes
<1>5. UNCHANGED <<source, changes, today, stored, told, overlapped>>
  BY <1>3 DEF history
<1> QED
  BY <1>2, <1>3, <1>4, <1>5, RestOnce

LEMMA ThrowOnce == ASSUME Inv, OnceInv, NEW c \in Checks, Throw(c) PROVE OnceInv'
<1>1. /\ check' = [check EXCEPT ![c] = Idle]
      /\ UNCHANGED <<data, told, overlapped, today, changes>>
  BY DEF Throw
<1>2. /\ Idle.phase \in {"idle", "next"} /\ Idle.fetched = {} /\ Idle.fresh = {}
      /\ Idle.now <= today
  BY OutageTypes DEF Idle
<1> QED
  BY <1>1, <1>2, IdleType, RestOnce DEF data

\* What the source reports is news to no one, names each outage once, and is no older
\* than what is stored.
LEMMA ReportedNews ==
  ASSUME Inv, OnceInv, NEW a
  PROVE  /\ Reported(a) \in SUBSET Outage /\ NoNewer(Reported(a)) /\ OnceIn(Reported(a))
         /\ \A r \in Residents : \A o \in Reported(a) : \A k \in stored[r] : Older(k, o)
<1>1. CASE a \in Areas
  <2>1. Reported(a) = source[a] /\ source[a] \in SUBSET Outage
    BY <1>1, OutageTypes DEF Reported
  <2>2. NoNewer(source[a])
    <3> SUFFICES ASSUME NEW o \in source[a], NEW b \in Areas, NEW p \in source[b]
                 PROVE  o.status <= changes /\ Older(o, p)
      BY <1>1 DEF NoNewer, OnceInv, SourceOK
    <3>1. o \in Outage /\ o.status \in Nat
      BY <2>1, OutageTypes
    <3> QED
      BY <1>1, <3>1 DEF Older, OnceInv, SourceOK
  <2>3. OnceIn(source[a])
    BY <1>1 DEF OnceIn, OnceInv, SourceOK
  <2>4. \A r \in Residents : \A o \in source[a] : \A k \in stored[r] : Older(k, o)
    BY <1>1 DEF OnceInv, NoNewer
  <2> QED
    BY <2>1, <2>2, <2>3, <2>4
<1>2. CASE a \notin Areas
  BY <1>2 DEF Reported, NoNewer, OnceIn
<1> QED
  BY <1>1, <1>2

LEMMA FetchOnce == ASSUME Inv, OnceInv, NEW c \in Checks, fetch_outages(c) PROVE OnceInv'
<1> DEFINE asked(t, f) == [[check[c] EXCEPT !.todo = @ \ {t}, !.resident = t[1],
                                            !.phase = "read"] EXCEPT !.fetched = f]
<1> PICK t \in check[c].todo :
      /\ overlapped' = IF \E d \in Checks \ {c} : Works(d, t[1])
                       THEN overlapped \cup {t[1]} ELSE overlapped
      /\ \/ check' = [check EXCEPT ![c] = asked(t, Reported(t[2]))]
         \/ check' = [check EXCEPT ![c] = asked(t, {})]
         \/ check' = [check EXCEPT ![c] = Idle]
  BY DEF fetch_outages
<1>1. check[c] \in CheckType /\ t[1] \in Residents
  BY DEF Inv, StoredIsTold, TypeOK, CheckType
<1>2. UNCHANGED <<source, stored, told, changes, today>> /\ overlapped \subseteq overlapped'
  BY DEF fetch_outages, data
<1>3. CASE check' = [check EXCEPT ![c] = Idle]
  <2>1. /\ Idle.phase \in {"idle", "next"} /\ Idle.fetched = {} /\ Idle.fresh = {}
        /\ Idle.now <= today
    BY OutageTypes DEF Idle
  <2> QED
    BY <1>2, <1>3, <2>1, IdleType, RestOnce
<1>4. ASSUME NEW f \in SUBSET Outage, check' = [check EXCEPT ![c] = asked(t, f)],
             NoNewer(f), OnceIn(f),
             \A r \in Residents : \A o \in f : \A k \in stored[r] : Older(k, o)
      PROVE  OnceInv'
  <2> DEFINE k == asked(t, f)
  <2>1. /\ k \in CheckType /\ k.phase = "read" /\ k.resident = t[1] /\ k.fetched = f
        /\ k.fresh = check[c].fresh /\ k.now = check[c].now
    BY <1>1 DEF CheckType
  <2>2. check' = [check EXCEPT ![c] = k]
    BY <1>4
  <2> HIDE DEF k
  <2>3. NoNewer(k.fetched \cup k.fresh) /\ k.now <= today
    BY <1>4, <2>1 DEF NoNewer, OnceInv
  <2>4. \A r \in Residents : stored'[r] = stored[r] /\ told'[r] = told[r] /\ NoNewer(stored'[r])
    BY <1>2 DEF OnceInv
  <2>5. \A r \in Residents \ overlapped' :
          k.resident = r => /\ \A d \in Checks \ {c} : ~Works(d, r)
                            /\ UpToDate(k, stored'[r], told'[r])
    BY <1>1, <1>2, <1>4, <2>1 DEF UpToDate
  <2> QED
    BY <1>2, <2>1, <2>2, <2>3, <2>4, <2>5, StepOnce
<1> QED
  <2>1. /\ Reported(t[2]) \in SUBSET Outage /\ NoNewer(Reported(t[2])) /\ OnceIn(Reported(t[2]))
        /\ \A r \in Residents : \A o \in Reported(t[2]) : \A k \in stored[r] : Older(k, o)
    BY ReportedNews
  <2>2. {} \in SUBSET Outage /\ NoNewer({}) /\ OnceIn({})
    BY DEF NoNewer, OnceIn
  <2> QED
    BY <1>3, <1>4, <2>1, <2>2

\* What a check works on, as the steps need it.
LEMMA AtWork ==
  ASSUME Inv, OnceInv, NEW c \in Checks, check[c].phase \in Working
  PROVE  /\ check[c] \in CheckType /\ check[c].resident \in Residents
         /\ Works(c, check[c].resident)
         /\ \A r \in Residents : r # check[c].resident => ~Works(c, r)
         /\ NoNewer(check[c].fetched \cup check[c].fresh) /\ check[c].now <= today
         /\ today = 0 /\ check[c].resident \notin overlapped =>
              /\ Known(stored[check[c].resident], told[check[c].resident])
              /\ UpToDate(check[c], stored[check[c].resident], told[check[c].resident])
<1>1. check[c] \in CheckType /\ check[c].resident \in Residents
  BY DEF Inv, StoredIsTold, TypeOK, CheckType
<1>2. Works(c, check[c].resident)
  BY DEF Works, Working
<1>3. \A r \in Residents : r # check[c].resident => ~Works(c, r)
  BY DEF Works
<1>4. NoNewer(check[c].fetched \cup check[c].fresh) /\ check[c].now <= today
  BY DEF OnceInv
<1>5. today = 0 /\ check[c].resident \notin overlapped =>
        /\ Known(stored[check[c].resident], told[check[c].resident])
        /\ UpToDate(check[c], stored[check[c].resident], told[check[c].resident])
  BY <1>1, <1>2 DEF OnceInv
<1> QED
  BY <1>1, <1>2, <1>3, <1>4, <1>5

\* A working check goes on with its resident r.
LEMMA WorkOnce ==
  ASSUME Inv, OnceInv, NEW c \in Checks, NEW r \in Residents, Works(c, r),
         NEW k \in CheckType, check' = [check EXCEPT ![c] = k],
         UNCHANGED <<source, changes, today, overlapped>>,
         NoNewer(k.fetched \cup k.fresh), k.now <= today,
         \A q \in Residents : q # r => stored'[q] = stored[q] /\ told'[q] = told[q],
         NoNewer(stored'[r]), k.resident \in {r, NoOne},
         today = 0 /\ r \notin overlapped =>
           /\ Known(stored'[r], told'[r])
           /\ k.resident = r => UpToDate(k, stored'[r], told'[r])
  PROVE  OnceInv'
<1>1. \A q \in Residents : NoNewer(stored'[q])
  BY DEF OnceInv
<1>2. \A q \in Residents :
        \/ stored'[q] = stored[q] /\ told'[q] = told[q]
        \/ Works(c, q) /\ (today = 0 /\ q \notin overlapped => Known(stored'[q], told'[q]))
  OBVIOUS
<1>3. \A q \in Residents : k.resident = q => q = r
  BY ResidentsAssumption
<1>4. \A q \in Residents \ overlapped' :
        k.phase \notin {"idle", "next"} /\ k.resident = q =>
          /\ Works(c, q) \/ \A d \in Checks \ {c} : ~Works(d, q)
          /\ today = 0 => UpToDate(k, stored'[q], told'[q])
  BY <1>3
<1> QED
  BY <1>1, <1>2, <1>4, StepOnce

LEMMA ReadOnce == ASSUME Inv, OnceInv, NEW c \in Checks, read_outages(c) PROVE OnceInv'
<1> DEFINE r == check[c].resident
           new == Fresh(check[c].fetched, stored[r])
           k == [check[c] EXCEPT !.fetched = {}, !.fresh = new, !.left = new,
                                 !.phase = IF new = {} THEN "prune" ELSE "store"]
<1>1. /\ check[c].phase = "read" /\ UNCHANGED <<data, history, budget>>
      /\ check[c].phase \in Working
  BY DEF read_outages, Working
<1>2. /\ check[c] \in CheckType /\ r \in Residents /\ Works(c, r)
      /\ NoNewer(check[c].fetched) /\ check[c].now <= today
      /\ today = 0 /\ r \notin overlapped =>
           Known(stored[r], told[r]) /\ UpToDate(check[c], stored[r], told[r])
  BY <1>1, AtWork DEF NoNewer
<1>3. new \in SUBSET Outage /\ new \subseteq check[c].fetched
  BY <1>2 DEF Fresh, CheckType
<1>4. /\ k \in CheckType /\ k.resident = r /\ k.left = new /\ k.fresh = new /\ k.fetched = {}
      /\ k.now = check[c].now /\ k.phase \in {"prune", "store"}
  BY <1>2, <1>3 DEF CheckType
<1>5. check' = [check EXCEPT ![c] = k]
  BY OutageTypes DEF read_outages, CheckType
<1>6. NoNewer(k.fetched \cup k.fresh) /\ NoNewer(stored'[r])
  BY <1>1, <1>2, <1>3, <1>4 DEF NoNewer, OnceInv, data
<1>7. ASSUME today = 0, r \notin overlapped PROVE UpToDate(k, stored[r], told[r])
  <2>1. OnceIn(check[c].fetched) /\ \A o \in check[c].fetched : \A q \in stored[r] : Older(q, o)
    BY <1>1, <1>2, <1>7 DEF UpToDate
  <2>2. ASSUME NEW o \in new, NEW q \in stored[r], q.id = o.id PROVE q.status < o.status
    <3>1. o \in Outage /\ q \in Outage
      BY <1>2, <1>3, OutageTypes
    <3>2. q.status <= o.status /\ q.status # o.status
      BY <1>3, <2>1, <2>2 DEF Older, Fresh
    <3> QED
      BY <3>1, <3>2, OutageTypes
  <2>3. new \cap told[r] = {}
    <3> SUFFICES ASSUME NEW o \in new, o \in told[r] PROVE FALSE
      OBVIOUS
    <3>1. PICK q \in stored[r] : q.id = o.id /\ o.status <= q.status
      BY <1>2, <1>7 DEF Known
    <3>2. q.status < o.status
      BY <2>2, <3>1
    <3>3. o.status \in Nat /\ q.status \in Nat
      BY <1>2, <1>3, OutageTypes
    <3> QED
      BY <3>1, <3>2, <3>3
  <2>4. OnceIn(new)
    BY <1>3, <2>1 DEF OnceIn
  <2> HIDE DEF new, k
  <2> QED
    BY <1>4, <2>2, <2>3, <2>4 DEF UpToDate
<1> HIDE DEF new, k
<1> QED
  BY <1>1, <1>2, <1>4, <1>5, <1>6, <1>7, WorkOnce DEF data, history, budget

LEMMA StoreOnce == ASSUME Inv, OnceInv, NEW c \in Checks, store_outage(c) PROVE OnceInv'
<1>1. /\ check[c].phase = "store" /\ UNCHANGED <<source, address, history, budget>>
      /\ check[c].phase \in Working
  BY DEF store_outage, Working
<1> PICK r \in Residents : r = check[c].resident
  BY <1>1, AtWork
<1> PICK o \in Storable(check[c].left) :
      LET rest == check[c].left \ {o} IN
      /\ stored' = [stored EXCEPT ![r] = {k \in @ : k.id # o.id} \cup {o}]
      /\ check' = [check EXCEPT
           ![c].left = IF rest = {} THEN check[c].fresh ELSE rest,
           ![c].phase = IF rest = {} THEN "gate" ELSE "store"]
  BY DEF store_outage
<1> DEFINE rest == check[c].left \ {o}
           k == [check[c] EXCEPT !.left = IF rest = {} THEN check[c].fresh ELSE rest,
                                 !.phase = IF rest = {} THEN "gate" ELSE "store"]
           S == {q \in stored[r] : q.id # o.id} \cup {o}
<1>2. /\ check[c] \in CheckType /\ Works(c, r) /\ check[c].left \subseteq check[c].fresh
      /\ NoNewer(check[c].fetched \cup check[c].fresh) /\ check[c].now <= today
      /\ today = 0 /\ r \notin overlapped =>
           Known(stored[r], told[r]) /\ UpToDate(check[c], stored[r], told[r])
  BY <1>1, AtWork DEF Inv
<1>3. o \in check[c].left /\ o \in check[c].fresh
  BY <1>2 DEF Storable
<1>4. /\ k \in CheckType /\ k.resident = r /\ k.fresh = check[c].fresh
      /\ k.fetched = check[c].fetched /\ k.now = check[c].now
      /\ \/ rest # {} /\ k.phase = "store" /\ k.left = rest
         \/ rest = {} /\ k.phase = "gate" /\ k.left = check[c].fresh
  BY <1>2 DEF CheckType
<1>5. check' = [check EXCEPT ![c] = k]
  BY OutageTypes DEF CheckType
<1>6. stored'[r] = S /\ \A q \in Residents \ {r} : stored'[q] = stored[q]
  BY OutageTypes
<1>7. NoNewer(k.fetched \cup k.fresh) /\ NoNewer(S)
  BY <1>2, <1>3, <1>4 DEF NoNewer, OnceInv
<1>8. ASSUME today = 0, r \notin overlapped PROVE Known(S, told[r]) /\ UpToDate(k, S, told[r])
  <2>1. /\ OnceIn(check[c].fresh) /\ check[c].fresh \cap told[r] = {}
        /\ check[c].fresh \ check[c].left \subseteq stored[r]
        /\ \A q \in check[c].left : \A p \in stored[r] : p.id = q.id => p.status < q.status
    BY <1>1, <1>2, <1>8 DEF UpToDate
  <2>2. Known(S, told[r])
    <3> SUFFICES ASSUME NEW t \in told[r] PROVE \E q \in S : q.id = t.id /\ t.status <= q.status
      BY DEF Known
    <3>1. PICK q \in stored[r] : q.id = t.id /\ t.status <= q.status
      BY <1>2, <1>8 DEF Known
    <3>2. CASE q.id = o.id
      <4>1. q.status < o.status
        BY <1>3, <2>1, <3>2
      <4>2. t.status \in Nat /\ q.status \in Nat /\ o.status \in Nat
        BY <1>2, <1>3, OutageTypes DEF CheckType
      <4>3. o.id = t.id /\ t.status <= o.status
        BY <3>1, <3>2, <4>1, <4>2
      <4> QED
        BY <4>3
    <3> QED
      BY <3>1, <3>2
  <2>3. check[c].fresh \ rest \subseteq S
    <3> SUFFICES ASSUME NEW q \in check[c].fresh, q \notin rest PROVE q \in S
      OBVIOUS
    <3>1. CASE q = o
      BY <3>1
    <3>2. CASE q # o
      <4>1. q \in stored[r]
        BY <2>1, <3>2
      <4>2. q.id # o.id
        BY <1>3, <2>1, <3>2 DEF OnceIn
      <4> QED
        BY <4>1, <4>2
    <3> QED
      BY <3>1, <3>2
  <2>4. ASSUME NEW q \in rest, NEW p \in S, p.id = q.id PROVE p.status < q.status
    <3>1. p # o
      BY <1>2, <1>3, <2>1, <2>4 DEF OnceIn
    <3> QED
      BY <2>1, <2>4, <3>1
  <2> HIDE DEF S, rest, k
  <2>5. CASE k.phase = "store"
    BY <1>4, <2>1, <2>2, <2>3, <2>4, <2>5 DEF UpToDate
  <2>6. CASE k.phase = "gate"
    BY <1>4, <2>1, <2>2, <2>3, <2>6 DEF UpToDate
  <2> QED
    BY <1>4, <2>5, <2>6
<1> HIDE DEF S, k
<1>9. UNCHANGED <<source, changes, today, overlapped, told>>
  BY <1>1 DEF history, budget
<1> QED
  BY <1>2, <1>4, <1>5, <1>6, <1>7, <1>8, <1>9, WorkOnce, ZenonT(40)

LEMMA GateOnce == ASSUME Inv, OnceInv, NEW c \in Checks, notify_gate(c) PROVE OnceInv'
<1>1. /\ check[c].phase = "gate" /\ UNCHANGED <<data, history, budget>>
      /\ check[c].phase \in Working
  BY DEF notify_gate, Working
<1> PICK r \in Residents : r = check[c].resident
  BY <1>1, AtWork
<1>2. /\ check[c] \in CheckType /\ Works(c, r)
      /\ NoNewer(check[c].fetched \cup check[c].fresh) /\ check[c].now <= today
      /\ today = 0 /\ r \notin overlapped =>
           Known(stored[r], told[r]) /\ UpToDate(check[c], stored[r], told[r])
  BY <1>1, AtWork
<1> DEFINE GoesOn(k) ==
      /\ check' = [check EXCEPT ![c] = k]
      /\ k.resident = r /\ k.left \subseteq check[c].left
      /\ k.phase \in {"gate", "enqueue", "prune"}
      /\ k.fetched = check[c].fetched /\ k.fresh = check[c].fresh /\ k.now = check[c].now
<1>3. PICK k \in CheckType : GoesOn(k)
  <2>1. CASE check' = [check EXCEPT ![c].phase = "enqueue"]
    <3> DEFINE k == [check[c] EXCEPT !.phase = "enqueue"]
    <3>1. /\ k \in CheckType /\ k.resident = r /\ k.left = check[c].left /\ k.phase = "enqueue"
          /\ k.fetched = check[c].fetched /\ k.fresh = check[c].fresh /\ k.now = check[c].now
      BY <1>2 DEF CheckType
    <3>2. check' = [check EXCEPT ![c] = k]
      BY <2>1, OutageTypes DEF CheckType
    <3> HIDE DEF k
    <3> QED
      BY <3>1, <3>2
  <2>2. ASSUME NEW o \in check[c].left,
               check' = [check EXCEPT ![c].left = @ \ {o},
                                      ![c].phase = After(check[c].left \ {o})]
        PROVE  \E k \in CheckType : GoesOn(k)
    <3> DEFINE k == [check[c] EXCEPT !.left = @ \ {o}, !.phase = After(check[c].left \ {o})]
    <3>1. /\ k \in CheckType /\ k.resident = r /\ k.left \subseteq check[c].left
          /\ k.phase \in {"gate", "prune"}
          /\ k.fetched = check[c].fetched /\ k.fresh = check[c].fresh /\ k.now = check[c].now
      BY <1>2 DEF CheckType, After
    <3>2. check' = [check EXCEPT ![c] = k]
      BY <2>2, OutageTypes DEF CheckType
    <3> HIDE DEF k
    <3> QED
      BY <3>1, <3>2
  <2> QED
    BY <2>1, <2>2 DEF notify_gate
<1>4. UNCHANGED <<source, changes, today, overlapped, stored, told>>
  BY <1>1 DEF data, history, budget
<1>5. NoNewer(stored[r])
  BY DEF OnceInv
<1>6. ASSUME today = 0, r \notin overlapped PROVE UpToDate(k, stored[r], told[r])
  BY <1>1, <1>2, <1>3, <1>6 DEF UpToDate
<1> QED
  BY <1>2, <1>3, <1>4, <1>5, <1>6, WorkOnce

LEMMA EnqueueOnce == ASSUME Inv, OnceInv, NEW c \in Checks, notify_enqueue(c) PROVE OnceInv'
<1>1. /\ check[c].phase = "enqueue" /\ UNCHANGED <<data, lost, overlapped, budget>>
      /\ check[c].phase \in Working
  BY DEF notify_enqueue, Working
<1> PICK r \in Residents : r = check[c].resident
  BY <1>1, AtWork
<1>2. /\ check[c] \in CheckType /\ Works(c, r)
      /\ NoNewer(check[c].fetched \cup check[c].fresh) /\ check[c].now <= today
      /\ today = 0 /\ r \notin overlapped =>
           Known(stored[r], told[r]) /\ UpToDate(check[c], stored[r], told[r])
  BY <1>1, AtWork
<1> PICK o \in check[c].left :
      /\ told' = [told EXCEPT ![r] = @ \cup {o}]
      /\ check' = [check EXCEPT ![c].left = @ \ {o}, ![c].phase = After(check[c].left \ {o})]
  BY DEF notify_enqueue
<1> DEFINE k == [check[c] EXCEPT !.left = @ \ {o}, !.phase = After(check[c].left \ {o})]
<1>3. /\ k \in CheckType /\ k.phase \in {"prune", "gate"} /\ k.resident = r
      /\ k.left = check[c].left \ {o} /\ k.now = check[c].now
      /\ k.fetched = check[c].fetched /\ k.fresh = check[c].fresh
  BY <1>2 DEF CheckType, After
<1>4. check' = [check EXCEPT ![c] = k]
  BY OutageTypes DEF CheckType
<1> HIDE DEF k
<1>5. told'[r] = told[r] \cup {o} /\ \A q \in Residents \ {r} : told'[q] = told[q]
  BY OutageTypes
<1>6. UNCHANGED <<source, changes, today, overlapped, stored>> /\ NoNewer(stored[r])
  BY <1>1 DEF data, budget, OnceInv
<1>7. ASSUME today = 0, r \notin overlapped
      PROVE  Known(stored[r], told'[r]) /\ UpToDate(k, stored[r], told'[r])
  <2>1. check[c].left \subseteq stored[r] /\ check[c].left \cap told[r] = {}
    BY <1>1, <1>2, <1>7 DEF UpToDate
  <2>2. o \in stored[r] /\ o.status \in Nat
    BY <2>1, OutageTypes
  <2>3. Known(stored[r], told'[r])
    BY <1>2, <1>5, <1>7, <2>2 DEF Known
  <2> QED
    BY <1>3, <1>5, <2>1, <2>3 DEF UpToDate
<1> QED
  BY <1>2, <1>3, <1>4, <1>5, <1>6, <1>7, WorkOnce, ZenonT(40)

\* Within the first window nothing is pruned.
LEMMA PruneOnce == ASSUME Inv, OnceInv, NEW c \in Checks, prune_outages(c) PROVE OnceInv'
<1>1. /\ check[c].phase \in Working /\ UNCHANGED <<source, address, history, budget>>
      /\ check[c].resident \in Residents
  BY DEF prune_outages, Working, Inv
<1> PICK r \in Residents : r = check[c].resident
  BY <1>1
<1>2. /\ check[c] \in CheckType /\ Works(c, r) /\ check[c].now <= today
      /\ today = 0 /\ r \notin overlapped => Known(stored[r], told[r])
  BY <1>1, AtWork
<1> DEFINE k == Over(check[c].todo, check[c].now)
<1>3. /\ k \in CheckType /\ k.phase \in {"idle", "next"} /\ k.fetched = {} /\ k.fresh = {}
      /\ k.now \in {0, check[c].now} /\ k.resident = NoOne
  BY <1>2, OverRests, ZenonT(40) DEF CheckType, Over, Idle
<1>4. check' = [check EXCEPT ![c] = k]
  BY DEF prune_outages
<1> HIDE DEF k
<1>5. /\ \A q \in Residents \ {r} : stored'[q] = stored[q]
      /\ stored'[r] = {o \in stored[r] : ~Aged(check[c].now)}
  BY OutageTypes DEF prune_outages
<1>6. check[c].now \in Nat /\ today \in Nat /\ k.now <= today
  BY <1>2, <1>3, OutageTypes DEF CheckType
<1>7. today = 0 => stored'[r] = stored[r]
  BY <1>2, <1>5, <1>6 DEF Aged
<1>8. NoNewer(k.fetched \cup k.fresh) /\ NoNewer(stored'[r])
  BY <1>3, <1>5 DEF NoNewer, OnceInv
<1>9. UNCHANGED <<source, changes, today, overlapped, told>>
  BY <1>1 DEF history, budget
<1>10. k.resident \in {r, NoOne} /\ k.resident # r
  BY <1>3, ResidentsAssumption
<1> QED
  BY <1>2, <1>3, <1>4, <1>5, <1>6, <1>7, <1>8, <1>9, <1>10, WorkOnce

LEMMA RestartOnce == ASSUME Inv, OnceInv, Restart PROVE OnceInv'
<1>1. /\ UNCHANGED <<source, stored, told, overlapped, today, changes>>
      /\ \A c \in Checks : check'[c] = Idle
  BY DEF Restart, data
<1>2. \A c \in Checks, r \in Residents : ~Works(c, r)'
  BY <1>1 DEF Works, Idle
<1>3. SourceOK' /\ \A r \in Residents : NoNewer(stored[r])'
  BY <1>1 DEF OnceInv, SourceOK, NoNewer
<1>4. \A c \in Checks :
        NoNewer(check[c].fetched \cup check[c].fresh)' /\ check'[c].now <= today'
  BY <1>1, OutageTypes DEF Idle, NoNewer
<1>5. \A r \in Residents \ overlapped' : Alone(r)'
  BY <1>2 DEF Alone
<1> QED
  BY <1>1, <1>2, <1>3, <1>4, <1>5 DEF OnceInv

\* What the provider reports anew is later than all it reported.
LEMMA SourceOnce == ASSUME Inv, OnceInv, SourceChanges PROVE OnceInv'
<1> PICK a \in Areas, o \in Outage :
      /\ o.status = changes + 1
      /\ \A b \in Areas \ {a} : \A p \in source[b] : p.id # o.id
      /\ \E kept \in {{}, {o}} :
           source' = [source EXCEPT ![a] = {p \in @ : p.id # o.id} \cup kept]
  BY DEF SourceChanges
<1> DEFINE Stale(S) ==
      \A s \in S : s.status <= changes' /\ \A b \in Areas : \A p \in source'[b] : Older(s, p)
<1>1. /\ changes \in Nat /\ changes' = changes + 1
      /\ UNCHANGED <<stored, check, told, overlapped, today>>
  BY DEF SourceChanges, history, OnceInv, SourceOK
<1>2. ASSUME NEW b \in Areas, NEW p \in source'[b]
      PROVE  (p = o /\ b = a) \/ (p \in source[b] /\ p.id # o.id)
  BY <1>2, OutageTypes
<1>3. SourceOK'
  <2>1. ASSUME NEW b \in Areas, NEW p \in source'[b] PROVE p.status <= changes'
    <3>1. CASE p = o
      BY <1>1, <3>1
    <3>2. CASE p \in source[b]
      <4>1. p.status \in Nat /\ p.status <= changes
        BY <3>2, OutageTypes DEF OnceInv, SourceOK
      <4> QED
        BY <1>1, <4>1
    <3> QED
      BY <1>2, <2>1, <3>1, <3>2
  <2>2. ASSUME NEW b \in Areas, NEW d \in Areas, NEW p \in source'[b], NEW q \in source'[d],
               p.id = q.id
        PROVE  p = q
    <3>1. CASE p \in source[b] /\ q \in source[d]
      BY <2>2, <3>1 DEF OnceInv, SourceOK
    <3> QED
      BY <1>2, <2>2, <3>1
  <2> QED
    BY <1>1, <2>1, <2>2 DEF SourceOK
<1>4. ASSUME NEW S \in SUBSET Outage, NoNewer(S) PROVE Stale(S)
  <2> SUFFICES ASSUME NEW s \in S
               PROVE  s.status <= changes' /\ \A b \in Areas : \A p \in source'[b] : Older(s, p)
    OBVIOUS
  <2>1. s.status \in Nat /\ s.status <= changes
    BY <1>4, OutageTypes DEF NoNewer
  <2>2. s.status <= changes'
    BY <1>1, <2>1
  <2>3. ASSUME NEW b \in Areas, NEW p \in source'[b] PROVE Older(s, p)
    <3>1. CASE p = o
      BY <1>1, <2>1, <3>1 DEF Older
    <3>2. CASE p \in source[b]
      BY <1>4, <3>2 DEF NoNewer
    <3> QED
      BY <1>2, <2>3, <3>1, <3>2
  <2> QED
    BY <2>2, <2>3
<1>5. \A r \in Residents : NoNewer(stored[r])'
  <2>1. \A r \in Residents : stored[r] \in SUBSET Outage /\ NoNewer(stored[r])
    BY OutageTypes DEF OnceInv
  <2>2. \A r \in Residents : Stale(stored[r])
    BY <1>4, <2>1
  <2> QED
    BY <1>1, <2>2 DEF NoNewer
<1>6. \A c \in Checks :
        NoNewer(check[c].fetched \cup check[c].fresh)' /\ check'[c].now <= today'
  <2>1. \A c \in Checks : /\ check[c].fetched \cup check[c].fresh \in SUBSET Outage
                          /\ NoNewer(check[c].fetched \cup check[c].fresh)
                          /\ check[c].now <= today
    BY OutageTypes DEF OnceInv, CheckType
  <2>2. \A c \in Checks : Stale(check[c].fetched \cup check[c].fresh)
    BY <1>4, <2>1
  <2> QED
    BY <1>1, <2>1, <2>2 DEF NoNewer
<1>7. /\ \A r \in Residents \ overlapped' : Alone(r)'
      /\ today' = 0 => \A r \in Residents \ overlapped' :
           /\ Known(stored'[r], told'[r])
           /\ \A c \in Checks : Works(c, r)' => UpToDate(check'[c], stored'[r], told'[r])
  BY <1>1 DEF OnceInv, Alone, Works
<1> QED
  BY <1>3, <1>5, <1>6, <1>7 DEF OnceInv

LEMMA WindowOnce == ASSUME Inv, OnceInv, WindowPasses PROVE OnceInv'
<1>1. /\ today' = today + 1 /\ today \in Nat
      /\ UNCHANGED <<source, stored, check, told, overlapped, changes>>
  BY OutageTypes DEF WindowPasses, data, history
<1>2. today' # 0
  BY <1>1
<1>3. SourceOK' /\ \A r \in Residents : NoNewer(stored[r])' /\ (r \notin overlapped => Alone(r)')
  BY <1>1 DEF OnceInv, SourceOK, NoNewer, Alone, Works
<1>4. \A c \in Checks : NoNewer(check[c].fetched \cup check[c].fresh)'
  BY <1>1 DEF OnceInv, NoNewer
<1>5. ASSUME NEW c \in Checks PROVE check[c].now <= today'
  <2>1. check[c].now \in 0..MaxWindow
    BY OutageTypes DEF CheckType
  <2>2. check[c].now \in Nat
    BY <2>1, WindowAssumption
  <2>3. check[c].now <= today
    BY DEF OnceInv
  <2> QED
    BY <1>1, <2>2, <2>3
<1> QED
  BY <1>1, <1>2, <1>3, <1>4, <1>5 DEF OnceInv

LEMMA StutterOnce == ASSUME OnceInv, UNCHANGED vars PROVE OnceInv'
<1>1. /\ UNCHANGED <<source, stored, check, told, overlapped, changes, today>>
  BY DEF vars, data, history, budget
<1>2. SourceOK' /\ \A r \in Residents : NoNewer(stored[r])' /\ (r \notin overlapped => Alone(r)')
  BY <1>1 DEF OnceInv, SourceOK, NoNewer, Alone, Works
<1>3. \A c \in Checks : NoNewer(check[c].fetched \cup check[c].fresh)' /\ check[c].now <= today
  BY <1>1 DEF OnceInv, NoNewer
<1>4. today = 0 => \A r \in Residents \ overlapped :
        /\ Known(stored[r], told[r])
        /\ \A c \in Checks : Works(c, r)' => UpToDate(check[c], stored[r], told[r])
  BY <1>1 DEF OnceInv, Works
<1> QED
  BY <1>1, <1>2, <1>3, <1>4 DEF OnceInv

LEMMA InitOnce == Init => OnceInv
<1> SUFFICES ASSUME Init PROVE OnceInv
  OBVIOUS
<1>1. SourceOK /\ \A r \in Residents : NoNewer(stored[r]) /\ Known(stored[r], told[r])
  BY DEF Init, SourceOK, NoNewer, Known
<1>2. \A c \in Checks : NoNewer(check[c].fetched \cup check[c].fresh) /\ check[c].now <= today
  BY DEF Init, NoNewer, Idle
<1>3. \A c \in Checks, r \in Residents : ~Works(c, r)
  BY DEF Init, Idle, Works
<1> QED
  BY <1>1, <1>2, <1>3 DEF OnceInv, Alone

LEMMA NextOnce == Inv /\ OnceInv /\ [Next]_vars => OnceInv'
<1> SUFFICES ASSUME Inv, OnceInv, Next PROVE OnceInv'
  BY StutterOnce
<1>1. CASE SourceChanges \/ WindowPasses \/ Restart
  BY <1>1, SourceOnce, WindowOnce, RestartOnce
<1>2. ASSUME NEW c \in Passes, Tick(c) PROVE OnceInv'
  BY <1>2, TickOnce DEF Checks
<1>3. ASSUME NEW c \in Requests, save_profile(c) PROVE OnceInv'
  BY <1>3, SaveOnce DEF Checks
<1>4. ASSUME NEW c \in Checks, Step(c) PROVE OnceInv'
  BY <1>4, FetchOnce, ReadOnce, StoreOnce, GateOnce, EnqueueOnce, PruneOnce, ThrowOnce DEF Step
<1> QED
  BY <1>1, <1>2, <1>3, <1>4 DEF Next

\* A resident is told the same status twice only if two checks of theirs overlapped, or
\* the outage is older than the retention window.
THEOREM NobodyToldTwice == Spec => ToldOnce
<1> DEFINE Once == \A r \in Residents, o \in Outage, c \in Checks :
                     (Works(c, r) /\ notify_enqueue(c) /\ o \in check[c].left \ check'[c].left) =>
                       \/ o \notin told[r]
                       \/ r \in overlapped
                       \/ Aged(today)
<1>1. Inv /\ OnceInv => Once
  <2> SUFFICES ASSUME Inv, OnceInv, NEW r \in Residents, NEW o \in Outage, NEW c \in Checks,
                      Works(c, r), notify_enqueue(c), o \in check[c].left,
                      r \notin overlapped, ~Aged(today)
               PROVE  o \notin told[r]
    OBVIOUS
  <2>1. today = 0
    BY OutageTypes DEF Aged
  <2>2. UpToDate(check[c], stored[r], told[r])
    BY <2>1 DEF OnceInv
  <2> QED
    BY <2>2 DEF UpToDate, notify_enqueue
<1>2. Inv /\ OnceInv /\ [Next]_vars => [Once]_vars
  BY <1>1
<1>3. Init => Inv /\ OnceInv
  BY InitInv, InitOnce
<1>4. Inv /\ OnceInv /\ [Next]_vars => (Inv /\ OnceInv)'
  BY NextInv, NextOnce
<1>5. ToldOnce <=> [][Once]_vars
  BY DEF ToldOnce
<1> QED
  BY <1>2, <1>3, <1>4, <1>5, PTL DEF Spec
=============================================================================
