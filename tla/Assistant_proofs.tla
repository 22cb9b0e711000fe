-------------------------- MODULE Assistant_proofs --------------------------
(***************************************************************************)
(* Invariance and refinement proofs for Assistant, for any number of turns, *)
(* sessions, channels and tools and any limits: what append_history makes  *)
(* of a sound history; that a history stays one; the queues; the breaker;  *)
(* what is stored once; and what a turn asks, shows and stores.            *)
(***************************************************************************)
EXTENDS Assistant, SequenceTheorems, TLAPS

-----------------------------------------------------------------------------
(* append_history, for every limit. *)

\* Parity, apart from sequences.
LEMMA EvenShift ==
  ASSUME NEW i \in Int, NEW k \in Int, k % 2 = 0
  PROVE  (i + k) % 2 = i % 2
OBVIOUS

LEMMA OddShift ==
  ASSUME NEW i \in Int, NEW k \in Int, k % 2 = 1
  PROVE  (i + k) % 2 = 1 - (i % 2)
OBVIOUS

LEMMA EvenPlusTwo ==
  ASSUME NEW n \in Int, n % 2 = 0
  PROVE  (n + 2) % 2 = 0 /\ (n + 1) % 2 = 1
OBVIOUS

LEMMA OddBelowEven ==
  ASSUME NEW n \in Int, NEW d \in Int, n % 2 = 0, d % 2 = 1, d <= n
  PROVE  d + 1 <= n
OBVIOUS

LEMMA OneIsOdd == 1 % 2 = 1 /\ 2 % 2 = 0 /\ \A n \in Int : n % 2 \in {0, 1}
OBVIOUS

LEMMA EvenDifference ==
  ASSUME NEW n \in Int, NEW k \in Int, n % 2 = 0, k % 2 = 0
  PROVE  (n - k) % 2 = 0
OBVIOUS

-----------------------------------------------------------------------------
LEMMA ConcatPaired ==
  ASSUME NEW h \in Seq(Messages), NEW t \in Turns, Paired(h)
  PROVE  /\ h \o message_pair(t) \in Seq(Messages)
         /\ Paired(h \o message_pair(t))
<1> DEFINE p == message_pair(t)
           g == h \o p
           n == Len(h)
<1>1. /\ p \in Seq(Messages) /\ Len(p) = 2
      /\ p[1] = [role |-> "user", turn |-> t]
      /\ p[2] = [role |-> "assistant", turn |-> t]
  BY DEF message_pair, Messages
<1>2. n \in Nat /\ n % 2 = 0
  BY LenProperties DEF Paired
<1> HIDE DEF p, n
<1>3. /\ g \in Seq(Messages) /\ Len(g) = n + 2
      /\ \A i \in 1..(n + 2) : g[i] = IF i <= n THEN h[i] ELSE p[i - n]
  <2>1. /\ h \o p \in Seq(Messages)
        /\ Len(h \o p) = Len(h) + Len(p)
        /\ \A i \in 1..(Len(h) + Len(p)) :
             (h \o p)[i] = IF i <= Len(h) THEN h[i] ELSE p[i - Len(h)]
    BY <1>1, ConcatProperties, Zenon
  <2> QED
    BY <2>1, <1>1, Zenon DEF n
<1> HIDE DEF g
<1>4. ASSUME NEW i \in 1..n PROVE g[i] = h[i]
  <2>1. i \in 1..(n + 2) /\ i <= n
    BY <1>2
  <2> QED
    BY <2>1, <1>3
<1>5. g[n + 1] = p[1] /\ g[n + 2] = p[2]
  BY <1>2, <1>3
<1>6. ASSUME NEW i \in 1..(n + 2)
      PROVE  /\ g[i].role = IF i % 2 = 1 THEN "user" ELSE "assistant"
             /\ i % 2 = 1 => g[i].turn = g[i + 1].turn
  <2>1. CASE i <= n
    <3>1. i \in 1..n
      BY <2>1, <1>2
    <3>2. /\ h[i].role = IF i % 2 = 1 THEN "user" ELSE "assistant"
          /\ i % 2 = 1 => h[i].turn = h[i + 1].turn
      BY <3>1 DEF Paired, n
    <3>3. i % 2 = 1 => i + 1 \in 1..n
      BY <3>1, <1>2, OddBelowEven
    <3> QED
      BY <3>1, <3>2, <3>3, <1>4
  <2>2. CASE i = n + 1
    <3>1. i % 2 = 1 /\ i + 1 = n + 2
      BY <2>2, <1>2, EvenPlusTwo
    <3>2. /\ g[i] = [role |-> "user", turn |-> t]
          /\ g[i + 1] = [role |-> "assistant", turn |-> t]
      BY <2>2, <3>1, <1>1, <1>5
    <3> QED
      BY <3>1, <3>2
  <2>3. CASE i = n + 2
    <3>1. i % 2 = 0
      BY <2>3, <1>2, EvenPlusTwo
    <3>2. g[i] = [role |-> "assistant", turn |-> t]
      BY <2>3, <1>1, <1>5
    <3> QED
      BY <3>1, <3>2
  <2> QED
    BY <2>1, <2>2, <2>3, <1>2
<1>7. Paired(g)
  BY <1>2, <1>3, <1>6, EvenPlusTwo DEF Paired
<1> QED
  BY <1>3, <1>7 DEF g, p

\* r is g without its first k messages.
Suffix(r, g, k) == /\ r \in Seq(Messages)
                   /\ k \in 0..Len(g)
                   /\ Len(r) = Len(g) - k
                   /\ \A i \in 1..(Len(g) - k) : r[i] = g[i + k]

LEMMA WithoutFirst ==
  ASSUME NEW m \in Seq(Messages), NEW k \in 0..Len(m)
  PROVE  Suffix(SubSeq(m, k + 1, Len(m)), m, k)
<1> DEFINE n == Len(m)
           r == SubSeq(m, k + 1, n)
<1>1. n \in Nat /\ k \in Int /\ k >= 0 /\ k <= n
  BY LenProperties
<1>2. \A i \in (k + 1)..n : m[i] \in Messages
  BY <1>1, ElementOfSeq
<1> HIDE DEF n
<1>3. /\ r \in Seq(Messages)
      /\ Len(r) = IF k + 1 <= n THEN n - (k + 1) + 1 ELSE 0
      /\ \A i \in 1..(n - (k + 1) + 1) : r[i] = m[(k + 1) + i - 1]
  BY <1>1, <1>2, SubSeqProperties
<1> HIDE DEF r
<1>4. Len(r) = n - k /\ \A i \in 1..(n - k) : r[i] = m[i + k]
  BY <1>1, <1>3
<1> QED
  BY <1>1, <1>3, <1>4 DEF Suffix, n, r

LEMMA SuffixOfSuffix ==
  ASSUME NEW g, NEW m, NEW r, NEW d, NEW e, Len(g) \in Nat,
         Suffix(m, g, d), Suffix(r, m, e)
  PROVE  Suffix(r, g, d + e)
<1> DEFINE n == Len(g)
<1>1. /\ n \in Nat /\ d \in 0..n /\ Len(m) = n - d /\ e \in 0..(n - d)
      /\ Len(r) = (n - d) - e /\ r \in Seq(Messages)
      /\ \A i \in 1..(n - d) : m[i] = g[i + d]
      /\ \A i \in 1..((n - d) - e) : r[i] = m[i + e]
  BY DEF Suffix
<1> HIDE DEF n
<1>2. d + e \in 0..n /\ Len(r) = n - (d + e)
  BY <1>1
<1>3. ASSUME NEW i \in 1..(n - (d + e))
      PROVE  r[i] = g[i + (d + e)]
  <2>1. i \in 1..((n - d) - e) /\ i + e \in 1..(n - d)
    BY <1>1
  <2>2. r[i] = m[i + e] /\ m[i + e] = g[(i + e) + d]
    BY <1>1, <2>1
  <2>3. (i + e) + d = i + (d + e)
    BY <1>1
  <2> QED
    BY <2>2, <2>3
<1> QED
  BY <1>1, <1>2, <1>3 DEF Suffix, n

LEMMA MostRecentSuffix ==
  ASSUME NEW g \in Seq(Messages)
  PROVE  /\ Len(most_recent(g)) <= MaxHistory
         /\ \E d \in 0..Len(g) : Suffix(most_recent(g), g, d)
<1> DEFINE n == Len(g)
<1>1. n \in Nat /\ MaxHistory \in Nat
  BY HistoryAssumption, LenProperties
<1> HIDE DEF n
<1>2. CASE n > MaxHistory
  <2> DEFINE d == n - MaxHistory
  <2>1. most_recent(g) = SubSeq(g, d + 1, n)
    BY <1>2 DEF most_recent, n
  <2>2. d \in 0..n /\ n - d = MaxHistory
    BY <1>1, <1>2
  <2> HIDE DEF d
  <2>3. Suffix(most_recent(g), g, d)
    BY <2>1, <2>2, WithoutFirst DEF n
  <2>4. Len(most_recent(g)) = MaxHistory
    BY <2>2, <2>3 DEF Suffix, n
  <2> QED
    BY <1>1, <2>2, <2>3, <2>4 DEF n
<1>3. CASE n <= MaxHistory
  <2>1. most_recent(g) = g
    BY <1>1, <1>3 DEF most_recent, n
  <2>2. /\ 0 \in 0..n /\ Len(g) = n - 0
        /\ \A i \in 1..(n - 0) : g[i] = g[i + 0]
    BY <1>1 DEF n
  <2>3. Suffix(g, g, 0)
    BY <2>2 DEF Suffix, n
  <2> QED
    BY <2>1, <2>2, <2>3, <1>3 DEF n
<1> QED
  BY <1>1, <1>2, <1>3

LEMMA EvenSuffixPaired ==
  ASSUME NEW g \in Seq(Messages), Paired(g), NEW r, NEW k,
         Suffix(r, g, k), k % 2 = 0
  PROVE  Paired(r)
<1> DEFINE n == Len(g)
<1>1. /\ n \in Nat /\ n % 2 = 0 /\ k \in 0..n /\ Len(r) = n - k
      /\ \A i \in 1..(n - k) : r[i] = g[i + k]
  BY LenProperties DEF Paired, Suffix
<1>2. \A i \in 1..n :
        /\ g[i].role = IF i % 2 = 1 THEN "user" ELSE "assistant"
        /\ i % 2 = 1 => g[i].turn = g[i + 1].turn
  BY DEF Paired
<1> HIDE DEF n
<1>3. (n - k) % 2 = 0
  BY <1>1, EvenDifference
<1>4. ASSUME NEW i \in 1..(n - k)
      PROVE  /\ r[i].role = IF i % 2 = 1 THEN "user" ELSE "assistant"
             /\ i % 2 = 1 => r[i].turn = r[i + 1].turn
  <2>1. i + k \in 1..n /\ (i + k) % 2 = i % 2
    BY <1>1, EvenShift
  <2>2. r[i] = g[i + k]
    BY <1>1
  <2>3. ASSUME i % 2 = 1 PROVE r[i + 1] = g[(i + k) + 1]
    <3>1. i + 1 <= n - k
      BY <2>3, <1>1, <1>3, OddBelowEven, SMTT(20)
    <3>2. i + 1 \in 1..(n - k) /\ (i + 1) + k = (i + k) + 1
      BY <3>1, <1>1
    <3>3. r[i + 1] = g[(i + 1) + k]
      BY <1>1, <3>2
    <3> QED
      BY <3>2, <3>3
  <2>4. /\ g[i + k].role = IF (i + k) % 2 = 1 THEN "user" ELSE "assistant"
        /\ (i + k) % 2 = 1 => g[i + k].turn = g[(i + k) + 1].turn
    BY <1>2, <2>1
  <2> QED
    BY <2>1, <2>2, <2>3, <2>4
<1> QED
  BY <1>1, <1>3, <1>4 DEF Paired

LEMMA FromFirstUserPaired ==
  ASSUME NEW g \in Seq(Messages), Paired(g), NEW m, NEW d, Suffix(m, g, d)
  PROVE  /\ from_first_user(m) \in Seq(Messages)
         /\ Paired(from_first_user(m))
         /\ Len(from_first_user(m)) <= Len(m)
         /\ \E k \in 0..Len(g) : Suffix(from_first_user(m), g, k)
<1> DEFINE n == Len(g)
           l == Len(m)
           P(i) == /\ \A j \in 1..(i - 1) : m[j].role = "assistant"
                   /\ i <= l => m[i].role # "assistant"
           first == CHOOSE i \in 1..(l + 1) : P(i)
<1>1. /\ n \in Nat /\ n % 2 = 0 /\ d \in 0..n /\ l = n - d
      /\ \A i \in 1..l : m[i] = g[i + d]
      /\ m \in Seq(Messages)
  BY LenProperties DEF Paired, Suffix
<1>2. \A i \in 1..n :
        g[i].role = IF i % 2 = 1 THEN "user" ELSE "assistant"
  BY DEF Paired
<1>3. from_first_user(m) = SubSeq(m, first, l)
  BY DEF from_first_user
<1> HIDE DEF n, l
<1>4. l \in Nat /\ d \in Int
  BY <1>1
<1>5. PICK e \in 0..l : (d + e) % 2 = 0 /\ first = e + 1
  <2>1. CASE d % 2 = 0
    <3>1. ASSUME l >= 1 PROVE m[1].role = "user"
      <4>1. 1 \in 1..l /\ 1 + d \in 1..n /\ (1 + d) % 2 = 1
        BY <3>1, <1>1, <2>1, EvenShift, OneIsOdd
      <4> QED
        BY <4>1, <1>1, <1>2
    <3>2. 1 \in 1..(l + 1) /\ P(1)
      BY <3>1, <1>4
    <3>3. ASSUME NEW i \in 1..(l + 1), P(i), i # 1 PROVE FALSE
      <4>1. 1 \in 1..(i - 1) /\ l >= 1
        BY <3>3, <1>4
      <4> QED
        BY <4>1, <3>1, <3>3
    <3> HIDE DEF P
    <3>4. first = 1
      BY <3>2, <3>3
    <3>5. 0 \in 0..l /\ (d + 0) % 2 = 0 /\ first = 0 + 1
      BY <3>4, <2>1, <1>4
    <3> QED
      BY <3>5
  <2>2. CASE d % 2 = 1
    <3>1. d + 1 <= n
      BY <2>2, <1>1, OddBelowEven
    <3>2. 1 \in 1..l /\ 1 + d \in 1..n /\ (1 + d) % 2 = 0
      BY <3>1, <1>1, <2>2, OddShift, OneIsOdd
    <3>3. m[1].role = "assistant"
      BY <3>2, <1>1, <1>2
    <3>4. ASSUME l >= 2 PROVE m[2].role = "user"
      <4>1. 2 \in 1..l /\ 2 + d \in 1..n /\ (2 + d) % 2 = 1
        BY <3>4, <1>1, <2>2, OddShift, OneIsOdd
      <4> QED
        BY <4>1, <1>1, <1>2
    <3>5. 2 \in 1..(l + 1) /\ P(2)
      <4>1. 2 \in 1..(l + 1) /\ 1..(2 - 1) = {1}
        BY <3>2, <1>4
      <4> QED
        BY <4>1, <3>3, <3>4
    <3>6. ASSUME NEW i \in 1..(l + 1), P(i), i # 2 PROVE FALSE
      <4>1. CASE i = 1
        BY <4>1, <3>6, <3>2, <3>3
      <4>2. CASE i > 2
        <5>1. 2 \in 1..(i - 1) /\ l >= 2
          BY <4>2, <1>4
        <5> QED
          BY <5>1, <3>4, <3>6
      <4> QED
        BY <4>1, <4>2, <3>6, <1>4
    <3> HIDE DEF P
    <3>7. first = 2
      BY <3>5, <3>6
    <3>8. 1 \in 0..l /\ (d + 1) % 2 = 0 /\ first = 1 + 1
      BY <3>2, <3>7, <1>4
    <3> QED
      BY <3>8
  <2> QED
    BY <2>1, <2>2, <1>4, OneIsOdd
<1> HIDE DEF first, P
<1> DEFINE r == from_first_user(m)
<1>6. Suffix(r, m, e)
  BY <1>1, <1>3, <1>5, WithoutFirst DEF l
<1> HIDE DEF r
<1>7. Suffix(r, g, d + e)
  BY <1>1, <1>6, SuffixOfSuffix DEF n
<1>8. Paired(r)
  BY <1>5, <1>7, EvenSuffixPaired
<1>9. r \in Seq(Messages) /\ Len(r) <= l
  BY <1>4, <1>6 DEF Suffix, l
<1>10. d + e \in 0..Len(g)
  BY <1>7 DEF Suffix
<1> QED
  BY <1>7, <1>8, <1>9, <1>10 DEF r, l

\* append_history keeps a sound history sound, whatever the limit's parity.
THEOREM AppendedSound ==
  ASSUME NEW h \in Seq(Messages), NEW t \in Turns, Paired(h)
  PROVE  /\ appended(h, t) \in Seq(Messages)
         /\ Paired(appended(h, t))
         /\ Len(appended(h, t)) <= MaxHistory
         /\ \E k \in 0..Len(h \o message_pair(t)) :
              Suffix(appended(h, t), h \o message_pair(t), k)
<1> DEFINE g == h \o message_pair(t)
           m == most_recent(g)
           r == from_first_user(m)
<1>1. g \in Seq(Messages) /\ Paired(g)
  BY ConcatPaired
<1>2. r = appended(h, t)
  BY DEF appended
<1> HIDE DEF g
<1>3. PICK d \in 0..Len(g) : Suffix(m, g, d)
  BY <1>1, MostRecentSuffix
<1>4. Len(m) <= MaxHistory
  BY <1>1, MostRecentSuffix
<1> HIDE DEF m
<1>5. /\ r \in Seq(Messages) /\ Paired(r) /\ Len(r) <= Len(m)
      /\ \E k \in 0..Len(g) : Suffix(r, g, k)
  BY <1>1, <1>3, FromFirstUserPaired
<1>6. Len(r) \in Nat /\ Len(m) \in Nat /\ MaxHistory \in Nat
  BY <1>3, <1>5, LenProperties, HistoryAssumption DEF Suffix
<1> HIDE DEF r
<1> QED
  BY <1>2, <1>4, <1>5, <1>6 DEF g

\* Appending a new turn's pair stores no message twice and no other turn.
THEOREM AppendedOnce ==
  ASSUME NEW h \in Seq(Messages), NEW t \in Turns, Paired(h),
         \A i, j \in 1..Len(h) : h[i] = h[j] => i = j,
         t \notin TurnsOf(h)
  PROVE  /\ \A i, j \in 1..Len(appended(h, t)) :
              appended(h, t)[i] = appended(h, t)[j] => i = j
         /\ TurnsOf(appended(h, t)) \subseteq TurnsOf(h) \cup {t}
<1> DEFINE p == message_pair(t)
           g == h \o p
           n == Len(h)
           a == appended(h, t)
<1>1. /\ p \in Seq(Messages) /\ Len(p) = 2
      /\ p[1] = [role |-> "user", turn |-> t]
      /\ p[2] = [role |-> "assistant", turn |-> t]
      /\ p[1].turn = t /\ p[2].turn = t /\ p[1] # p[2]
  BY DEF message_pair, Messages
<1>2. n \in Nat /\ \A i \in 1..n : h[i].turn \in TurnsOf(h) /\ h[i].turn # t
  BY LenProperties DEF TurnsOf
<1> HIDE DEF p
<1>3. /\ Len(g) = n + 2
      /\ \A i \in 1..(n + 2) : g[i] = IF i <= n THEN h[i] ELSE p[i - n]
  <2>1. /\ Len(h \o p) = Len(h) + Len(p)
        /\ \A i \in 1..(Len(h) + Len(p)) :
             (h \o p)[i] = IF i <= Len(h) THEN h[i] ELSE p[i - Len(h)]
    <3>1. p \in Seq(Messages)
      BY <1>1
    <3> HIDE DEF n, g, a
    <3> QED
      BY <3>1, ConcatProperties, ZenonT(40)
  <2> QED
    BY <2>1, <1>1, Zenon
<1>4. PICK k \in 0..Len(g) : Suffix(a, g, k)
  BY AppendedSound DEF p
<1>5. \A i, j \in 1..n : h[i] = h[j] => i = j
  OBVIOUS
<1> HIDE DEF g, n, a
<1>6. \A i \in 1..(n + 2) : \/ i \in 1..n /\ g[i] = h[i]
                            \/ i = n + 1 /\ g[i] = p[1]
                            \/ i = n + 2 /\ g[i] = p[2]
  <2> TAKE i \in 1..(n + 2)
  <2>1. i \in 1..n \/ i = n + 1 \/ i = n + 2
    BY <1>2
  <2>2. i \in 1..n => g[i] = h[i]
    BY <1>2, <1>3
  <2>3. i = n + 1 => g[i] = p[1]
    BY <1>2, <1>3
  <2>4. i = n + 2 => g[i] = p[2]
    BY <1>2, <1>3
  <2> QED
    BY <2>1, <2>2, <2>3, <2>4
<1>7. \A i, j \in 1..(n + 2) : g[i] = g[j] => i = j
  <2> TAKE i, j \in 1..(n + 2)
  <2> HAVE g[i] = g[j]
  <2>1. \A l \in 1..n : h[l] # p[1] /\ h[l] # p[2]
    BY <1>1, <1>2
  <2> QED
    BY <1>1, <1>5, <1>6, <2>1
<1>8. \A i \in 1..(n + 2) : g[i].turn \in TurnsOf(h) \cup {t}
  BY <1>1, <1>2, <1>6
<1>9. /\ k \in 0..(n + 2) /\ Len(a) = (n + 2) - k
      /\ \A i \in 1..Len(a) : a[i] = g[i + k]
  BY <1>3, <1>4 DEF Suffix
<1>10. \A i \in 1..Len(a) : i + k \in 1..(n + 2)
  BY <1>2, <1>9
<1>11. ASSUME NEW i \in 1..Len(a), NEW j \in 1..Len(a), a[i] = a[j]
       PROVE  i = j
  <2>1. i + k = j + k
    BY <1>7, <1>9, <1>10, <1>11
  <2> QED
    BY <2>1, <1>2, <1>9
<1>12. \A i \in 1..Len(a) : a[i].turn \in TurnsOf(h) \cup {t}
  BY <1>8, <1>9, <1>10
<1>13. TurnsOf(a) \subseteq TurnsOf(h) \cup {t}
  <2>1. TurnsOf(a) = {a[i].turn : i \in 1..Len(a)}
    BY DEF TurnsOf
  <2> QED
    BY <1>12, <2>1
<1> QED
  BY <1>11, <1>13 DEF a

-----------------------------------------------------------------------------
(* The invariant of the assistant, and each action. *)

\* What the locals of a turn satisfy besides their types: a turn that has not
\* started has asked nothing; a turn that dispatches has a tool to dispatch
\* and, once it has asked the model, a hop left; what it read back from the
\* store is a sound history.
GoodLocals(r) ==
  /\ r \in Locals
  /\ r.phase \in {"idle", "queued"} => r.request = <<>>
  /\ r.phase \in {"dispatching", "executing"} =>
       r.tools # <<>> /\ (r.request # <<>> => r.round < MaxToolHops)
  /\ Paired(r.loaded)

\* A step of turn t that leaves it under way with locals r.
Continues(t, r) ==
  /\ GoodLocals(r)
  /\ r.phase \in Running
  /\ r.phase = "saving" => r.loaded = history[session(t)]
  /\ \/ r.loaded = turn[t].loaded
     \/ r.loaded = <<>>
     \/ r.loaded = history[session(t)]
  /\ turn' = [turn EXCEPT ![t] = r]
  /\ UNCHANGED <<history, queue>>

\* A step of turn t that ends it.
Ends(t) ==
  /\ \E how \in Over : Finish(t, how)
  /\ \/ UNCHANGED history
     \/ phase(t) = "saving" /\ SavePair(t)

Sound == /\ TypeOK
         /\ \A t \in Turns : GoodLocals(turn[t])
         /\ \A s \in Sessions : Paired(history[s])

LEMMA TailNotEmpty ==
  ASSUME NEW S, NEW s \in Seq(S), Len(s) > 1
  PROVE  Tail(s) \in Seq(S) /\ Tail(s) # <<>>
<1> DEFINE n == Len(s)
           r == Tail(s)
           m == Len(r)
<1>1. n \in Nat /\ n > 1
  BY LenProperties
<1>2. s # <<>>
  <2>1. n # 0
    <3> HIDE DEF n
    <3> QED
      BY <1>1
  <2> QED
    BY <2>1, EmptySeq, Zenon
<1>3. r \in Seq(S) /\ m = n - 1
  BY <1>2, HeadTailProperties
<1> HIDE DEF n, r
<1>4. m # 0
  <2> HIDE DEF m
  <2> QED
    BY <1>1, <1>3
<1>5. Len(<<>>) = 0
  BY EmptySeq
<1> QED
  BY <1>3, <1>4, <1>5, Zenon DEF r

LEMMA EmptyPaired == Paired(<<>>)
BY DEF Paired

LEMMA FreshGood == GoodLocals(Fresh)
<1>1. Fresh \in Locals
  BY AssistantAssumption DEF Fresh, Locals, Phases
<1>2. Fresh.loaded = <<>> /\ Fresh.phase = "idle" /\ Fresh.request = <<>>
  BY DEF Fresh
<1> QED
  BY <1>1, <1>2, EmptyPaired DEF GoodLocals

LEMMA PieceTypes == /\ {Canned, Degraded, Confirm, Refusal} \subseteq Pieces
                    /\ \A n \in 0..MaxToolHops : Model(n) \in Pieces
                    /\ \A p \in Pieces : <<p>> \in Seq(Pieces)
BY DEF Pieces

\* Every way to the append phase.
LEMMA StartAppendContinues ==
  ASSUME NEW t \in Turns, NEW shown \in Seq(Pieces), NEW reply \in Seq(Pieces),
         StartAppend(t, shown, reply), UNCHANGED <<history, queue>>
  PROVE  \E r : Continues(t, r)
<1> DEFINE r == [Fresh EXCEPT !.phase = "appending", !.shown = shown,
                              !.reply = reply]
<1>1. Fresh \in Locals /\ Fresh.loaded = <<>>
  BY FreshGood DEF GoodLocals, Fresh
<1>2. r \in Locals
  BY <1>1 DEF Locals, Phases
<1>3. r.phase = "appending" /\ r.loaded = <<>>
  BY <1>1 DEF Locals
<1> HIDE DEF r
<1>5. GoodLocals(r)
  BY <1>2, <1>3, EmptyPaired DEF GoodLocals
<1>4. turn' = [turn EXCEPT ![t] = r]
  BY DEF StartAppend, r
<1> QED
  BY <1>3, <1>4, <1>5 DEF Continues, Running, Phases, Over

LEMMA ShowAndAppendContinues ==
  ASSUME Sound, NEW t \in Turns, NEW piece \in Pieces, NEW reply \in Seq(Pieces),
         ShowAndAppend(t, piece, reply), UNCHANGED <<history, queue>>
  PROVE  \E r : Continues(t, r)
<1>1. turn[t].shown \in Seq(Pieces)
  BY DEF Sound, GoodLocals, Locals
<1>2. Append(turn[t].shown, piece) \in Seq(Pieces)
  BY <1>1, AppendProperties
<1> QED
  BY <1>2, StartAppendContinues DEF ShowAndAppend

LEMMA DegradeContinues ==
  ASSUME Sound, NEW t \in Turns, Degrade(t), UNCHANGED <<history, queue>>
  PROVE  \E r : Continues(t, r)
<1>1. turn[t].shown \in Seq(Pieces)
  BY DEF Sound, GoodLocals, Locals
<1>2. Append(turn[t].shown, Degraded) \in Seq(Pieces)
  BY <1>1, PieceTypes, AppendProperties
<1> QED
  BY <1>2, PieceTypes, ShowAndAppendContinues DEF Degrade

-----------------------------------------------------------------------------
LEMMA ConfirmToolShape ==
  ASSUME Sound, NEW t \in Turns, ConfirmTool(t)
  PROVE  \E r : Continues(t, r)
<1>1. /\ turn \in [Turns -> Locals] /\ GoodLocals(turn[t])
      /\ UNCHANGED <<history, queue>>
  BY DEF Sound, TypeOK, ConfirmTool
<1>2. PICK g \in Gated : pending[session(t)] = <<g>>
  BY AssistantAssumption DEF Sound, TypeOK, ConfirmTool, session
<1>3. CASE g \in registered
  <2> DEFINE r == [turn[t] EXCEPT !.tools = <<g>>, !.round = 1,
                                  !.phase = "executing"]
  <2>1. turn' = [turn EXCEPT ![t] = r]
    BY <1>1, <1>2, <1>3 DEF ConfirmTool
  <2>2. turn[t].request = <<>>
    BY <1>1 DEF ConfirmTool, Starts, IsNext, phase, GoodLocals
  <2>3. <<g>> \in Seq(Tools) /\ <<g>> # <<>> /\ 1 \in 0..MaxToolHops
    BY AssistantAssumption
  <2>4. /\ r \in Locals /\ r.phase = "executing" /\ r.tools = <<g>>
        /\ r.loaded = turn[t].loaded /\ r.request = turn[t].request
    BY <1>1, <2>3 DEF GoodLocals, Locals, Phases
  <2> QED
    BY <1>1, <2>1, <2>2, <2>3, <2>4
    DEF Continues, GoodLocals, Running, Over, Phases
<1>4. CASE g \notin registered
  <2>1. ShowAndAppend(t, Refusal, <<Refusal>>)
    BY <1>2, <1>4 DEF ConfirmTool
  <2>2. Refusal \in Pieces /\ <<Refusal>> \in Seq(Pieces)
    BY PieceTypes
  <2> QED
    BY <1>1, <2>1, <2>2, ShowAndAppendContinues
<1> QED
  BY <1>3, <1>4

LEMMA RunLlmTurnShape ==
  ASSUME Sound, NEW t \in Turns, RunLlmTurn(t)
  PROVE  \E r : Continues(t, r)
<1> DEFINE r == [turn[t] EXCEPT !.phase = "loading"]
<1>1. /\ turn \in [Turns -> Locals] /\ GoodLocals(turn[t])
      /\ UNCHANGED <<history, queue>>
  BY DEF Sound, TypeOK, RunLlmTurn
<1>2. turn' = [turn EXCEPT ![t] = r]
  BY <1>1 DEF RunLlmTurn
<1>3. /\ r \in Locals /\ r.phase = "loading" /\ r.loaded = turn[t].loaded
  BY <1>1 DEF GoodLocals, Locals, Phases
<1> QED
  BY <1>1, <1>2, <1>3 DEF Continues, GoodLocals, Running, Over, Phases

LEMMA AnswerFaqShape ==
  ASSUME Sound, NEW t \in Turns, AnswerFaq(t)
  PROVE  \E r : Continues(t, r)
<1>1. /\ turn \in [Turns -> Locals] /\ GoodLocals(turn[t])
      /\ UNCHANGED <<history, queue>>
  BY DEF Sound, TypeOK, AnswerFaq
<1>2. Canned \in Pieces /\ <<Canned>> \in Seq(Pieces)
  BY PieceTypes
<1> QED
  BY <1>1, <1>2, ShowAndAppendContinues DEF AnswerFaq

LEMMA AnswerDegradedShape ==
  ASSUME Sound, NEW t \in Turns, AnswerDegraded(t)
  PROVE  \E r : Continues(t, r)
<1>1. /\ turn \in [Turns -> Locals] /\ GoodLocals(turn[t])
      /\ UNCHANGED <<history, queue>>
  BY DEF Sound, TypeOK, AnswerDegraded
<1> QED
  BY <1>1, DegradeContinues DEF AnswerDegraded

LEMMA ModelRefusedShape ==
  ASSUME Sound, NEW t \in Turns, ModelRefused(t)
  PROVE  \E r : Continues(t, r)
<1>1. /\ turn \in [Turns -> Locals] /\ GoodLocals(turn[t])
      /\ UNCHANGED <<history, queue>>
  BY DEF Sound, TypeOK, ModelRefused
<1> QED
  BY <1>1, DegradeContinues DEF ModelRefused

LEMMA ModelFailsTransientlyShape ==
  ASSUME Sound, NEW t \in Turns, ModelFailsTransiently(t)
  PROVE  \E r : Continues(t, r)
<1>1. /\ turn \in [Turns -> Locals] /\ GoodLocals(turn[t])
      /\ UNCHANGED <<history, queue>>
  BY DEF Sound, TypeOK, ModelFailsTransiently
<1> QED
  BY <1>1, DegradeContinues DEF ModelFailsTransiently

LEMMA ModelFailsOtherwiseShape ==
  ASSUME Sound, NEW t \in Turns, ModelFailsOtherwise(t)
  PROVE  \E r : Continues(t, r)
<1>1. /\ turn \in [Turns -> Locals] /\ GoodLocals(turn[t])
      /\ UNCHANGED <<history, queue>>
  BY DEF Sound, TypeOK, ModelFailsOtherwise
<1> QED
  BY <1>1, DegradeContinues DEF ModelFailsOtherwise

LEMMA LoadHistoryShape ==
  ASSUME Sound, NEW t \in Turns, LoadHistory(t)
  PROVE  \E r : Continues(t, r)
<1>1. /\ turn \in [Turns -> Locals] /\ GoodLocals(turn[t])
      /\ UNCHANGED <<history, queue>>
  BY DEF Sound, TypeOK, LoadHistory
<1> DEFINE asked == roles_of(history[session(t)]) \o
                      (IF turn[t].round = 0 THEN <<"user">> ELSE <<"user", "user">>)
           r == [turn[t] EXCEPT !.request = asked, !.phase = "ready"]
<1>2. turn' = [turn EXCEPT ![t] = r]
  BY <1>1 DEF LoadHistory
<1>3. asked \in Seq({"user", "assistant"})
  <2> DEFINE hist == history[session(t)]
  <2>1. hist \in Seq(Messages)
    BY AssistantAssumption DEF Sound, TypeOK, session
  <2> HIDE DEF hist
  <2>2. Len(hist) \in Nat /\ \A i \in 1..Len(hist) : hist[i] \in Messages
    BY <2>1, ElementOfSeq, LenProperties
  <2>3. \A i \in 1..Len(hist) : hist[i].role \in {"user", "assistant"}
    BY <2>2 DEF Messages
  <2>4. roles_of(hist) \in Seq({"user", "assistant"})
    BY <2>2, <2>3 DEF roles_of
  <2>5. (IF turn[t].round = 0 THEN <<"user">> ELSE <<"user", "user">>)
          \in Seq({"user", "assistant"})
    <3>1. /\ <<"user">> \in Seq({"user", "assistant"})
          /\ <<"user", "user">> \in Seq({"user", "assistant"})
      OBVIOUS
    <3> QED
      BY <3>1
  <2> QED
    BY <2>4, <2>5, ConcatProperties DEF hist
<1> HIDE DEF asked
<1>4. r \in Locals /\ r.phase = "ready" /\ r.loaded = turn[t].loaded
  BY <1>1, <1>3 DEF GoodLocals, Locals, Phases
<1> QED
  BY <1>1, <1>2, <1>4 DEF Continues, GoodLocals, Running, Over, Phases

LEMMA AskModelShape ==
  ASSUME Sound, NEW t \in Turns, AskModel(t)
  PROVE  \E r : Continues(t, r)
<1>1. /\ turn \in [Turns -> Locals] /\ GoodLocals(turn[t])
      /\ UNCHANGED <<history, queue>>
  BY DEF Sound, TypeOK, AskModel
<1> DEFINE r == [turn[t] EXCEPT !.phase = "streaming"]
<1>2. turn' = [turn EXCEPT ![t] = r]
  BY <1>1 DEF AskModel
<1>3. r \in Locals /\ r.phase = "streaming" /\ r.loaded = turn[t].loaded
  BY <1>1 DEF GoodLocals, Locals, Phases
<1> QED
  BY <1>1, <1>2, <1>3 DEF Continues, GoodLocals, Running, Over, Phases

LEMMA StreamTextShape ==
  ASSUME Sound, NEW t \in Turns, StreamText(t)
  PROVE  \E r : Continues(t, r)
<1>1. /\ turn \in [Turns -> Locals] /\ GoodLocals(turn[t])
      /\ UNCHANGED <<history, queue>>
  BY DEF Sound, TypeOK, StreamText
<1> DEFINE r == [turn[t] EXCEPT !.yielded = TRUE,
                      !.shown = Append(turn[t].shown, Model(turn[t].round))]
<1>2. turn' = [turn EXCEPT ![t] = r]
  BY <1>1 DEF StreamText
<1>3. Append(turn[t].shown, Model(turn[t].round)) \in Seq(Pieces)
  <2>1. turn[t].shown \in Seq(Pieces) /\ Model(turn[t].round) \in Pieces
    BY <1>1, PieceTypes DEF GoodLocals, Locals
  <2> QED
    BY <2>1, AppendProperties
<1>4. r \in Locals /\ r.phase = "streaming" /\ r.loaded = turn[t].loaded
  BY <1>1, <1>3 DEF GoodLocals, Locals, Phases, StreamText, phase
<1> QED
  BY <1>1, <1>2, <1>4 DEF Continues, GoodLocals, Running, Over, Phases

LEMMA RetryModelShape ==
  ASSUME Sound, NEW t \in Turns, RetryModel(t)
  PROVE  \E r : Continues(t, r)
<1>1. /\ turn \in [Turns -> Locals] /\ GoodLocals(turn[t])
      /\ UNCHANGED <<history, queue>>
  BY DEF Sound, TypeOK, RetryModel
<1> DEFINE r == [turn[t] EXCEPT !.attempt = turn[t].attempt + 1, !.yielded = FALSE]
<1>2. turn' = [turn EXCEPT ![t] = r]
  BY <1>1 DEF RetryModel
<1>3. turn[t].attempt + 1 \in 0..MaxRetries
  BY <1>1, AssistantAssumption DEF GoodLocals, Locals, RetryModel, MayRetry
<1>4. r \in Locals /\ r.phase = "streaming" /\ r.loaded = turn[t].loaded
  BY <1>1, <1>3 DEF GoodLocals, Locals, Phases, RetryModel, phase
<1> QED
  BY <1>1, <1>2, <1>4 DEF Continues, GoodLocals, Running, Over, Phases

LEMMA ModelAnswersShape ==
  ASSUME Sound, NEW t \in Turns, ModelAnswers(t)
  PROVE  \E r : Continues(t, r)
<1>1. /\ turn \in [Turns -> Locals] /\ GoodLocals(turn[t])
      /\ UNCHANGED <<history, queue>>
  BY DEF Sound, TypeOK, ModelAnswers
<1>2. turn[t].shown \in Seq(Pieces)
  BY <1>1 DEF GoodLocals, Locals
<1> QED
  BY <1>1, <1>2, StartAppendContinues DEF ModelAnswers

LEMMA ModelSelectsToolsShape ==
  ASSUME Sound, NEW t \in Turns, ModelSelectsTools(t)
  PROVE  \E r : Continues(t, r)
<1>1. /\ turn \in [Turns -> Locals] /\ GoodLocals(turn[t])
      /\ UNCHANGED <<history, queue>>
  BY DEF Sound, TypeOK, ModelSelectsTools
<1>2. PICK tools \in BoundedSeq(Tools, MaxToolUses) \ {<<>>} :
        turn' = [turn EXCEPT ![t] =
          [@ EXCEPT !.tools = tools, !.phase = "dispatching",
                    !.attempt = 0, !.yielded = FALSE]]
  BY DEF ModelSelectsTools
<1> DEFINE r == [turn[t] EXCEPT !.tools = tools, !.phase = "dispatching",
                                !.attempt = 0, !.yielded = FALSE]
<1>3. turn' = [turn EXCEPT ![t] = r]
  BY <1>1, <1>2
<1>4. tools \in Seq(Tools) /\ tools # <<>> /\ 0 \in 0..MaxRetries
  BY <1>2, AssistantAssumption DEF BoundedSeq, SeqOf
<1>5. turn[t].round < MaxToolHops
  BY DEF ModelSelectsTools, MayDispatch
<1>6. /\ r \in Locals /\ r.phase = "dispatching" /\ r.tools = tools
      /\ r.round = turn[t].round /\ r.loaded = turn[t].loaded
  BY <1>1, <1>4 DEF GoodLocals, Locals, Phases
<1> QED
  BY <1>1, <1>3, <1>4, <1>5, <1>6
  DEF Continues, GoodLocals, Running, Over, Phases

LEMMA HopBudgetExhaustedShape ==
  ASSUME Sound, NEW t \in Turns, HopBudgetExhausted(t)
  PROVE  \E r : Continues(t, r)
<1>1. /\ turn \in [Turns -> Locals] /\ GoodLocals(turn[t])
      /\ UNCHANGED <<history, queue>>
  BY DEF Sound, TypeOK, HopBudgetExhausted
<1>2. turn[t].shown \in Seq(Pieces) /\ Refusal \in Pieces
  BY <1>1, PieceTypes DEF GoodLocals, Locals
<1>3. Append(turn[t].shown, Refusal) \in Seq(Pieces)
  BY <1>2, AppendProperties
<1> QED
  BY <1>1, <1>2, <1>3, StartAppendContinues, ShowAndAppendContinues
  DEF HopBudgetExhausted

LEMMA DispatchUnknownShape ==
  ASSUME Sound, NEW t \in Turns, DispatchUnknown(t)
  PROVE  \E r : Continues(t, r)
<1>1. /\ turn \in [Turns -> Locals] /\ GoodLocals(turn[t])
      /\ UNCHANGED <<history, queue>>
  BY DEF Sound, TypeOK, DispatchUnknown
<1>2. Refusal \in Pieces /\ <<Refusal>> \in Seq(Pieces)
  BY PieceTypes
<1> QED
  BY <1>1, <1>2, ShowAndAppendContinues DEF DispatchUnknown

LEMMA AskConfirmationShape ==
  ASSUME Sound, NEW t \in Turns, AskConfirmation(t)
  PROVE  \E r : Continues(t, r)
<1>1. /\ turn \in [Turns -> Locals] /\ GoodLocals(turn[t])
      /\ UNCHANGED <<history, queue>>
  BY DEF Sound, TypeOK, AskConfirmation
<1>2. Confirm \in Pieces /\ <<Confirm>> \in Seq(Pieces)
  BY PieceTypes
<1> QED
  BY <1>1, <1>2, ShowAndAppendContinues DEF AskConfirmation

LEMMA RunToolShape ==
  ASSUME Sound, NEW t \in Turns, RunTool(t)
  PROVE  \E r : Continues(t, r)
<1>1. /\ turn \in [Turns -> Locals] /\ GoodLocals(turn[t])
      /\ UNCHANGED <<history, queue>>
  BY DEF Sound, TypeOK, RunTool
<1> DEFINE r == [turn[t] EXCEPT !.phase = "executing"]
<1>2. turn' = [turn EXCEPT ![t] = r]
  BY <1>1 DEF RunTool
<1>3. /\ turn[t].tools # <<>>
      /\ turn[t].request # <<>> => turn[t].round < MaxToolHops
  BY <1>1 DEF GoodLocals, RunTool, phase
<1>4. /\ r \in Locals /\ r.phase = "executing" /\ r.loaded = turn[t].loaded
      /\ r.tools = turn[t].tools /\ r.request = turn[t].request
      /\ r.round = turn[t].round
  BY <1>1 DEF GoodLocals, Locals, Phases
<1> QED
  BY <1>1, <1>2, <1>3, <1>4 DEF Continues, GoodLocals, Running, Over, Phases

LEMMA ToolReturnsShape ==
  ASSUME Sound, NEW t \in Turns, ToolReturns(t)
  PROVE  \E r : Continues(t, r)
<1>1. /\ turn \in [Turns -> Locals] /\ GoodLocals(turn[t])
      /\ UNCHANGED <<history, queue>>
  BY DEF Sound, TypeOK, ToolReturns
<1>2. /\ turn[t].tools \in Seq(Tools) /\ turn[t].tools # <<>>
      /\ turn[t].request # <<>> => turn[t].round < MaxToolHops
  BY <1>1 DEF GoodLocals, Locals, ToolReturns, phase
<1>3. CASE Len(turn[t].tools) > 1
  <2> DEFINE r == [turn[t] EXCEPT !.tools = Tail(turn[t].tools),
                                  !.phase = "dispatching"]
  <2>1. turn' = [turn EXCEPT ![t] = r]
    BY <1>1, <1>3 DEF ToolReturns, tool_returned
  <2>2. Tail(turn[t].tools) \in Seq(Tools) /\ Tail(turn[t].tools) # <<>>
    BY <1>2, <1>3, TailNotEmpty
  <2>3. /\ r \in Locals /\ r.phase = "dispatching" /\ r.loaded = turn[t].loaded
        /\ r.tools = Tail(turn[t].tools) /\ r.request = turn[t].request
        /\ r.round = turn[t].round
    BY <1>1, <2>2 DEF GoodLocals, Locals, Phases
  <2> QED
    BY <1>1, <1>2, <2>1, <2>2, <2>3
    DEF Continues, GoodLocals, Running, Over, Phases
<1>4. CASE ~(Len(turn[t].tools) > 1) /\ turn[t].request = <<>>
  <2> DEFINE r == [turn[t] EXCEPT !.tools = <<>>, !.phase = "loading"]
  <2>1. turn' = [turn EXCEPT ![t] = r]
    BY <1>1, <1>4 DEF ToolReturns, tool_returned
  <2>2. r \in Locals /\ r.phase = "loading" /\ r.loaded = turn[t].loaded
    BY <1>1, EmptySeq DEF GoodLocals, Locals, Phases
  <2> QED
    BY <1>1, <2>1, <2>2 DEF Continues, GoodLocals, Running, Over, Phases
<1>5. CASE ~(Len(turn[t].tools) > 1) /\ turn[t].request # <<>>
  <2> DEFINE asked == Append(turn[t].request, "user")
             r == [turn[t] EXCEPT !.tools = <<>>, !.round = turn[t].round + 1,
                                  !.request = asked, !.phase = "ready"]
  <2>1. turn' = [turn EXCEPT ![t] = r]
    BY <1>1, <1>5 DEF ToolReturns, tool_returned
  <2>2. turn[t].round + 1 \in 0..MaxToolHops
    BY <1>1, <1>2, <1>5, AssistantAssumption DEF GoodLocals, Locals
  <2>3. asked \in Seq({"user", "assistant"})
    BY <1>1, AppendProperties DEF GoodLocals, Locals
  <2> HIDE DEF asked
  <2>4. r \in Locals /\ r.phase = "ready" /\ r.loaded = turn[t].loaded
    BY <1>1, <2>2, <2>3, EmptySeq DEF GoodLocals, Locals, Phases
  <2> QED
    BY <1>1, <2>1, <2>4 DEF Continues, GoodLocals, Running, Over, Phases
<1> QED
  BY <1>3, <1>4, <1>5

LEMMA LoadForAppendShape ==
  ASSUME Sound, NEW t \in Turns, LoadForAppend(t)
  PROVE  \E r : Continues(t, r)
<1>1. /\ turn \in [Turns -> Locals] /\ GoodLocals(turn[t])
      /\ UNCHANGED <<history, queue>>
  BY DEF Sound, TypeOK, LoadForAppend
<1> DEFINE r == [turn[t] EXCEPT !.loaded = history[session(t)], !.phase = "saving"]
<1>2. turn' = [turn EXCEPT ![t] = r]
  BY <1>1 DEF LoadForAppend
<1>3. history[session(t)] \in Seq(Messages) /\ Paired(history[session(t)])
  BY AssistantAssumption DEF Sound, TypeOK, session
<1>4. r \in Locals /\ r.phase = "saving" /\ r.loaded = history[session(t)]
  BY <1>1, <1>3 DEF GoodLocals, Locals, Phases
<1> QED
  BY <1>1, <1>2, <1>3, <1>4 DEF Continues, GoodLocals, Running, Over, Phases

-----------------------------------------------------------------------------
(* The queues of the sockets. *)

\* The turns of one channel that have arrived and are not over, each once;
\* those behind the first have not started.
QueueOf(c) ==
  /\ \A i, j \in 1..Len(queue[c]) : queue[c][i] = queue[c][j] => i = j
  /\ \A i \in 1..Len(queue[c]) :
       /\ channel(queue[c][i]) = c
       /\ phase(queue[c][i]) \notin Over \cup {"idle"}
       /\ i > 1 => phase(queue[c][i]) = "queued"

InQueue(t) == \E i \in 1..Len(queue[channel(t)]) : queue[channel(t)][i] = t

QueuesOK == /\ \A c \in Channels : QueueOf(c)
            /\ \A t \in Turns : phase(t) \notin Over \cup {"idle"} => InQueue(t)

LEMMA PhaseKinds ==
  /\ Over \cap Running = {}
  /\ "queued" \notin Over \cup Running \cup {"idle"}
  /\ "idle" \notin Over \cup Running
  /\ "saving" \in Running
  /\ \A p \in Phases : p \in Over \cup Running \cup {"idle", "queued"}
BY DEF Over, Running, Phases

\* A turn that may take a step is at the head of its queue.
LEMMA HeadOfQueue ==
  ASSUME Sound, QueuesOK, NEW t \in Turns, IsNext(t) \/ phase(t) \in Running
  PROVE  /\ channel(t) \in Channels
         /\ queue[channel(t)] \in Seq(Turns)
         /\ queue[channel(t)] # <<>>
         /\ Head(queue[channel(t)]) = t
         /\ queue[channel(t)][1] = t
         /\ phase(t) \notin Over \cup {"idle"}
<1> DEFINE q == queue[channel(t)]
<1>1. channel(t) \in Channels /\ q \in Seq(Turns)
  BY AssistantAssumption DEF channel, Sound, TypeOK
<1>2. phase(t) \notin Over \cup {"idle"}
  BY PhaseKinds DEF IsNext
<1>3. PICK i \in 1..Len(q) : q[i] = t
  BY <1>2 DEF QueuesOK, InQueue
<1>4. Len(q) \in Nat /\ q # <<>> /\ Head(q) = q[1]
  BY <1>1, <1>3
<1>5. q[1] = t
  <2>1. CASE IsNext(t)
    BY <2>1, <1>4 DEF IsNext
  <2>2. CASE phase(t) \in Running
    <3>1. phase(t) # "queued"
      BY <2>2, PhaseKinds
    <3>2. i > 1 => phase(t) = "queued"
      BY <1>1, <1>3 DEF QueuesOK, QueueOf
    <3> QED
      BY <1>3, <1>4, <3>1, <3>2
  <2> QED
    BY <2>1, <2>2
<1> QED
  BY <1>1, <1>2, <1>4, <1>5

\* Every step of a turn either leaves it under way or ends it.
LEMMA StepShape ==
  ASSUME Sound, QueuesOK, NEW t \in Turns, Step(t)
  PROVE  /\ IsNext(t) \/ phase(t) \in Running
         /\ (\E r : Continues(t, r)) \/ Ends(t)
<1>1. CASE Drop(t)
  BY <1>1 DEF Drop, Ends, Over
<1>2. CASE Reject(t)
  BY <1>2 DEF Reject, Starts, Ends, Over
<1>3. CASE ConfirmTool(t)
  BY <1>3, ConfirmToolShape DEF ConfirmTool, Starts
<1>4. CASE SuppressFiller(t)
  BY <1>4 DEF SuppressFiller, Starts, Ends, Over
<1>5. CASE AnswerFaq(t)
  BY <1>5, AnswerFaqShape DEF AnswerFaq, Starts
<1>6. CASE AnswerDegraded(t)
  BY <1>6, AnswerDegradedShape DEF AnswerDegraded, Starts
<1>7. CASE RunLlmTurn(t)
  BY <1>7, RunLlmTurnShape DEF RunLlmTurn, Starts
<1>8. CASE LoadHistory(t)
  BY <1>8, LoadHistoryShape DEF LoadHistory, Running, Phases, Over
<1>9. CASE AskModel(t)
  BY <1>9, AskModelShape DEF AskModel, Running, Phases, Over
<1>10. CASE ModelRefused(t)
  BY <1>10, ModelRefusedShape DEF ModelRefused, Running, Phases, Over
<1>11. CASE StreamText(t)
  BY <1>11, StreamTextShape DEF StreamText, Running, Phases, Over
<1>12. CASE RetryModel(t)
  BY <1>12, RetryModelShape DEF RetryModel, Running, Phases, Over
<1>13. CASE ModelAnswers(t)
  BY <1>13, ModelAnswersShape DEF ModelAnswers, Running, Phases, Over
<1>14. CASE ModelSelectsTools(t)
  BY <1>14, ModelSelectsToolsShape DEF ModelSelectsTools, Running, Phases, Over
<1>15. CASE HopBudgetExhausted(t)
  BY <1>15, HopBudgetExhaustedShape DEF HopBudgetExhausted, Running, Phases, Over
<1>16. CASE ModelFailsTransiently(t)
  BY <1>16, ModelFailsTransientlyShape
  DEF ModelFailsTransiently, Running, Phases, Over
<1>17. CASE ModelFailsOtherwise(t)
  BY <1>17, ModelFailsOtherwiseShape DEF ModelFailsOtherwise, Running, Phases, Over
<1>18. CASE DispatchUnknown(t)
  BY <1>18, DispatchUnknownShape DEF DispatchUnknown, Running, Phases, Over
<1>19. CASE AskConfirmation(t)
  BY <1>19, AskConfirmationShape DEF AskConfirmation, Running, Phases, Over
<1>20. CASE RunTool(t)
  BY <1>20, RunToolShape DEF RunTool, Running, Phases, Over
<1>21. CASE ToolReturns(t)
  BY <1>21, ToolReturnsShape DEF ToolReturns, Running, Phases, Over
<1>22. CASE SkipEmptyReply(t)
  BY <1>22 DEF SkipEmptyReply, Ends, Running, Phases, Over
<1>23. CASE LoadForAppend(t)
  BY <1>23, LoadForAppendShape DEF LoadForAppend, Running, Phases, Over
<1>24. CASE Save(t)
  BY <1>24 DEF Save, Ends, Running, Phases, Over
<1>25. CASE StoreFails(t)
  BY <1>25 DEF StoreFails, Ends, Running, Phases, Over
<1> QED
  BY <1>1, <1>2, <1>3, <1>4, <1>5, <1>6, <1>7, <1>8, <1>9, <1>10, <1>11, <1>12,
     <1>13, <1>14, <1>15, <1>16, <1>17, <1>18, <1>19, <1>20, <1>21, <1>22,
     <1>23, <1>24, <1>25 DEF Step

-----------------------------------------------------------------------------
(* The breaker inside the assistant. *)

LEMMA StepOfBreaker ==
  ASSUME NEW t \in Turns, Arrive(t) \/ Step(t)
  PROVE  [CB!Next]_(CB!vars)
<1>1. CASE AskModel(t)
  BY <1>1 DEF AskModel, CB!Next
<1>2. CASE ModelRefused(t)
  BY <1>2 DEF ModelRefused, CB!Next
<1>3. CASE ModelAnswers(t)
  BY <1>3 DEF ModelAnswers, CB!Next
<1>4. CASE ModelSelectsTools(t)
  BY <1>4 DEF ModelSelectsTools, CB!Next
<1>5. CASE HopBudgetExhausted(t)
  BY <1>5 DEF HopBudgetExhausted, CB!Next
<1>6. CASE ModelFailsTransiently(t)
  BY <1>6 DEF ModelFailsTransiently, CB!Next
<1>7. CASE ModelFailsOtherwise(t)
  BY <1>7 DEF ModelFailsOtherwise, CB!Next
<1>8. \/ UNCHANGED <<breaker, call>>
      \/ AskModel(t) \/ ModelRefused(t) \/ ModelAnswers(t)
      \/ ModelSelectsTools(t) \/ HopBudgetExhausted(t)
      \/ ModelFailsTransiently(t) \/ ModelFailsOtherwise(t)
  BY DEF Step, Arrive, Drop, Reject, ConfirmTool, SuppressFiller, AnswerFaq,
         AnswerDegraded, RunLlmTurn, LoadHistory, StreamText, RetryModel,
         DispatchUnknown, AskConfirmation, RunTool, ToolReturns, SkipEmptyReply,
         LoadForAppend, Save, StoreFails
<1> QED
  BY <1>1, <1>2, <1>3, <1>4, <1>5, <1>6, <1>7, <1>8 DEF CB!vars

\* The assistant drives its breaker only as CircuitBreaker says calls do:
\* asked before every stream, told once how it settled, and not otherwise.
THEOREM BreakerImplemented == Spec => BreakerSpec
<1>1. Init => CB!Init
  BY DEF Init
<1>2. [Next]_vars => [CB!Next]_(CB!vars)
  <2>1. ASSUME NEW t \in Turns, Arrive(t) \/ Step(t) PROVE [CB!Next]_(CB!vars)
    BY <2>1, StepOfBreaker
  <2>2. ASSUME NEW c \in Sockets, Close(c) PROVE [CB!Next]_(CB!vars)
    BY <2>2 DEF Close, CB!vars
  <2>3. ASSUME NEW tool \in Volatile, Register(tool) \/ Deregister(tool)
        PROVE [CB!Next]_(CB!vars)
    BY <2>3 DEF Register, Deregister, CB!vars
  <2>4. CASE RecoveryWindowElapses
    BY <2>4 DEF RecoveryWindowElapses, CB!Next
  <2>5. CASE UNCHANGED vars
    BY <2>5 DEF vars, CB!vars
  <2> QED
    BY <2>1, <2>2, <2>3, <2>4, <2>5 DEF Next
<1> QED
  BY <1>1, <1>2, PTL DEF Spec, BreakerSpec, CB!Spec

\* So the breaker's variables keep the types CircuitBreaker gives them.
LEMMA BreakerInvariant == Spec => []CB!TypeOK
<1> USE AssistantAssumption DEF CB!TypeOK, CB!Breakers
<1>1. CB!Init => CB!TypeOK
  BY DEF CB!Init
<1>2. CB!TypeOK /\ [CB!Next]_(CB!vars) => CB!TypeOK'
  <2> SUFFICES ASSUME CB!TypeOK, [CB!Next]_(CB!vars) PROVE CB!TypeOK'
    OBVIOUS
  <2>1. CASE CB!RecoveryWindowElapses
    BY <2>1 DEF CB!RecoveryWindowElapses
  <2>2. ASSUME NEW t \in Turns, CB!Admit(t) PROVE CB!TypeOK'
    BY <2>2 DEF CB!Admit, CB!after_allow
  <2>3. ASSUME NEW t \in Turns, CB!Succeed(t) PROVE CB!TypeOK'
    <3>1. breaker' =
            [state |-> "closed", consecutive_failures |-> 0,
             probe_in_flight |-> FALSE, recovered |-> FALSE]
      BY <2>3 DEF CB!Succeed, CB!after_success
    <3>2. breaker' \in CB!Breakers
      BY <3>1
    <3> QED
      BY <2>3, <3>2 DEF CB!Succeed
  <2>4. ASSUME NEW t \in Turns, CB!FailTransient(t) PROVE CB!TypeOK'
    <3>1. CB!failures_plus_one(breaker) \in 0..Threshold
      BY DEF CB!failures_plus_one
    <3>2. CB!after_failure(breaker) \in CB!Breakers
      BY <3>1 DEF CB!after_failure
    <3> QED
      BY <2>4, <3>2 DEF CB!FailTransient
  <2>5. ASSUME NEW t \in Turns, CB!FailOther(t) PROVE CB!TypeOK'
    BY <2>5 DEF CB!FailOther
  <2>6. CASE UNCHANGED CB!vars
    BY <2>6 DEF CB!vars
  <2>7. ASSUME NEW t \in Turns, CB!Refuse(t) PROVE CB!TypeOK'
    BY <2>6, <2>7 DEF CB!Refuse
  <2> QED
    BY <2>1, <2>2, <2>3, <2>4, <2>5, <2>6, <2>7 DEF CB!Next
<1> QED
  BY <1>1, <1>2, BreakerImplemented, PTL DEF BreakerSpec, CB!Spec

-----------------------------------------------------------------------------
(* The inductive invariant: Sound and QueuesOK. *)

LEMMA PendingTyped ==
  ASSUME Sound, NEW t \in Turns, Step(t)
  PROVE  pending' \in [Sessions -> {None} \cup {<<g>> : g \in Gated}]
<1> DEFINE Values == {None} \cup {<<g>> : g \in Gated}
<1>1. pending \in [Sessions -> Values] /\ None \in Values
  BY DEF Sound, TypeOK
<1>2. CASE UNCHANGED pending
  BY <1>1, <1>2
<1>3. CASE DropPending(t)
  BY <1>1, <1>3 DEF DropPending
<1>4. CASE AskConfirmation(t)
  <2>1. <<Selected(t)>> \in Values
    BY <1>4 DEF AskConfirmation
  <2> HIDE DEF Values
  <2>2. pending' \in [Sessions -> Values]
    BY <1>1, <1>4, <2>1 DEF AskConfirmation
  <2> QED
    BY <2>2 DEF Values
<1>5. UNCHANGED pending \/ DropPending(t) \/ AskConfirmation(t)
  BY DEF Step, Drop, Reject, ConfirmTool, SuppressFiller, AnswerFaq,
         AnswerDegraded, RunLlmTurn, LoadHistory, AskModel, ModelRefused,
         StreamText, RetryModel, ModelAnswers, ModelSelectsTools,
         HopBudgetExhausted, ModelFailsTransiently, ModelFailsOtherwise,
         DispatchUnknown, AskConfirmation, RunTool, ToolReturns,
         SkipEmptyReply, LoadForAppend, Save, StoreFails
<1> QED
  BY <1>2, <1>3, <1>4, <1>5

LEMMA StepFrame ==
  ASSUME NEW t \in Turns, Step(t)
  PROVE  UNCHANGED <<registered, closed>>
BY DEF Step, Drop, Reject, ConfirmTool, SuppressFiller, AnswerFaq,
       AnswerDegraded, RunLlmTurn, LoadHistory, AskModel, ModelRefused,
       StreamText, RetryModel, ModelAnswers, ModelSelectsTools,
       HopBudgetExhausted, ModelFailsTransiently, ModelFailsOtherwise,
       DispatchUnknown, AskConfirmation, RunTool, ToolReturns,
       SkipEmptyReply, LoadForAppend, Save, StoreFails

LEMMA EndsGood ==
  ASSUME Sound, NEW t \in Turns, Ends(t)
  PROVE  \E r : /\ GoodLocals(r) /\ r.phase \in Over /\ r.loaded = <<>>
                /\ turn' = [turn EXCEPT ![t] = r]
<1>1. PICK how \in Over : Finish(t, how)
  BY DEF Ends
<1> DEFINE r == [Fresh EXCEPT !.phase = how, !.shown = turn[t].shown,
                              !.reply = turn[t].reply]
<1>2. turn' = [turn EXCEPT ![t] = r]
  BY <1>1 DEF Finish
<1>3. /\ turn[t].shown \in Seq(Pieces) /\ turn[t].reply \in Seq(Pieces)
  BY DEF Sound, GoodLocals, Locals
<1>4. Fresh \in Locals /\ Fresh.loaded = <<>> /\ how \in Phases
  BY FreshGood DEF GoodLocals, Fresh, Over, Phases
<1>5. r \in Locals
  BY <1>3, <1>4 DEF Locals
<1>6. r.phase = how /\ r.loaded = <<>>
  BY <1>4 DEF Locals
<1> HIDE DEF r
<1>7. GoodLocals(r)
  BY <1>5, <1>6, EmptyPaired DEF GoodLocals, Over
<1> QED
  BY <1>2, <1>6, <1>7

LEMMA HistoryStaysSound ==
  ASSUME Sound, NEW t \in Turns, SavePair(t)
  PROVE  /\ history' \in [Sessions -> Seq(Messages)]
         /\ \A s \in Sessions : Paired(history'[s])
         /\ \A s \in Sessions : Len(history[s]) <= MaxHistory
                                 => Len(history'[s]) <= MaxHistory
<1> DEFINE h == turn[t].loaded
           a == appended(h, t)
<1>1. h \in Seq(Messages) /\ Paired(h)
  BY DEF Sound, GoodLocals, Locals
<1>2. a \in Seq(Messages) /\ Paired(a) /\ Len(a) <= MaxHistory
  BY <1>1, AppendedSound
<1>3. /\ history \in [Sessions -> Seq(Messages)]
      /\ history' = [history EXCEPT ![session(t)] = a]
      /\ \A s \in Sessions : Paired(history[s])
  BY DEF Sound, TypeOK, SavePair
<1> HIDE DEF a
<1> QED
  BY <1>2, <1>3

LEMMA TailUnique ==
  ASSUME NEW S, NEW q \in Seq(S), q # <<>>
  PROVE  /\ Tail(q) \in Seq(S) /\ Len(q) \in Nat
         /\ Len(Tail(q)) = Len(q) - 1
         /\ \A i \in 1..Len(Tail(q)) :
              Tail(q)[i] = q[i + 1] /\ i + 1 \in 1..Len(q) /\ i + 1 > 1
         /\ \A i \in 1..Len(q) : i # 1 =>
              i - 1 \in 1..Len(Tail(q)) /\ Tail(q)[i - 1] = q[i]
<1> DEFINE r == Tail(q)
           n == Len(q)
           m == Len(r)
<1>1. n \in Nat /\ r \in Seq(S) /\ m = n - 1 /\ \A i \in 1..m : r[i] = q[i + 1]
  BY LenProperties, HeadTailProperties
<1> HIDE DEF r, n, m
<1>2. \A i \in 1..m : i + 1 \in 1..n /\ i + 1 > 1
  BY <1>1
<1>3. ASSUME NEW i \in 1..n, i # 1 PROVE i - 1 \in 1..m /\ r[i - 1] = q[i]
  <2>1. i - 1 \in 1..m /\ (i - 1) + 1 = i
    BY <1>1, <1>3
  <2> QED
    BY <1>1, <2>1
<1> QED
  BY <1>1, <1>2, <1>3 DEF r, n, m

LEMMA ContinuesKeeps ==
  ASSUME Sound, QueuesOK, NEW t \in Turns, Step(t), NEW r, Continues(t, r)
  PROVE  QueuesOK' /\ queue' = queue /\ history' = history
<1>1. /\ turn \in [Turns -> Locals] /\ queue' = queue /\ history' = history
      /\ queue \in [Channels -> Seq(Turns)]
      /\ turn' = [turn EXCEPT ![t] = r] /\ r.phase \in Running
  BY DEF Sound, TypeOK, Continues
<1>2. turn'[t].phase \in Running /\ \A u \in Turns \ {t} : turn'[u].phase = phase(u)
  BY <1>1 DEF phase
<1>3. /\ queue[channel(t)][1] = t /\ queue[channel(t)] # <<>>
      /\ phase(t) \notin Over \cup {"idle"}
  BY StepShape, HeadOfQueue
<1>4. ASSUME NEW c \in Channels PROVE QueueOf(c)'
  <2>1. QueueOf(c) /\ queue[c] \in Seq(Turns) /\ Len(queue[c]) \in Nat
    BY <1>1, LenProperties DEF QueuesOK
  <2>2. ASSUME NEW i \in 1..Len(queue[c])
        PROVE  /\ channel(queue[c][i]) = c
               /\ turn'[queue[c][i]].phase \notin Over \cup {"idle"}
               /\ i > 1 => turn'[queue[c][i]].phase = "queued"
    <3>1. queue[c][i] \in Turns
      BY <2>1, ElementOfSeq
    <3>2. /\ channel(queue[c][i]) = c
          /\ phase(queue[c][i]) \notin Over \cup {"idle"}
          /\ i > 1 => phase(queue[c][i]) = "queued"
      BY <2>1 DEF QueueOf
    <3>3. CASE queue[c][i] # t
      BY <1>2, <3>1, <3>2, <3>3
    <3>4. CASE queue[c][i] = t
      <4>1. c = channel(t)
        BY <3>2, <3>4
      <4>2. 1 \in 1..Len(queue[c]) /\ queue[c][1] = queue[c][i]
        BY <1>3, <2>1, <3>4, <4>1
      <4>3. i = 1
        BY <2>1, <4>2 DEF QueueOf
      <4> QED
        BY <1>2, <3>2, <3>4, <4>3, PhaseKinds
    <3> QED
      BY <3>3, <3>4
  <2>3. \A i, j \in 1..Len(queue[c]) : queue[c][i] = queue[c][j] => i = j
    BY <2>1 DEF QueueOf
  <2> QED
    BY <1>1, <2>2, <2>3 DEF QueueOf, channel, phase
<1>5. ASSUME NEW u \in Turns, turn'[u].phase \notin Over \cup {"idle"}
      PROVE  InQueue(u)'
  <2>1. phase(u) \notin Over \cup {"idle"}
    BY <1>2, <1>3, <1>5
  <2> QED
    BY <1>1, <2>1 DEF QueuesOK, InQueue, channel
<1> QED
  BY <1>1, <1>4, <1>5 DEF QueuesOK, phase

LEMMA EndsKeeps ==
  ASSUME Sound, QueuesOK, NEW t \in Turns, Step(t), Ends(t)
  PROVE  QueuesOK' /\ queue' \in [Channels -> Seq(Turns)]
<1> DEFINE d == channel(t)
           q == queue[d]
<1>1. /\ turn \in [Turns -> Locals] /\ queue \in [Channels -> Seq(Turns)]
      /\ d \in Channels /\ q \in Seq(Turns) /\ q # <<>> /\ q[1] = t
  BY StepShape, HeadOfQueue DEF Sound, TypeOK
<1>2. queue' = [queue EXCEPT ![d] = Tail(q)]
  BY <1>1 DEF Ends, Finish
<1>3. queue'[d] = Tail(q) /\ \A c \in Channels \ {d} : queue'[c] = queue[c]
  BY <1>1, <1>2
<1>4. turn'[t].phase \in Over /\ \A u \in Turns \ {t} : turn'[u].phase = phase(u)
  BY <1>1, EndsGood DEF phase
<1>5. /\ Tail(q) \in Seq(Turns) /\ Len(q) \in Nat
      /\ \A i \in 1..Len(Tail(q)) :
           Tail(q)[i] = q[i + 1] /\ i + 1 \in 1..Len(q) /\ i + 1 > 1
      /\ \A i \in 1..Len(q) : i # 1 =>
           i - 1 \in 1..Len(Tail(q)) /\ Tail(q)[i - 1] = q[i]
  BY <1>1, TailUnique
<1>6. QueueOf(d) /\ 1 \in 1..Len(q)
  BY <1>1, <1>5 DEF QueuesOK
<1>7. QueueOf(d)'
  <2>1. ASSUME NEW i \in 1..Len(Tail(q))
        PROVE  /\ channel(Tail(q)[i]) = d
               /\ turn'[Tail(q)[i]].phase = "queued"
    <3>1. /\ Tail(q)[i] = q[i + 1] /\ i + 1 \in 1..Len(q) /\ i + 1 > 1
          /\ q[i + 1] \in Turns
      BY <1>1, <1>5, ElementOfSeq
    <3>2. channel(q[i + 1]) = d /\ phase(q[i + 1]) = "queued"
      BY <1>6, <3>1 DEF QueueOf
    <3>3. q[i + 1] # t
      BY <1>1, <1>6, <3>1 DEF QueueOf
    <3> QED
      BY <1>4, <3>1, <3>2, <3>3
  <2>2. ASSUME NEW i \in 1..Len(Tail(q)), NEW j \in 1..Len(Tail(q)),
               Tail(q)[i] = Tail(q)[j]
        PROVE  i = j
    <3>1. q[i + 1] = q[j + 1] /\ i + 1 \in 1..Len(q) /\ j + 1 \in 1..Len(q)
      BY <1>5, <2>2
    <3>2. i + 1 = j + 1
      BY <1>6, <3>1 DEF QueueOf
    <3> QED
      BY <3>2
  <2> HIDE DEF q, d
  <2> QED
    BY <1>3, <2>1, <2>2, PhaseKinds DEF QueueOf, channel, phase
<1>8. ASSUME NEW c \in Channels, c # d PROVE QueueOf(c)'
  <2>1. QueueOf(c) /\ queue[c] \in Seq(Turns) /\ queue'[c] = queue[c]
    BY <1>1, <1>3, <1>8 DEF QueuesOK
  <2>2. ASSUME NEW i \in 1..Len(queue[c])
        PROVE  turn'[queue[c][i]].phase = turn[queue[c][i]].phase
    <3>1. queue[c][i] \in Turns /\ channel(queue[c][i]) = c
      BY <2>1, ElementOfSeq DEF QueueOf
    <3> QED
      BY <1>4, <1>8, <3>1 DEF phase
  <2> QED
    BY <2>1, <2>2 DEF QueueOf, channel, phase
<1>9. ASSUME NEW u \in Turns, turn'[u].phase \notin Over \cup {"idle"}
      PROVE  InQueue(u)'
  <2>1. u # t /\ phase(u) \notin Over \cup {"idle"}
    BY <1>4, <1>9
  <2>2. PICK i \in 1..Len(queue[channel(u)]) : queue[channel(u)][i] = u
    BY <2>1 DEF QueuesOK, InQueue
  <2>3. CASE channel(u) = d
    <3>1. i # 1
      BY <1>1, <2>1, <2>2, <2>3
    <3>2. i - 1 \in 1..Len(Tail(q)) /\ Tail(q)[i - 1] = u
      BY <1>5, <2>2, <2>3, <3>1
    <3> QED
      BY <1>3, <2>3, <3>2 DEF InQueue, channel
  <2>4. CASE channel(u) # d
    <3>1. channel(u) \in Channels
      BY AssistantAssumption DEF channel
    <3> QED
      BY <1>3, <2>2, <2>4, <3>1 DEF InQueue, channel
  <2> QED
    BY <2>3, <2>4
<1>10. queue' \in [Channels -> Seq(Turns)]
  BY <1>1, <1>2, <1>5
<1> QED
  BY <1>7, <1>8, <1>9, <1>10 DEF QueuesOK, phase

LEMMA ArriveKeeps ==
  ASSUME Sound, QueuesOK, NEW t \in Turns, Arrive(t)
  PROVE  /\ QueuesOK' /\ queue' \in [Channels -> Seq(Turns)]
         /\ \E r : GoodLocals(r) /\ turn' = [turn EXCEPT ![t] = r]
         /\ UNCHANGED <<registered, pending, history, closed>>
<1> DEFINE d == channel(t)
           q == queue[d]
           r == [turn[t] EXCEPT !.phase = "queued"]
           n == Len(q)
<1>1. /\ turn \in [Turns -> Locals] /\ queue \in [Channels -> Seq(Turns)]
      /\ d \in Channels /\ q \in Seq(Turns) /\ n \in Nat
      /\ GoodLocals(turn[t]) /\ turn[t].phase = "idle"
  BY AssistantAssumption, LenProperties
  DEF Sound, TypeOK, channel, Arrive, phase
<1>2. turn' = [turn EXCEPT ![t] = r]
  BY <1>1 DEF Arrive
<1>3. /\ r \in Locals /\ r.phase = "queued" /\ r.loaded = turn[t].loaded
      /\ r.request = turn[t].request
  BY <1>1 DEF GoodLocals, Locals, Phases
<1>4. GoodLocals(r)
  BY <1>1, <1>3 DEF GoodLocals
<1>5. turn'[t].phase = "queued" /\ \A u \in Turns \ {t} : turn'[u].phase = phase(u)
  BY <1>1, <1>2, <1>3 DEF phase
<1>6. /\ queue'[d] = Append(q, t)
      /\ \A c \in Channels \ {d} : queue'[c] = queue[c]
      /\ queue' \in [Channels -> Seq(Turns)]
  BY <1>1, AppendProperties DEF Arrive
<1>7. /\ Len(Append(q, t)) = n + 1 /\ Append(q, t)[n + 1] = t
      /\ \A i \in 1..n : Append(q, t)[i] = q[i]
  BY <1>1, AppendProperties
<1>8. QueueOf(d) /\ \A i \in 1..n : q[i] \in Turns /\ q[i] # t
  <2>1. QueueOf(d)
    BY <1>1 DEF QueuesOK
  <2>2. ASSUME NEW i \in 1..n PROVE q[i] \in Turns /\ q[i] # t
    <3>1. q[i] \in Turns
      BY <1>1, ElementOfSeq
    <3>2. phase(q[i]) # "idle"
      BY <2>1 DEF QueueOf
    <3> QED
      BY <1>1, <3>1, <3>2 DEF phase
  <2> QED
    BY <2>1, <2>2
<1>9. /\ \A i, j \in 1..n : q[i] = q[j] => i = j
      /\ \A i \in 1..n :
           /\ channel(q[i]) = d
           /\ phase(q[i]) \notin Over \cup {"idle"}
           /\ i > 1 => phase(q[i]) = "queued"
  BY <1>8 DEF QueueOf
<1>10. QueueOf(d)'
  <2> DEFINE p == Append(q, t)
  <2>1. ASSUME NEW i \in 1..(n + 1)
        PROVE  /\ channel(p[i]) = d
               /\ turn'[p[i]].phase \notin Over \cup {"idle"}
               /\ i > 1 => turn'[p[i]].phase = "queued"
    <3>1. CASE i = n + 1
      BY <1>5, <1>7, <3>1, PhaseKinds
    <3>2. CASE i # n + 1
      <4>1. i \in 1..n
        BY <1>1, <3>2
      <4>2. p[i] = q[i] /\ turn'[q[i]].phase = phase(q[i])
        BY <1>5, <1>7, <1>8, <4>1
      <4> QED
        BY <1>9, <4>1, <4>2
    <3> QED
      BY <3>1, <3>2
  <2>2. ASSUME NEW i \in 1..(n + 1), NEW j \in 1..(n + 1), p[i] = p[j]
        PROVE  i = j
    <3>1. (i \in 1..n \/ i = n + 1) /\ (j \in 1..n \/ j = n + 1)
      BY <1>1
    <3> QED
      BY <1>7, <1>8, <1>9, <2>2, <3>1
  <2>3. Len(queue'[d]) = n + 1 /\ queue'[d] = p
    BY <1>6, <1>7
  <2> HIDE DEF p, n, q, d
  <2> QED
    BY <2>1, <2>2, <2>3 DEF QueueOf, channel, phase
<1>11. ASSUME NEW c \in Channels, c # d PROVE QueueOf(c)'
  <2>1. QueueOf(c) /\ queue[c] \in Seq(Turns) /\ queue'[c] = queue[c]
    BY <1>1, <1>6, <1>11 DEF QueuesOK
  <2>2. ASSUME NEW i \in 1..Len(queue[c])
        PROVE  turn'[queue[c][i]].phase = turn[queue[c][i]].phase
    <3>1. queue[c][i] \in Turns /\ channel(queue[c][i]) = c
      BY <2>1, ElementOfSeq DEF QueueOf
    <3> QED
      BY <1>5, <1>11, <3>1 DEF phase
  <2> QED
    BY <2>1, <2>2 DEF QueueOf, channel, phase
<1>12. ASSUME NEW u \in Turns, turn'[u].phase \notin Over \cup {"idle"}
       PROVE  InQueue(u)'
  <2>1. CASE u = t
    <3>1. n + 1 \in 1..Len(Append(q, t))
      BY <1>1, <1>7
    <3> QED
      BY <1>6, <1>7, <2>1, <3>1 DEF InQueue, channel
  <2>2. CASE u # t
    <3>1. PICK i \in 1..Len(queue[channel(u)]) : queue[channel(u)][i] = u
      BY <1>5, <1>12, <2>2 DEF QueuesOK, InQueue
    <3>2. CASE channel(u) = d
      <4>1. i \in 1..Len(Append(q, t)) /\ Append(q, t)[i] = u
        BY <1>1, <1>7, <3>1, <3>2
      <4> QED
        BY <1>6, <3>2, <4>1 DEF InQueue, channel
    <3>3. CASE channel(u) # d
      <4>1. channel(u) \in Channels
        BY AssistantAssumption DEF channel
      <4> QED
        BY <1>6, <3>1, <3>3, <4>1 DEF InQueue, channel
    <3> QED
      BY <3>2, <3>3
  <2> QED
    BY <2>1, <2>2
<1> QED
  BY <1>2, <1>4, <1>6, <1>10, <1>11, <1>12 DEF QueuesOK, phase, Arrive

\* Inductive together with the breaker's own type invariant.
Inv == Sound /\ QueuesOK /\ \A s \in Sessions : Len(history[s]) <= MaxHistory

LEMMA InitInv == Init => Inv
<1> SUFFICES ASSUME Init PROVE Inv
  OBVIOUS
<1>1. CB!TypeOK
  BY AssistantAssumption DEF Init, CB!Init, CB!TypeOK, CB!Breakers
<1>2. turn \in [Turns -> Locals] /\ \A t \in Turns : GoodLocals(turn[t])
  BY FreshGood DEF Init, GoodLocals
<1>3. /\ history \in [Sessions -> Seq(Messages)]
      /\ \A s \in Sessions : history[s] = <<>> /\ Len(history[s]) = 0
  BY EmptySeq DEF Init
<1>4. /\ queue \in [Channels -> Seq(Turns)]
      /\ \A c \in Channels : queue[c] = <<>> /\ Len(queue[c]) = 0
  BY EmptySeq DEF Init
<1>5. /\ registered \subseteq Tools /\ closed \subseteq Channels
      /\ pending \in [Sessions -> {None} \cup {<<g>> : g \in Gated}]
  BY AssistantAssumption DEF Init
<1>6. Sound
  BY <1>1, <1>2, <1>3, <1>4, <1>5, EmptyPaired DEF Sound, TypeOK
<1>7. \A t \in Turns : phase(t) = "idle"
  BY DEF Init, phase, Fresh
<1>8. QueuesOK
  BY <1>4, <1>7 DEF QueuesOK, QueueOf
<1>9. \A s \in Sessions : Len(history[s]) <= MaxHistory
  BY <1>3, HistoryAssumption
<1> QED
  BY <1>6, <1>8, <1>9 DEF Inv

LEMMA NextInv == Inv /\ [Next]_vars /\ CB!TypeOK' => Inv'
<1> SUFFICES ASSUME Inv, [Next]_vars, CB!TypeOK'
             PROVE  Inv'
  OBVIOUS
<1>1. Sound /\ QueuesOK /\ TypeOK
  BY DEF Inv, Sound
<1>2. ASSUME NEW t \in Turns, NEW r, GoodLocals(r),
             turn' = [turn EXCEPT ![t] = r]
      PROVE  turn' \in [Turns -> Locals] /\ \A u \in Turns : GoodLocals(turn'[u])
  BY <1>1, <1>2 DEF Sound, TypeOK, GoodLocals
<1>3. ASSUME NEW t \in Turns, Arrive(t) PROVE Inv'
  <2>1. /\ QueuesOK' /\ queue' \in [Channels -> Seq(Turns)]
        /\ UNCHANGED <<registered, pending, history, closed>>
        /\ turn' \in [Turns -> Locals] /\ \A u \in Turns : GoodLocals(turn'[u])
    BY <1>1, <1>2, <1>3, ArriveKeeps
  <2> QED
    BY <1>1, <2>1 DEF Inv, Sound, TypeOK
<1>4. ASSUME NEW t \in Turns, Step(t) PROVE Inv'
  <2>1. /\ pending' \in [Sessions -> {None} \cup {<<g>> : g \in Gated}]
        /\ UNCHANGED <<registered, closed>>
    BY <1>1, <1>4, PendingTyped, StepFrame
  <2>2. CASE \E r : Continues(t, r)
    <3>1. /\ QueuesOK' /\ UNCHANGED <<queue, history>>
          /\ turn' \in [Turns -> Locals] /\ \A u \in Turns : GoodLocals(turn'[u])
      BY <1>1, <1>2, <1>4, <2>2, ContinuesKeeps DEF Continues
    <3> QED
      BY <1>1, <2>1, <3>1 DEF Inv, Sound, TypeOK
  <2>3. CASE Ends(t)
    <3>1. /\ QueuesOK' /\ queue' \in [Channels -> Seq(Turns)]
          /\ turn' \in [Turns -> Locals] /\ \A u \in Turns : GoodLocals(turn'[u])
      BY <1>1, <1>2, <1>4, <2>3, EndsKeeps, EndsGood
    <3>2. /\ history' \in [Sessions -> Seq(Messages)]
          /\ \A s \in Sessions : Paired(history'[s]) /\ Len(history'[s]) <= MaxHistory
      <4>1. CASE UNCHANGED history
        BY <1>1, <4>1 DEF Inv, Sound, TypeOK
      <4>2. CASE SavePair(t)
        BY <1>1, <4>2, HistoryStaysSound DEF Inv
      <4> QED
        BY <2>3, <4>1, <4>2 DEF Ends
    <3> QED
      BY <1>1, <2>1, <3>1, <3>2 DEF Inv, Sound, TypeOK
  <2> QED
    BY <1>1, <1>4, <2>2, <2>3, StepShape
<1>5. ASSUME UNCHANGED <<history, queue, turn>>, registered' \subseteq Tools,
             closed' \subseteq Channels, UNCHANGED pending
      PROVE  Inv'
  <2>1. QueuesOK'
    BY <1>1, <1>5 DEF QueuesOK, QueueOf, InQueue, phase, channel
  <2> QED
    BY <1>1, <1>5, <2>1 DEF Inv, Sound, TypeOK
<1>6. ASSUME NEW c \in Sockets, Close(c) PROVE Inv'
  BY <1>1, <1>5, <1>6, AssistantAssumption DEF Close, TypeOK
<1>7. ASSUME NEW tool \in Volatile, Register(tool) \/ Deregister(tool)
      PROVE  Inv'
  BY <1>1, <1>5, <1>7, AssistantAssumption DEF Register, Deregister, TypeOK
<1>8. CASE RecoveryWindowElapses
  BY <1>1, <1>5, <1>8 DEF RecoveryWindowElapses, TypeOK
<1>9. CASE UNCHANGED vars
  BY <1>1, <1>5, <1>9 DEF vars, TypeOK
<1> QED
  BY <1>3, <1>4, <1>6, <1>7, <1>8, <1>9 DEF Next

LEMMA Invariance == Spec => []Inv
BY InitInv, NextInv, BreakerInvariant, PTL DEF Spec

\* Every variable of the assistant keeps its type.
THEOREM TypesKept == Spec => []TypeOK
<1>1. Inv => TypeOK
  BY DEF Inv, Sound
<1> QED
  BY <1>1, Invariance, PTL

\* What the store holds alternates, is paired and stays within the limit,
\* however the turns of a session overlap and whatever fails.
THEOREM HistoryAlwaysSound == Spec => []HistorySound
<1>1. Inv => HistorySound
  BY DEF Inv, Sound, HistorySound
<1> QED
  BY <1>1, Invariance, PTL

\* One turn of a socket at a time, and a turn that is over is in no queue.
THEOREM SocketsSerialize == Spec => []OneTurnPerSocket
<1>1. Inv => OneTurnPerSocket
  <2> SUFFICES ASSUME Inv, NEW t \in Turns
               PROVE  /\ phase(t) \in Running =>
                           /\ queue[channel(t)] # <<>>
                           /\ Head(queue[channel(t)]) = t
                      /\ phase(t) \in Over \cup {"idle"} =>
                           \A c \in Channels : ~Contains(queue[c], t)
    BY DEF OneTurnPerSocket
  <2>1. Sound /\ QueuesOK
    BY DEF Inv
  <2>2. ASSUME phase(t) \in Over \cup {"idle"}, NEW c \in Channels
        PROVE  ~Contains(queue[c], t)
    <3>1. queue[c] \in Seq(Turns)
      BY <2>1 DEF Sound, TypeOK
    <3>2. \A i \in 1..Len(queue[c]) : queue[c][i] # t
      BY <2>1, <2>2 DEF QueuesOK, QueueOf
    <3> QED
      BY <3>1, <3>2 DEF Contains
  <2> QED
    BY <2>1, <2>2, HeadOfQueue
<1> QED
  BY <1>1, Invariance, PTL

-----------------------------------------------------------------------------
(* What is stored once, and the log of a session. *)

\* A stored conversation of session s: no message twice, and only turns of
\* the session that are over; now, and after a step.
StoredBy(h, s) == /\ \A i, j \in 1..Len(h) : h[i] = h[j] => i = j
                  /\ \A u \in TurnsOf(h) : /\ u \in Turns /\ SessionOf[u] = s
                                         /\ turn[u].phase \in Over

StoredThen(h, s) == /\ \A i, j \in 1..Len(h) : h[i] = h[j] => i = j
                    /\ \A u \in TurnsOf(h) : /\ u \in Turns /\ SessionOf[u] = s
                                           /\ turn'[u].phase \in Over

Stored == /\ \A s \in Sessions : StoredBy(history[s], s)
          /\ \A t \in Turns : StoredBy(turn[t].loaded, SessionOf[t])

LEMMA InitStored == Init => Stored
<1> SUFFICES ASSUME Init PROVE Stored
  OBVIOUS
<1>1. \A s : StoredBy(<<>>, s)
  BY EmptySeq DEF StoredBy, TurnsOf
<1>2. \A t \in Turns : turn[t].loaded = <<>>
  BY DEF Init, Fresh
<1>3. \A s \in Sessions : history[s] = <<>>
  BY DEF Init
<1> QED
  BY <1>1, <1>2, <1>3 DEF Stored

LEMMA OverStays ==
  ASSUME Sound, QueuesOK, NEW t \in Turns, Arrive(t) \/ Step(t)
  PROVE  \A u \in Turns : turn[u].phase \in Over => turn'[u] = turn[u]
<1>1. turn \in [Turns -> Locals]
  BY DEF Sound, TypeOK
<1>2. turn[t].phase \notin Over
  <2>1. CASE Arrive(t)
    BY <2>1, PhaseKinds DEF Arrive, phase
  <2>2. CASE Step(t)
    BY <2>2, StepShape, HeadOfQueue DEF phase
  <2> QED
    BY <2>1, <2>2
<1>3. \E r : turn' = [turn EXCEPT ![t] = r]
  <2>1. CASE Arrive(t)
    BY <2>1, ArriveKeeps
  <2>2. CASE Step(t)
    BY <2>2, StepShape, EndsGood DEF Continues
  <2> QED
    BY <2>1, <2>2
<1> QED
  BY <1>1, <1>2, <1>3

\* The turn that saves adds itself to what it read back.
LEMMA SavedOnce ==
  ASSUME Sound, QueuesOK, Stored, NEW t \in Turns, Step(t),
         Ends(t), SavePair(t), phase(t) = "saving"
  PROVE  /\ StoredThen(history'[SessionOf[t]], SessionOf[t])
         /\ t \notin TurnsOf(turn[t].loaded)
<1> DEFINE h == turn[t].loaded
           s == SessionOf[t]
           a == appended(h, t)
<1>1. /\ turn \in [Turns -> Locals] /\ history \in [Sessions -> Seq(Messages)]
      /\ h \in Seq(Messages) /\ Paired(h) /\ s \in Sessions
  BY AssistantAssumption DEF Sound, TypeOK, GoodLocals, Locals
<1>2. StoredBy(h, s)
  BY DEF Stored
<1>3. t \notin TurnsOf(h)
  BY <1>2, PhaseKinds DEF StoredBy, phase
<1>4. history'[s] = a
  BY <1>1 DEF SavePair, session
<1>5. /\ \A i, j \in 1..Len(a) : a[i] = a[j] => i = j
      /\ TurnsOf(a) \subseteq TurnsOf(h) \cup {t}
  BY <1>1, <1>2, <1>3, AppendedOnce DEF StoredBy
<1>6. turn'[t].phase \in Over
  BY <1>1, EndsGood
<1>7. \A u \in Turns : turn[u].phase \in Over => turn'[u] = turn[u]
  BY OverStays
<1> HIDE DEF a
<1> QED
  BY <1>2, <1>3, <1>4, <1>5, <1>6, <1>7 DEF StoredBy, StoredThen

LEMMA NextStored == Inv /\ Stored /\ [Next]_vars => Stored'
<1> SUFFICES ASSUME Inv, Stored, [Next]_vars
             PROVE  Stored'
  OBVIOUS
<1>1. /\ Sound /\ QueuesOK /\ turn \in [Turns -> Locals]
      /\ history \in [Sessions -> Seq(Messages)]
  BY DEF Inv, Sound, TypeOK
<1>2. ASSUME \A u \in Turns : turn[u].phase \in Over => turn'[u] = turn[u],
             \A s \in Sessions : \/ history'[s] = history[s]
                                \/ StoredThen(history'[s], s),
             \A u \in Turns : \/ turn'[u].loaded = turn[u].loaded
                             \/ turn'[u].loaded = <<>>
                             \/ turn'[u].loaded = history[SessionOf[u]]
      PROVE  Stored'
  <2>1. \A h, s : StoredBy(h, s) => StoredThen(h, s)
    BY <1>2 DEF StoredBy, StoredThen
  <2>2. \A s : StoredThen(<<>>, s)
    BY EmptySeq DEF StoredThen, TurnsOf
  <2>3. \A s \in Sessions : StoredThen(history'[s], s)
    BY <1>2, <2>1 DEF Stored
  <2>4. \A t \in Turns : SessionOf[t] \in Sessions
    BY AssistantAssumption
  <2>5. \A t \in Turns : StoredThen(turn'[t].loaded, SessionOf[t])
    BY <1>2, <2>1, <2>2, <2>4 DEF Stored
  <2> QED
    BY <2>3, <2>5 DEF Stored, StoredBy, StoredThen
<1>3. ASSUME NEW t \in Turns, Arrive(t) PROVE Stored'
  <2>1. turn'[t].loaded = turn[t].loaded
    BY <1>1, <1>3 DEF Arrive, Sound, GoodLocals, Locals
  <2>2. \A u \in Turns \ {t} : turn'[u] = turn[u]
    BY <1>1, <1>3, ArriveKeeps
  <2>3. history' = history
    BY <1>3 DEF Arrive
  <2> QED
    BY <1>1, <1>2, <1>3, <2>1, <2>2, <2>3, OverStays
<1>4. ASSUME NEW t \in Turns, Step(t) PROVE Stored'
  <2>1. \A u \in Turns : turn[u].phase \in Over => turn'[u] = turn[u]
    BY <1>1, <1>4, OverStays
  <2>2. CASE \E r : Continues(t, r)
    <3>1. PICK r : Continues(t, r)
      BY <2>2
    <3>2. /\ turn'[t] = r /\ history' = history
          /\ \A u \in Turns \ {t} : turn'[u] = turn[u]
      BY <1>1, <3>1 DEF Continues
    <3> QED
      BY <1>2, <2>1, <3>1, <3>2 DEF Continues, session
  <2>3. CASE Ends(t)
    <3>1. PICK r : turn' = [turn EXCEPT ![t] = r] /\ r.loaded = <<>>
      BY <1>1, <2>3, EndsGood
    <3>2. turn'[t].loaded = <<>> /\ \A u \in Turns \ {t} : turn'[u] = turn[u]
      BY <1>1, <3>1
    <3>3. CASE UNCHANGED history
      BY <1>2, <2>1, <3>2, <3>3
    <3>4. CASE phase(t) = "saving" /\ SavePair(t)
      <4>1. StoredThen(history'[SessionOf[t]], SessionOf[t])
        BY <1>1, <1>4, <2>3, <3>4, SavedOnce
      <4>2. \A s \in Sessions : s # SessionOf[t] => history'[s] = history[s]
        BY <1>1, <3>4 DEF SavePair, session
      <4> QED
        BY <1>2, <2>1, <3>2, <4>1, <4>2
    <3> QED
      BY <2>3, <3>3, <3>4 DEF Ends
  <2> QED
    BY <1>1, <1>4, <2>2, <2>3, StepShape
<1>5. CASE UNCHANGED <<turn, history>>
  BY <1>2, <1>5
<1>6. \/ UNCHANGED <<turn, history>>
      \/ \E t \in Turns : Arrive(t) \/ Step(t)
  BY DEF Next, Close, Register, Deregister, RecoveryWindowElapses, vars
<1> QED
  BY <1>3, <1>4, <1>5, <1>6

\* A turn's text is in the store at most once, and only in its own session,
\* whatever is loaded and saved around it.
THEOREM NothingStoredTwice == Spec => []StoredOnce
<1>1. Stored => StoredOnce
  BY DEF Stored, StoredBy, StoredOnce
<1> QED
  BY <1>1, Invariance, InitStored, NextStored, PTL DEF Spec

\* The turns of a session all arrive on one channel.
OneChannelPerSession ==
  \A t, u \in Turns : SessionOf[t] = SessionOf[u] => ChannelOf[t] = ChannelOf[u]

\* What a turn is about to save is what is stored.
Loaded == \A t \in Turns : turn[t].phase = "saving"
                            => turn[t].loaded = history[SessionOf[t]]

LEMMA RecordedOrUnchanged ==
  ASSUME Inv, Stored, Loaded, NEW t \in Turns, Step(t)
  PROVE  UNCHANGED history \/ Log!Record(SessionOf[t], t)
<1>1. Sound /\ QueuesOK
  BY DEF Inv
<1>2. CASE \E r : Continues(t, r)
  BY <1>2 DEF Continues
<1>3. CASE Ends(t) /\ phase(t) = "saving" /\ SavePair(t)
  <2>1. turn[t].loaded = history[SessionOf[t]]
    BY <1>3 DEF Loaded, phase
  <2>2. t \notin TurnsOf(turn[t].loaded)
    BY <1>1, <1>3, SavedOnce
  <2>3. history' = [history EXCEPT ![SessionOf[t]] =
                      appended(history[SessionOf[t]], t)]
    BY <1>3, <2>1 DEF SavePair, session
  <2> QED
    BY <2>1, <2>2, <2>3 DEF Log!Record, Log!TurnsOf, TurnsOf, Log!appended,
       appended, Log!from_first_user, from_first_user, Log!most_recent,
       most_recent, Log!message_pair, message_pair
<1> QED
  BY <1>1, <1>2, <1>3, StepShape DEF Ends

LEMMA NextLoaded ==
  ASSUME OneChannelPerSession, Inv, Loaded, [Next]_vars
  PROVE  Loaded'
<1>1. /\ Sound /\ QueuesOK /\ turn \in [Turns -> Locals]
      /\ history \in [Sessions -> Seq(Messages)]
  BY DEF Inv, Sound, TypeOK
<1>2. ASSUME NEW t \in Turns, Arrive(t) PROVE Loaded'
  <2>1. turn'[t].phase = "queued" /\ \A u \in Turns \ {t} : turn'[u] = turn[u]
    BY <1>1, <1>2 DEF Arrive, Locals
  <2>2. history' = history
    BY <1>2 DEF Arrive
  <2> QED
    BY <2>1, <2>2 DEF Loaded
<1>3. ASSUME NEW t \in Turns, Step(t), NEW r, Continues(t, r) PROVE Loaded'
  <2>1. turn'[t] = r /\ history' = history /\ \A u \in Turns \ {t} : turn'[u] = turn[u]
    BY <1>1, <1>3 DEF Continues
  <2> QED
    BY <1>3, <2>1 DEF Loaded, Continues, session
<1>4. ASSUME NEW t \in Turns, Step(t), Ends(t) PROVE Loaded'
  <2>1. turn'[t].phase \in Over /\ \A u \in Turns \ {t} : turn'[u] = turn[u]
    BY <1>1, <1>4, EndsGood
  <2>2. ASSUME NEW u \in Turns, u # t, turn[u].phase = "saving"
        PROVE  history'[SessionOf[u]] = history[SessionOf[u]]
    <3>1. CASE UNCHANGED history
      BY <3>1
    <3>2. CASE phase(t) = "saving" /\ SavePair(t)
      <4>1. /\ queue[channel(t)][1] = t /\ queue[channel(u)][1] = u
        BY <1>1, <2>2, <3>2, HeadOfQueue, PhaseKinds DEF phase
      <4>2. ChannelOf[u] # ChannelOf[t]
        BY <2>2, <4>1 DEF channel
      <4>3. SessionOf[u] # SessionOf[t]
        BY <4>2 DEF OneChannelPerSession
      <4> QED
        BY <1>1, <3>2, <4>3, AssistantAssumption DEF SavePair, session
    <3> QED
      BY <1>4, <3>1, <3>2 DEF Ends
  <2> QED
    BY <2>1, <2>2, PhaseKinds DEF Loaded
<1>5. CASE UNCHANGED <<turn, history>>
  BY <1>5 DEF Loaded
<1>6. \/ UNCHANGED <<turn, history>>
      \/ \E t \in Turns : Arrive(t) \/ Step(t)
  BY DEF Next, Close, Register, Deregister, RecoveryWindowElapses, vars
<1> QED
  BY <1>1, <1>2, <1>3, <1>4, <1>5, <1>6, StepShape

\* When the turns of a session share a channel, its history is the log that
\* ConversationLog promises: whole turns, one after the other, none lost.
THEOREM LogImplemented ==
  ASSUME OneChannelPerSession
  PROVE  Spec => LogSpec
<1>1. Init => Log!Init
  BY DEF Init, Log!Init
<1>2. Init => Loaded
  BY DEF Init, Loaded, Fresh
<1>3. Inv /\ Loaded /\ [Next]_vars => Loaded'
  BY NextLoaded
<1>4. Inv /\ Stored /\ Loaded /\ [Next]_vars => [Log!Next]_history
  <2> SUFFICES ASSUME Inv, Stored, Loaded, [Next]_vars
               PROVE  [Log!Next]_history
    OBVIOUS
  <2>1. ASSUME NEW t \in Turns, Arrive(t) PROVE UNCHANGED history
    BY <2>1 DEF Arrive
  <2>2. ASSUME NEW t \in Turns, Step(t) PROVE [Log!Next]_history
    <3>1. SessionOf[t] \in Sessions
      BY AssistantAssumption
    <3> QED
      BY <2>2, <3>1, RecordedOrUnchanged DEF Log!Next
  <2>3. \/ UNCHANGED history
        \/ \E t \in Turns : Arrive(t) \/ Step(t)
    BY DEF Next, Close, Register, Deregister, RecoveryWindowElapses, vars
  <2> QED
    BY <2>1, <2>2, <2>3
<1> QED
  BY <1>1, <1>2, <1>3, <1>4, Invariance, InitStored, NextStored, PTL
  DEF Spec, LogSpec, Log!Spec

-----------------------------------------------------------------------------
(* Confirmations. *)

\* A turn starts to execute tools in two ways only.
LEMMA WhoExecutes ==
  ASSUME Sound, QueuesOK, NEW t \in Turns, Step(t),
         phase(t) # "executing", turn'[t].phase = "executing"
  PROVE  ConfirmTool(t) \/ RunTool(t)
<1>1. /\ turn \in [Turns -> Locals] /\ turn[t] \in Locals
      /\ turn[t].phase # "executing"
  BY DEF Sound, TypeOK, phase
<1>2. ~Ends(t)
  BY <1>1, EndsGood DEF Over
<1>3. ASSUME NEW shown, NEW reply, StartAppend(t, shown, reply) PROVE FALSE
  <2>1. turn'[t] = [Fresh EXCEPT !.phase = "appending", !.shown = shown,
                                 !.reply = reply]
    BY <1>1, <1>3 DEF StartAppend
  <2>2. turn'[t].phase = "appending"
    BY <2>1 DEF Fresh
  <2> QED
    BY <2>2
<1>4. ~(AnswerFaq(t) \/ AnswerDegraded(t) \/ ModelRefused(t) \/ ModelAnswers(t)
        \/ HopBudgetExhausted(t) \/ ModelFailsTransiently(t)
        \/ ModelFailsOtherwise(t) \/ DispatchUnknown(t) \/ AskConfirmation(t))
  BY <1>3 DEF AnswerFaq, AnswerDegraded, ModelRefused, ModelAnswers,
     HopBudgetExhausted, ModelFailsTransiently, ModelFailsOtherwise,
     DispatchUnknown, AskConfirmation, Degrade, ShowAndAppend
<1>5. ~(Drop(t) \/ Reject(t) \/ SuppressFiller(t) \/ SkipEmptyReply(t)
        \/ Save(t) \/ StoreFails(t))
  BY <1>2 DEF Drop, Reject, SuppressFiller, SkipEmptyReply, Save, StoreFails,
     Ends, Over
<1>6. ~RunLlmTurn(t)
  BY <1>1 DEF RunLlmTurn, Locals
<1>7. ~LoadHistory(t)
  BY <1>1 DEF LoadHistory, Locals
<1>8. ~AskModel(t)
  BY <1>1 DEF AskModel, Locals
<1>9. ~StreamText(t)
  BY <1>1 DEF StreamText, Locals
<1>10. ~RetryModel(t)
  BY <1>1 DEF RetryModel, Locals
<1>11. ~ModelSelectsTools(t)
  BY <1>1 DEF ModelSelectsTools, Locals
<1>12. ~ToolReturns(t)
  BY <1>1 DEF ToolReturns, phase
<1>13. ~LoadForAppend(t)
  BY <1>1 DEF LoadForAppend, Locals
<1> QED
  BY <1>4, <1>5, <1>6, <1>7, <1>8, <1>9, <1>10, <1>11, <1>12, <1>13 DEF Step

\* One confirmation starts its gated tool once: the step that starts it takes
\* the pending confirmation away.
THEOREM ConfirmationsRunOnce == Spec => OneRunPerConfirmation
<1> DEFINE Runs == \A t \in Turns :
                     (phase(t) # "executing" /\ phase(t)' = "executing"
                        /\ Head(turn'[t].tools) \in Gated) =>
                     /\ pending[session(t)] = <<Head(turn'[t].tools)>>
                     /\ pending'[session(t)] = None
<1>1. Inv /\ [Next]_vars => [Runs]_vars
  <2> SUFFICES ASSUME Inv, Next, NEW t \in Turns, turn[t].phase # "executing",
                      turn'[t].phase = "executing",
                      Head(turn'[t].tools) \in Gated
               PROVE  /\ pending[session(t)] = <<Head(turn'[t].tools)>>
                      /\ pending'[session(t)] = None
    BY DEF phase
  <2>1. /\ Sound /\ QueuesOK /\ turn \in [Turns -> Locals]
        /\ session(t) \in Sessions
        /\ pending \in [Sessions -> {None} \cup {<<g>> : g \in Gated}]
    BY AssistantAssumption DEF Inv, Sound, TypeOK, session
  <2>2. PICK u \in Turns : Arrive(u) \/ Step(u)
    BY DEF Next, Close, Register, Deregister, RecoveryWindowElapses
  <2>3. u = t
    <3>1. \E r : turn' = [turn EXCEPT ![u] = r]
      BY <2>1, <2>2, ArriveKeeps, StepShape, EndsGood DEF Continues
    <3> QED
      BY <2>1, <3>1
  <2>4. ~Arrive(t)
    BY <2>1 DEF Arrive, Locals
  <2>5. CASE RunTool(t)
    <3>1. turn'[t].tools = turn[t].tools
      BY <2>1, <2>5 DEF RunTool, Locals
    <3> QED
      BY <2>5, <3>1 DEF RunTool, Selected
  <2>6. CASE ConfirmTool(t)
    <3>1. PICK g \in Gated : pending[session(t)] = <<g>>
      BY <2>1, <2>6 DEF ConfirmTool
    <3>2. pending'[session(t)] = None
      BY <2>1, <2>6 DEF ConfirmTool, DropPending
    <3>3. ~ShowAndAppend(t, Refusal, <<Refusal>>)
      <4>1. SUFFICES ASSUME ShowAndAppend(t, Refusal, <<Refusal>>) PROVE FALSE
        OBVIOUS
      <4>2. turn'[t] = [Fresh EXCEPT !.phase = "appending",
                          !.shown = Append(turn[t].shown, Refusal),
                          !.reply = <<Refusal>>]
        BY <2>1, <4>1 DEF ShowAndAppend, StartAppend
      <4> QED
        BY <4>2 DEF Fresh
    <3>4. turn'[t].tools = <<g>>
      BY <2>1, <2>6, <3>1, <3>3 DEF ConfirmTool, Locals
    <3> QED
      BY <3>1, <3>2, <3>4
  <2> QED
    BY <2>1, <2>2, <2>3, <2>4, <2>5, <2>6, WhoExecutes DEF phase
<1> QED
  BY <1>1, Invariance, PTL DEF Spec, OneRunPerConfirmation

-----------------------------------------------------------------------------
(* What a turn asks, shows and stores. *)

\* While a turn is under way it has shown what streams so far have yielded, at
\* most one piece each; what it gives to append_history is what it has shown, or
\* the confirmation question or refusal it ends with.
Ending == {"appending", "saving"} \cup Over

\* What may have been shown of the stream that is numbered now.
HasYielded(r) == (r.phase = "streaming" /\ r.yielded) \/ r.phase \in {"dispatching", "executing"}

Streamed(r) ==
  /\ r.reply = <<>>
  /\ r.request = <<>> => r.shown = <<>>
  /\ \A i \in 1..Len(r.shown) :
       /\ r.shown[i].kind = "model" /\ r.shown[i].n <= r.round
       /\ r.shown[i].n = r.round => HasYielded(r)

Kept(r) ==
  r.reply # <<>> =>
    \/ r.reply = r.shown
    \/ /\ Last(r.shown) \in {Confirm, Refusal}
       /\ r.reply = <<Last(r.shown)>>

Alternating(roles) ==
  /\ roles[Len(roles)] = "user"
  /\ \A i \in 1..Len(roles) : roles[i] = IF i % 2 = 1 THEN "user" ELSE "assistant"

Exchange(r) ==
  /\ IsInjective(r.shown)
  /\ r.phase \in Ending => Kept(r)
  /\ r.phase \notin Ending => Streamed(r)
  /\ r.phase \in {"idle", "queued", "loading"} => r.request = <<>>
  /\ r.phase \in {"ready", "streaming"} =>
       r.request # <<>> /\ (r.round = 0 => Alternating(r.request))

Exchanges == \A t \in Turns : Exchange(turn[t])

LEMMA PhasesApart ==
  /\ {"idle", "queued", "loading", "ready", "streaming", "dispatching", "executing"} \cap Ending = {}
  /\ {"appending", "saving"} \cup Over \subseteq Ending
BY DEF Ending, Over

LEMMA ShownTyped ==
  ASSUME Sound, NEW t \in Turns
  PROVE  /\ turn \in [Turns -> Locals] /\ turn[t] \in Locals
         /\ turn[t].shown \in Seq(Pieces) /\ Len(turn[t].shown) \in Nat
         /\ DOMAIN turn[t].shown = 1..Len(turn[t].shown)
         /\ \A i \in 1..Len(turn[t].shown) : turn[t].shown[i] \in Pieces
         /\ turn[t].round \in 0..MaxToolHops /\ MaxToolHops \in Nat
         /\ \A i \in 1..Len(turn[t].shown) :
              turn[t].shown[i].kind = "model" => turn[t].shown[i].n \in Nat
<1>1. turn \in [Turns -> Locals] /\ turn[t] \in Locals
  BY DEF Sound, TypeOK
<1>2. turn[t].shown \in Seq(Pieces) /\ turn[t].round \in 0..MaxToolHops /\ MaxToolHops \in Nat
  BY <1>1, AssistantAssumption DEF Locals
<1>3. /\ Len(turn[t].shown) \in Nat /\ DOMAIN turn[t].shown = 1..Len(turn[t].shown)
      /\ \A i \in 1..Len(turn[t].shown) : turn[t].shown[i] \in Pieces
  BY <1>2
<1>4. \A p \in Pieces : p.kind = "model" => p.n \in Nat
  BY <1>2 DEF Pieces, Model, Canned, Degraded, Confirm, Refusal
<1> QED
  BY <1>1, <1>2, <1>3, <1>4

\* A piece of a kind not shown yet, or of a stream not numbered yet, is new.
LEMMA ShownOnce ==
  ASSUME NEW s \in Seq(Pieces), IsInjective(s), NEW p \in Pieces, \A i \in 1..Len(s) : s[i] # p
  PROVE  /\ Append(s, p) \in Seq(Pieces) /\ IsInjective(Append(s, p))
         /\ Len(Append(s, p)) = Len(s) + 1 /\ Last(Append(s, p)) = p /\ Append(s, p) # <<>>
         /\ \A i \in 1..Len(s) : Append(s, p)[i] = s[i]
         /\ \A i \in 1..Len(s) + 1 : i \in 1..Len(s) \/ i = Len(s) + 1
<1> DEFINE a == Append(s, p)
<1>1. /\ a \in Seq(Pieces) /\ Len(a) = Len(s) + 1 /\ a[Len(s) + 1] = p
      /\ \A i \in 1..Len(s) : a[i] = s[i]
      /\ Len(s) \in Nat /\ DOMAIN s = 1..Len(s)
  BY AppendProperties
<1> HIDE DEF a
<1>2. DOMAIN a = 1..Len(a)
  BY <1>1
<1>3. \A i \in 1..Len(s) + 1 : i \in 1..Len(s) \/ i = Len(s) + 1
  BY <1>1
<1>4. IsInjective(a)
  BY <1>1, <1>2, <1>3 DEF IsInjective
<1>5. a # <<>>
  <2>1. Len(a) # 0
    BY <1>1
  <2> QED
    BY <2>1, EmptySeq, Zenon
<1>6. Last(a) = p
  BY <1>1 DEF Last
<1> QED
  BY <1>1, <1>3, <1>4, <1>5, <1>6 DEF a

\* Every end of a turn keeps what it showed and stored.
LEMMA FinishKeeps ==
  ASSUME Sound, Exchanges, NEW t \in Turns, NEW how \in Over, Finish(t, how)
  PROVE  Exchange(turn'[t]) /\ \A u \in Turns : u # t => turn'[u] = turn[u]
<1> DEFINE r == [Fresh EXCEPT !.phase = how, !.shown = turn[t].shown, !.reply = turn[t].reply]
<1>1. turn' = [turn EXCEPT ![t] = r] /\ turn \in [Turns -> Locals]
  BY DEF Finish, Sound, TypeOK
<1>2. r.phase = how /\ r.shown = turn[t].shown /\ r.reply = turn[t].reply
  <2>1. Fresh \in Locals
    BY FreshGood DEF GoodLocals
  <2> QED
    BY <2>1 DEF Locals
<1> HIDE DEF r
<1>3. Kept(turn[t]) /\ IsInjective(turn[t].shown)
  BY DEF Exchanges, Exchange, Streamed, Kept
<1>4. r.phase \in Ending /\ r.phase \notin {"idle", "queued", "loading", "ready", "streaming"}
  BY <1>2 DEF Ending, Over
<1>5. Exchange(r)
  BY <1>2, <1>3, <1>4 DEF Exchange, Kept
<1> QED
  BY <1>1, <1>5

LEMMA StartAppendKeeps ==
  ASSUME Sound, NEW t \in Turns, NEW shown \in Seq(Pieces), NEW reply \in Seq(Pieces),
         StartAppend(t, shown, reply), IsInjective(shown),
         reply = shown \/ (Last(shown) \in {Confirm, Refusal} /\ reply = <<Last(shown)>>)
  PROVE  Exchange(turn'[t]) /\ \A u \in Turns : u # t => turn'[u] = turn[u]
<1> DEFINE r == [Fresh EXCEPT !.phase = "appending", !.shown = shown, !.reply = reply]
<1>1. turn' = [turn EXCEPT ![t] = r] /\ turn \in [Turns -> Locals]
  BY DEF StartAppend, Sound, TypeOK
<1>2. r.phase = "appending" /\ r.shown = shown /\ r.reply = reply
  <2>1. Fresh \in Locals
    BY FreshGood DEF GoodLocals
  <2> QED
    BY <2>1 DEF Locals
<1> HIDE DEF r
<1>3. r.phase \in Ending /\ r.phase \notin {"idle", "queued", "loading", "ready", "streaming"}
  BY <1>2 DEF Ending
<1>4. Kept(r)
  BY <1>2 DEF Kept
<1>5. Exchange(r)
  BY <1>2, <1>3, <1>4 DEF Exchange
<1> QED
  BY <1>1, <1>5

\* A last piece that is no stream's.
LEMMA LastPieceKeeps ==
  ASSUME Sound, Exchanges, NEW t \in Turns, phase(t) \notin Ending,
         NEW piece \in {Canned, Degraded, Confirm, Refusal}, NEW reply,
         ShowAndAppend(t, piece, reply),
         \/ reply = Append(turn[t].shown, piece)
         \/ reply = <<piece>> /\ (piece \in {Confirm, Refusal} \/ turn[t].shown = <<>>)
  PROVE  Exchange(turn'[t]) /\ \A u \in Turns : u # t => turn'[u] = turn[u]
<1> DEFINE s == turn[t].shown
<1>1. s \in Seq(Pieces) /\ IsInjective(s) /\ piece \in Pieces
  BY ShownTyped, PieceTypes DEF Exchanges, Exchange
<1>2. \A i \in 1..Len(s) : s[i].kind = "model"
  BY DEF Exchanges, Exchange, Streamed, phase
<1>3. piece.kind # "model"
  BY DEF Canned, Degraded, Confirm, Refusal
<1>4. ShowAndAppend(t, piece, reply) <=> StartAppend(t, Append(s, piece), reply)
  BY DEF ShowAndAppend
<1>5. s = <<>> => Append(s, piece) = <<piece>>
  BY <1>1
<1>6. /\ reply = Append(s, piece)
      \/ (reply = <<piece>> /\ (piece \in {Confirm, Refusal} \/ s = <<>>))
  OBVIOUS
<1> HIDE DEF s
<1>7. \A i \in 1..Len(s) : s[i] # piece
  BY <1>2, <1>3
<1> DEFINE a == Append(s, piece)
<1>8. a \in Seq(Pieces) /\ IsInjective(a) /\ Last(a) = piece
  BY <1>1, <1>7, ShownOnce
<1>9. <<piece>> \in Seq(Pieces)
  BY <1>1
<1>10. reply = a \/ (reply = <<piece>> /\ piece \in {Confirm, Refusal})
  BY <1>5, <1>6
<1>11. StartAppend(t, a, reply)
  BY <1>4
<1> HIDE DEF a
<1>12. reply \in Seq(Pieces) /\ (reply = a \/ (Last(a) \in {Confirm, Refusal} /\ reply = <<Last(a)>>))
  BY <1>8, <1>9, <1>10
<1> QED
  BY <1>8, <1>11, <1>12, StartAppendKeeps

\* A step that leaves the turn before its end.
LEMMA GoesOn ==
  ASSUME Sound, Exchanges, NEW t \in Turns, NEW r, turn' = [turn EXCEPT ![t] = r],
         r.phase \notin Ending, IsInjective(r.shown), Streamed(r),
         r.phase \in {"idle", "queued", "loading"} => r.request = <<>>,
         r.phase \in {"ready", "streaming"} =>
           r.request # <<>> /\ (r.round = 0 => Alternating(r.request))
  PROVE  Exchange(turn'[t]) /\ \A u \in Turns : u # t => turn'[u] = turn[u]
<1>1. turn \in [Turns -> Locals]
  BY DEF Sound, TypeOK
<1>2. Exchange(r)
  BY DEF Exchange
<1> QED
  BY <1>1, <1>2

\* What the locals of a turn before its end satisfy.
LEMMA Before ==
  ASSUME Sound, Exchanges, NEW t \in Turns, phase(t) \notin Ending
  PROVE  /\ turn \in [Turns -> Locals] /\ turn[t] \in Locals
         /\ IsInjective(turn[t].shown) /\ Streamed(turn[t])
         /\ phase(t) \in {"idle", "queued", "loading"} => turn[t].request = <<>>
         /\ phase(t) \in {"ready", "streaming"} =>
              turn[t].request # <<>> /\ (turn[t].round = 0 => Alternating(turn[t].request))
BY DEF Exchanges, Exchange, phase, Sound, TypeOK

LEMMA ArriveExchanges ==
  ASSUME Sound, Exchanges, NEW t \in Turns, Arrive(t)
  PROVE  Exchange(turn'[t]) /\ \A u \in Turns : u # t => turn'[u] = turn[u]
<1> DEFINE r == [turn[t] EXCEPT !.phase = "queued"]
<1>1. phase(t) = "idle" /\ phase(t) \notin Ending
  BY PhasesApart DEF Arrive
<1>2. turn' = [turn EXCEPT ![t] = r]
  BY <1>1, Before DEF Arrive
<1>3. turn[t] \in Locals /\ turn[t].request = <<>> /\ turn[t].shown = <<>>
      /\ turn[t].reply = <<>>
  BY <1>1, Before DEF Streamed
<1>4. r.phase = "queued" /\ r.request = <<>> /\ r.shown = <<>> /\ r.reply = <<>>
  BY <1>3 DEF Locals
<1> HIDE DEF r
<1>5. IsInjective(r.shown) /\ Streamed(r)
  BY <1>4 DEF Streamed, IsInjective
<1> QED
  BY <1>2, <1>4, <1>5, GoesOn, PhasesApart

LEMMA ConfirmToolExchanges ==
  ASSUME Sound, Exchanges, NEW t \in Turns, ConfirmTool(t)
  PROVE  Exchange(turn'[t]) /\ \A u \in Turns : u # t => turn'[u] = turn[u]
<1>1. phase(t) = "queued" /\ phase(t) \notin Ending
  BY PhasesApart DEF ConfirmTool, Starts, IsNext
<1>2. turn[t] \in Locals /\ turn[t].request = <<>> /\ turn[t].shown = <<>>
      /\ turn[t].reply = <<>>
  BY <1>1, Before DEF Streamed
<1>3. CASE pending[session(t)][1] \in registered
  <2> DEFINE r == [turn[t] EXCEPT !.tools = pending[session(t)], !.round = 1,
                                  !.phase = "executing"]
  <2>1. turn' = [turn EXCEPT ![t] = r]
    BY <1>1, <1>3, Before DEF ConfirmTool
  <2>2. r.phase = "executing" /\ r.request = <<>> /\ r.shown = <<>> /\ r.reply = <<>>
    BY <1>2 DEF Locals
  <2> HIDE DEF r
  <2>3. IsInjective(r.shown) /\ Streamed(r)
    BY <2>2 DEF Streamed, IsInjective
  <2> QED
    BY <2>1, <2>2, <2>3, GoesOn, PhasesApart
<1>4. CASE pending[session(t)][1] \notin registered
  BY <1>1, <1>4, LastPieceKeeps DEF ConfirmTool
<1> QED
  BY <1>3, <1>4

LEMMA RunLlmTurnExchanges ==
  ASSUME Sound, Exchanges, NEW t \in Turns, RunLlmTurn(t)
  PROVE  Exchange(turn'[t]) /\ \A u \in Turns : u # t => turn'[u] = turn[u]
<1> DEFINE r == [turn[t] EXCEPT !.phase = "loading"]
<1>1. phase(t) = "queued" /\ phase(t) \notin Ending
  BY PhasesApart DEF RunLlmTurn, Starts, IsNext
<1>2. turn' = [turn EXCEPT ![t] = r]
  BY <1>1, Before DEF RunLlmTurn
<1>3. turn[t] \in Locals /\ turn[t].request = <<>> /\ turn[t].shown = <<>>
      /\ turn[t].reply = <<>>
  BY <1>1, Before DEF Streamed
<1>4. r.phase = "loading" /\ r.request = <<>> /\ r.shown = <<>> /\ r.reply = <<>>
  BY <1>3 DEF Locals
<1> HIDE DEF r
<1>5. IsInjective(r.shown) /\ Streamed(r)
  BY <1>4 DEF Streamed, IsInjective
<1> QED
  BY <1>2, <1>4, <1>5, GoesOn, PhasesApart

\* The roles of a stored conversation and the resident's new message.
LEMMA AskedAlternates ==
  ASSUME NEW h \in Seq(Messages), Paired(h)
  PROVE  /\ Alternating(roles_of(h) \o <<"user">>)
         /\ roles_of(h) \o <<"user">> # <<>>
         /\ roles_of(h) \o <<"user", "user">> # <<>>
<1> DEFINE n == Len(h)
           s == roles_of(h)
           roles == s \o <<"user">>
           twice == s \o <<"user", "user">>
<1>1. n \in Nat /\ n % 2 = 0
  BY LenProperties DEF Paired
<1>2. \A i \in 1..n : h[i] \in Messages /\ h[i].role = IF i % 2 = 1 THEN "user" ELSE "assistant"
  BY ElementOfSeq DEF Paired
<1>3. s \in Seq({"user", "assistant"}) /\ Len(s) = n /\ \A i \in 1..n : s[i] = h[i].role
  <2>1. \A i \in 1..n : h[i].role \in {"user", "assistant"}
    BY <1>2
  <2> QED
    BY <1>1, <2>1 DEF roles_of
<1> HIDE DEF n, s
<1>4. \A i \in 1..n : s[i] = IF i % 2 = 1 THEN "user" ELSE "assistant"
  BY <1>2, <1>3
<1>5. /\ Len(roles) = n + 1 /\ roles[n + 1] = "user"
      /\ \A i \in 1..n : roles[i] = s[i]
  <2> DEFINE one == <<"user">>
  <2>1. one \in Seq({"user", "assistant"}) /\ Len(one) = 1 /\ one[1] = "user"
    OBVIOUS
  <2> HIDE DEF one
  <2>2. /\ Len(s \o one) = Len(s) + Len(one)
        /\ \A i \in 1..Len(s) + Len(one) :
             (s \o one)[i] = IF i <= Len(s) THEN s[i] ELSE one[i - Len(s)]
    BY ONLY <1>3, <2>1, ConcatProperties, Zenon
  <2> DEFINE a == s \o one
  <2> HIDE DEF a
  <2>3. /\ Len(a) = n + 1
        /\ \A i \in 1..n + 1 : a[i] = IF i <= n THEN s[i] ELSE one[i - n]
    BY <1>3, <2>1, <2>2, Zenon DEF a
  <2>4. a[n + 1] = one[1]
    BY <1>1, <2>3
  <2>5. \A i \in 1..n : a[i] = s[i]
    BY <1>1, <2>3
  <2> QED
    BY <2>1, <2>3, <2>4, <2>5 DEF one, a
<1>6. Len(twice) = n + 2
  BY <1>1, <1>3
<1> HIDE DEF roles, twice
<1>7. roles # <<>> /\ twice # <<>>
  <2>1. Len(roles) # 0 /\ Len(twice) # 0
    BY <1>1, <1>5, <1>6
  <2> QED
    BY <2>1, EmptySeq, Zenon
<1>8. (n + 1) % 2 = 1 /\ \A i \in 1..n + 1 : i \in 1..n \/ i = n + 1
  BY <1>1
<1>9. Alternating(roles)
  BY <1>4, <1>5, <1>8 DEF Alternating
<1> QED
  BY <1>7, <1>9 DEF roles, twice, s

LEMMA LoadHistoryExchanges ==
  ASSUME Sound, Exchanges, NEW t \in Turns, LoadHistory(t)
  PROVE  Exchange(turn'[t]) /\ \A u \in Turns : u # t => turn'[u] = turn[u]
<1> DEFINE asked == roles_of(history[session(t)]) \o
                      (IF turn[t].round = 0 THEN <<"user">> ELSE <<"user", "user">>)
           r == [turn[t] EXCEPT !.request = asked, !.phase = "ready"]
<1>1. phase(t) = "loading" /\ phase(t) \notin Ending
  BY PhasesApart DEF LoadHistory
<1>2. turn' = [turn EXCEPT ![t] = r]
  BY <1>1, Before DEF LoadHistory
<1>3. turn[t] \in Locals /\ turn[t].shown = <<>> /\ turn[t].reply = <<>>
  BY <1>1, Before DEF Streamed
<1>4. history[session(t)] \in Seq(Messages) /\ Paired(history[session(t)])
  BY AssistantAssumption DEF Sound, TypeOK, session
<1>5. asked # <<>> /\ (turn[t].round = 0 => Alternating(asked))
  BY <1>4, AskedAlternates
<1> HIDE DEF asked
<1>6. /\ r.phase = "ready" /\ r.request = asked /\ r.shown = <<>> /\ r.reply = <<>>
      /\ r.round = turn[t].round
  BY <1>3 DEF Locals
<1> HIDE DEF r
<1>7. IsInjective(r.shown) /\ Streamed(r)
  BY <1>6 DEF Streamed, IsInjective
<1> QED
  BY <1>2, <1>5, <1>6, <1>7, GoesOn, PhasesApart

LEMMA AskModelExchanges ==
  ASSUME Sound, Exchanges, NEW t \in Turns, AskModel(t)
  PROVE  Exchange(turn'[t]) /\ \A u \in Turns : u # t => turn'[u] = turn[u]
<1> DEFINE r == [turn[t] EXCEPT !.phase = "streaming"]
<1>1. turn[t].phase = "ready" /\ phase(t) = "ready" /\ phase(t) \notin Ending
  BY PhasesApart DEF AskModel, phase
<1>2. turn' = [turn EXCEPT ![t] = r]
  BY <1>1, Before DEF AskModel
<1>3. r.phase = "streaming" /\ r.request = turn[t].request /\ r.shown = turn[t].shown
      /\ r.reply = turn[t].reply /\ r.round = turn[t].round
  BY <1>1, Before DEF Locals
<1> HIDE DEF r
<1>4. IsInjective(r.shown) /\ Streamed(r)
  BY <1>1, <1>3, Before DEF Streamed, HasYielded
<1> QED
  BY <1>1, <1>2, <1>3, <1>4, Before, GoesOn, PhasesApart

LEMMA StreamTextExchanges ==
  ASSUME Sound, Exchanges, NEW t \in Turns, StreamText(t)
  PROVE  Exchange(turn'[t]) /\ \A u \in Turns : u # t => turn'[u] = turn[u]
<1> DEFINE s == turn[t].shown
           m == Model(turn[t].round)
           r == [turn[t] EXCEPT !.yielded = TRUE, !.shown = Append(s, m)]
<1>1. turn[t].phase = "streaming" /\ phase(t) = "streaming" /\ phase(t) \notin Ending
      /\ ~turn[t].yielded
  BY PhasesApart DEF StreamText, phase
<1>2. turn' = [turn EXCEPT ![t] = r]
  BY <1>1, Before DEF StreamText
<1>3. r.phase = "streaming" /\ r.request = turn[t].request /\ r.shown = Append(s, m)
      /\ r.reply = turn[t].reply /\ r.round = turn[t].round /\ r.yielded = TRUE
  BY <1>1, Before DEF Locals
<1>4. s \in Seq(Pieces) /\ IsInjective(s) /\ m \in Pieces
  BY <1>1, Before, ShownTyped, PieceTypes
<1>5. m.kind = "model" /\ m.n = turn[t].round /\ turn[t].round \in Nat
  BY ShownTyped DEF Model
<1>6. \A i \in 1..Len(s) : s[i].kind = "model" /\ s[i].n <= turn[t].round
                           /\ s[i].n # turn[t].round
  BY <1>1, Before DEF Streamed, HasYielded
<1> HIDE DEF r, s, m
<1>7. \A i \in 1..Len(s) : s[i] # m
  BY <1>5, <1>6
<1> DEFINE a == Append(s, m)
<1>8. /\ IsInjective(a) /\ Len(a) = Len(s) + 1 /\ Last(a) = m
      /\ \A i \in 1..Len(s) : a[i] = s[i]
      /\ \A i \in 1..Len(s) + 1 : i \in 1..Len(s) \/ i = Len(s) + 1
  BY <1>4, <1>7, ShownOnce
<1>9. r.shown = a
  BY <1>3
<1> HIDE DEF a
<1>10. a[Len(s) + 1] = m
  BY <1>8 DEF Last
<1>11. \A i \in 1..Len(a) : a[i].kind = "model" /\ a[i].n <= turn[t].round
  BY <1>5, <1>6, <1>8, <1>10
<1>12. r.request # <<>> /\ (r.round = 0 => Alternating(r.request)) /\ r.reply = <<>>
  BY <1>1, <1>3, Before DEF Streamed
<1>13. Streamed(r)
  BY <1>3, <1>9, <1>11, <1>12 DEF Streamed, HasYielded
<1>14. IsInjective(r.shown) /\ r.phase \notin Ending
  BY <1>3, <1>8, <1>9, PhasesApart
<1> QED
  BY <1>2, <1>3, <1>12, <1>13, <1>14, GoesOn

LEMMA RetryModelExchanges ==
  ASSUME Sound, Exchanges, NEW t \in Turns, RetryModel(t)
  PROVE  Exchange(turn'[t]) /\ \A u \in Turns : u # t => turn'[u] = turn[u]
<1> DEFINE r == [turn[t] EXCEPT !.attempt = turn[t].attempt + 1, !.yielded = FALSE]
<1>1. turn[t].phase = "streaming" /\ phase(t) = "streaming" /\ phase(t) \notin Ending
      /\ ~turn[t].yielded
  BY PhasesApart DEF RetryModel, MayRetry, phase
<1>2. turn' = [turn EXCEPT ![t] = r]
  BY <1>1, Before DEF RetryModel
<1>3. r.phase = "streaming" /\ r.request = turn[t].request /\ r.shown = turn[t].shown
      /\ r.reply = turn[t].reply /\ r.round = turn[t].round
  BY <1>1, Before DEF Locals
<1> HIDE DEF r
<1>4. IsInjective(r.shown) /\ Streamed(r)
  BY <1>1, <1>3, Before DEF Streamed, HasYielded
<1> QED
  BY <1>1, <1>2, <1>3, <1>4, Before, GoesOn, PhasesApart

LEMMA ModelSelectsToolsExchanges ==
  ASSUME Sound, Exchanges, NEW t \in Turns, ModelSelectsTools(t)
  PROVE  Exchange(turn'[t]) /\ \A u \in Turns : u # t => turn'[u] = turn[u]
<1>1. turn[t].phase = "streaming" /\ phase(t) = "streaming" /\ phase(t) \notin Ending
  BY PhasesApart DEF ModelSelectsTools, phase
<1>2. PICK tools : turn' = [turn EXCEPT ![t] =
        [@ EXCEPT !.tools = tools, !.phase = "dispatching",
                  !.attempt = 0, !.yielded = FALSE]]
  BY DEF ModelSelectsTools
<1> DEFINE r == [turn[t] EXCEPT !.tools = tools, !.phase = "dispatching",
                                !.attempt = 0, !.yielded = FALSE]
<1>3. turn' = [turn EXCEPT ![t] = r]
  BY <1>1, <1>2, Before
<1>4. r.phase = "dispatching" /\ r.request = turn[t].request /\ r.shown = turn[t].shown
      /\ r.reply = turn[t].reply /\ r.round = turn[t].round
  BY <1>1, Before DEF Locals
<1> HIDE DEF r
<1>5. IsInjective(r.shown) /\ Streamed(r)
  BY <1>1, <1>4, Before DEF Streamed, HasYielded
<1> QED
  BY <1>3, <1>4, <1>5, GoesOn, PhasesApart

LEMMA RunToolExchanges ==
  ASSUME Sound, Exchanges, NEW t \in Turns, RunTool(t)
  PROVE  Exchange(turn'[t]) /\ \A u \in Turns : u # t => turn'[u] = turn[u]
<1> DEFINE r == [turn[t] EXCEPT !.phase = "executing"]
<1>1. turn[t].phase = "dispatching" /\ phase(t) = "dispatching" /\ phase(t) \notin Ending
  BY PhasesApart DEF RunTool, phase
<1>2. turn' = [turn EXCEPT ![t] = r]
  BY <1>1, Before DEF RunTool
<1>3. r.phase = "executing" /\ r.request = turn[t].request /\ r.shown = turn[t].shown
      /\ r.reply = turn[t].reply /\ r.round = turn[t].round
  BY <1>1, Before DEF Locals
<1> HIDE DEF r
<1>4. IsInjective(r.shown) /\ Streamed(r)
  BY <1>1, <1>3, Before DEF Streamed, HasYielded
<1> QED
  BY <1>2, <1>3, <1>4, GoesOn, PhasesApart

\* A follow-up stream has a number of its own.
LEMMA ToolReturnsExchanges ==
  ASSUME Sound, Exchanges, NEW t \in Turns, ToolReturns(t)
  PROVE  Exchange(turn'[t]) /\ \A u \in Turns : u # t => turn'[u] = turn[u]
<1> DEFINE q == turn[t]
           r == tool_returned(q)
<1>1. q.phase = "executing" /\ phase(t) = "executing" /\ phase(t) \notin Ending
  BY PhasesApart DEF ToolReturns, phase
<1>2. turn' = [turn EXCEPT ![t] = r]
  BY DEF ToolReturns
<1>3. q \in Locals /\ IsInjective(q.shown) /\ Streamed(q)
  BY <1>1, Before
<1>4. q.round \in Nat /\ \A i \in 1..Len(q.shown) :
        q.shown[i].kind = "model" => q.shown[i].n \in Nat
  BY ShownTyped
<1>5. q.request \in Seq({"user", "assistant"})
  BY <1>3 DEF Locals
<1> HIDE DEF q
<1>6. CASE Len(q.tools) > 1
  <2>1. r = [q EXCEPT !.tools = Tail(q.tools), !.phase = "dispatching"]
    BY <1>6 DEF tool_returned
  <2>2. r.phase = "dispatching" /\ r.request = q.request /\ r.shown = q.shown
        /\ r.reply = q.reply /\ r.round = q.round
    BY <1>3, <2>1 DEF Locals
  <2> HIDE DEF r
  <2>3. IsInjective(r.shown) /\ Streamed(r)
    BY <1>1, <1>3, <2>2 DEF Streamed, HasYielded
  <2> QED
    BY <1>2, <2>2, <2>3, GoesOn, PhasesApart
<1>7. CASE ~(Len(q.tools) > 1) /\ q.request = <<>>
  <2>1. r = [q EXCEPT !.tools = <<>>, !.phase = "loading"]
    BY <1>7 DEF tool_returned
  <2>2. r.phase = "loading" /\ r.request = <<>> /\ r.shown = <<>> /\ r.reply = <<>>
    BY <1>3, <1>7, <2>1 DEF Locals, Streamed
  <2> HIDE DEF r
  <2>3. IsInjective(r.shown) /\ Streamed(r)
    BY <2>2 DEF Streamed, IsInjective
  <2> QED
    BY <1>2, <2>2, <2>3, GoesOn, PhasesApart
<1>8. CASE ~(Len(q.tools) > 1) /\ q.request # <<>>
  <2> DEFINE asked == Append(q.request, "user")
  <2>1. r = [q EXCEPT !.tools = <<>>, !.round = q.round + 1,
                      !.request = asked, !.phase = "ready"]
    BY <1>8 DEF tool_returned
  <2>2. asked # <<>>
    BY <1>5
  <2> HIDE DEF asked
  <2>3. r.phase = "ready" /\ r.request = asked /\ r.shown = q.shown
        /\ r.reply = q.reply /\ r.round = q.round + 1
    BY <1>3, <2>1 DEF Locals
  <2> HIDE DEF r
  <2>4. \A i \in 1..Len(q.shown) :
          /\ q.shown[i].kind = "model" /\ q.shown[i].n <= q.round + 1
          /\ q.shown[i].n # q.round + 1
    BY <1>3, <1>4 DEF Streamed
  <2>5. Streamed(r)
    BY <1>3, <2>2, <2>3, <2>4 DEF Streamed
  <2>6. IsInjective(r.shown) /\ r.round # 0
    BY <1>3, <1>4, <2>3
  <2> QED
    BY <1>2, <2>2, <2>3, <2>5, <2>6, GoesOn, PhasesApart
<1> QED
  BY <1>6, <1>7, <1>8

LEMMA LoadForAppendExchanges ==
  ASSUME Sound, Exchanges, NEW t \in Turns, LoadForAppend(t)
  PROVE  Exchange(turn'[t]) /\ \A u \in Turns : u # t => turn'[u] = turn[u]
<1> DEFINE r == [turn[t] EXCEPT !.loaded = history[session(t)], !.phase = "saving"]
<1>1. turn \in [Turns -> Locals] /\ turn[t] \in Locals /\ Exchange(turn[t])
      /\ turn[t].phase = "appending"
  BY DEF Sound, TypeOK, Exchanges, LoadForAppend, phase
<1>2. turn' = [turn EXCEPT ![t] = r]
  BY <1>1 DEF LoadForAppend
<1>3. r.phase = "saving" /\ r.shown = turn[t].shown /\ r.reply = turn[t].reply
  BY <1>1 DEF Locals
<1> HIDE DEF r
<1>4. IsInjective(r.shown) /\ Kept(r)
  BY <1>1, <1>3 DEF Exchange, Kept, Ending
<1>5. Exchange(r)
  BY <1>3, <1>4 DEF Exchange, Ending
<1> QED
  BY <1>1, <1>2, <1>5

\* A turn that answers with what its streams have yielded.
LEMMA AnswersExchanges ==
  ASSUME Sound, Exchanges, NEW t \in Turns, phase(t) \notin Ending,
         StartAppend(t, turn[t].shown, turn[t].shown)
  PROVE  Exchange(turn'[t]) /\ \A u \in Turns : u # t => turn'[u] = turn[u]
<1> DEFINE s == turn[t].shown
<1>1. s \in Seq(Pieces) /\ IsInjective(s)
  BY Before, ShownTyped
<1>2. StartAppend(t, s, s)
  OBVIOUS
<1> HIDE DEF s
<1> QED
  BY <1>1, <1>2, StartAppendKeeps

\* One that ends with the degraded text.
LEMMA DegradeExchanges ==
  ASSUME Sound, Exchanges, NEW t \in Turns, phase(t) \notin Ending, Degrade(t)
  PROVE  Exchange(turn'[t]) /\ \A u \in Turns : u # t => turn'[u] = turn[u]
BY LastPieceKeeps DEF Degrade

\* Every step of a turn keeps what it asks, shows and stores in agreement.
LEMMA StepExchanges ==
  ASSUME Sound, Exchanges, NEW t \in Turns, Step(t)
  PROVE  Exchange(turn'[t]) /\ \A u \in Turns : u # t => turn'[u] = turn[u]
<1>1. CASE Drop(t) \/ Reject(t) \/ SuppressFiller(t) \/ SkipEmptyReply(t) \/ Save(t) \/ StoreFails(t)
  <2>1. \E how \in Over : Finish(t, how)
    BY <1>1 DEF Drop, Reject, SuppressFiller, SkipEmptyReply, Save, StoreFails, Over
  <2> QED
    BY <2>1, FinishKeeps
<1>2. CASE ConfirmTool(t)
  BY <1>2, ConfirmToolExchanges
<1>3. CASE AnswerFaq(t)
  <2>1. phase(t) = "queued" /\ phase(t) \notin Ending
    BY <1>3, PhasesApart DEF AnswerFaq, Starts, IsNext
  <2>2. turn[t].shown = <<>>
    BY <2>1, Before DEF Streamed
  <2> QED
    BY <1>3, <2>1, <2>2, LastPieceKeeps DEF AnswerFaq
<1>4. CASE AnswerDegraded(t)
  BY <1>4, DegradeExchanges, PhasesApart DEF AnswerDegraded, Starts, IsNext
<1>5. CASE RunLlmTurn(t)
  BY <1>5, RunLlmTurnExchanges
<1>6. CASE LoadHistory(t)
  BY <1>6, LoadHistoryExchanges
<1>7. CASE AskModel(t)
  BY <1>7, AskModelExchanges
<1>8. CASE ModelRefused(t)
  BY <1>8, DegradeExchanges, PhasesApart DEF ModelRefused
<1>9. CASE StreamText(t)
  BY <1>9, StreamTextExchanges
<1>10. CASE RetryModel(t)
  BY <1>10, RetryModelExchanges
<1>11. CASE ModelAnswers(t)
  BY <1>11, AnswersExchanges, PhasesApart DEF ModelAnswers
<1>12. CASE ModelSelectsTools(t)
  BY <1>12, ModelSelectsToolsExchanges
<1>13. CASE HopBudgetExhausted(t)
  <2>1. phase(t) \notin Ending
    BY <1>13, PhasesApart DEF HopBudgetExhausted
  <2> QED
    BY <1>13, <2>1, AnswersExchanges, LastPieceKeeps DEF HopBudgetExhausted
<1>14. CASE ModelFailsTransiently(t)
  BY <1>14, DegradeExchanges, PhasesApart DEF ModelFailsTransiently
<1>15. CASE ModelFailsOtherwise(t)
  BY <1>15, DegradeExchanges, PhasesApart DEF ModelFailsOtherwise
<1>16. CASE DispatchUnknown(t)
  <2>1. phase(t) \notin Ending
    BY <1>16, PhasesApart DEF DispatchUnknown
  <2> QED
    BY <1>16, <2>1, LastPieceKeeps DEF DispatchUnknown
<1>17. CASE AskConfirmation(t)
  <2>1. phase(t) \notin Ending
    BY <1>17, PhasesApart DEF AskConfirmation
  <2> QED
    BY <1>17, <2>1, LastPieceKeeps DEF AskConfirmation
<1>18. CASE RunTool(t)
  BY <1>18, RunToolExchanges
<1>19. CASE ToolReturns(t)
  BY <1>19, ToolReturnsExchanges
<1>20. CASE LoadForAppend(t)
  BY <1>20, LoadForAppendExchanges
<1> QED
  BY <1>1, <1>2, <1>3, <1>4, <1>5, <1>6, <1>7, <1>8, <1>9, <1>10, <1>11, <1>12,
     <1>13, <1>14, <1>15, <1>16, <1>17, <1>18, <1>19, <1>20 DEF Step

LEMMA NextExchanges == Inv /\ Exchanges /\ [Next]_vars => Exchanges'
<1> SUFFICES ASSUME Inv, Exchanges, [Next]_vars
             PROVE  \A u \in Turns : Exchange(turn'[u])
  BY DEF Exchanges, Exchange, Kept, Streamed, HasYielded, Alternating
<1>1. Sound /\ \A u \in Turns : Exchange(turn[u])
  BY DEF Inv, Exchanges
<1>2. ASSUME NEW t \in Turns, Arrive(t) \/ Step(t)
      PROVE  \A u \in Turns : Exchange(turn'[u])
  <2>1. Exchange(turn'[t]) /\ \A u \in Turns : u # t => turn'[u] = turn[u]
    BY <1>1, <1>2, ArriveExchanges, StepExchanges
  <2> QED
    BY <1>1, <2>1
<1>3. \/ UNCHANGED turn
      \/ \E t \in Turns : Arrive(t) \/ Step(t)
  BY DEF Next, Close, Register, Deregister, RecoveryWindowElapses, vars
<1> QED
  BY <1>1, <1>2, <1>3

LEMMA InitExchanges == Init => Exchanges
<1> SUFFICES ASSUME Init, NEW t \in Turns PROVE Exchange(turn[t])
  BY DEF Exchanges
<1>1. turn[t] = Fresh
  BY DEF Init
<1>2. /\ Fresh.phase = "idle" /\ Fresh.shown = <<>> /\ Fresh.reply = <<>>
      /\ Fresh.request = <<>>
  BY DEF Fresh
<1>3. Fresh.phase \notin Ending
  BY <1>2, PhasesApart
<1>4. IsInjective(Fresh.shown) /\ Streamed(Fresh)
  BY <1>2 DEF IsInjective, Streamed
<1>5. Exchange(Fresh)
  BY <1>2, <1>3, <1>4 DEF Exchange
<1> QED
  BY <1>1, <1>5

\* What the model is asked, the resident is shown and the history keeps of a
\* turn agree, whatever is retried, degraded, refused or stored around it.
THEOREM ExchangesAlwaysSound == Spec => []ExchangeSound
<1>1. Exchanges => ExchangeSound
  <2> SUFFICES ASSUME Exchanges, NEW t \in Turns
               PROVE  /\ Kept(turn[t]) /\ IsInjective(turn[t].shown)
                      /\ (phase(t) = "streaming" /\ turn[t].round = 0) => Alternating(turn[t].request)
    BY DEF ExchangeSound, ReplyIsWhatWasShown, NothingReplayed, FirstRequestAlternates,
           Kept, Alternating
  <2> QED
    BY DEF Exchanges, Exchange, Kept, Streamed, phase
<1>2. Spec => []Exchanges
  BY Invariance, InitExchanges, NextExchanges, PTL DEF Spec
<1> QED
  BY <1>1, <1>2, PTL
=============================================================================
